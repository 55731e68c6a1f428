-------------------------- MODULE OrderMatterProofs --------------------------
(***************************************************************************)
(* Proofs about OrderMatter, for any clients, sources, orders, matters,    *)
(* keys and requests.                                                      *)
(***************************************************************************)
EXTENDS OrderMatter, SequenceTheorems, TLAPS

USE OrderMatterAssumption

LEMMA InitIInv == Init => IInv
  BY DEF Init, IInv, TypeOK, AtWork, RowsAgree, OneOrderForSource, CommandsAgree, SeenIsPast, Past, LineageAgrees,
     NoOrphanMatter, OkIsCommitted, HistoryIsComplete, History, NoDraft, NoMatter, NoOrder,
     NoCommand, NoMatterCommand, NoRequest, DraftRow, MatterRow, OrderRow, Contents, Recorded,
     MatterRecorded

LEMMA RequestTypes ==
    ASSUME NEW r \in Requests
    PROVE  /\ r.op \in Operations /\ r.key \in Keys /\ r.source \in Sources
           /\ r.order \in Orders /\ r.expected \in Nat /\ r.matter \in Matters
           /\ r.filled \in BOOLEAN /\ r.scope \in BOOLEAN
           /\ Content(r) \in Contents
  BY DEF RequestType, Contents

LEMMA ContentIsSome == ASSUME NEW r PROVE Content(r) # << >>
  BY DEF Content

(* The fingerprint of a conversion tells its order. *)
LEMMA ContentTellsOrder ==
    ASSUME NEW q \in Requests, NEW r \in Requests, Content(q) = Content(r), q.op = "convert"
    PROVE  r.op = "convert" /\ r.order = q.order
  BY RequestTypes DEF Content, Operations, Stages

(* What every step does to the rows that others look at. *)
Grows ==
    /\ \A o \in Orders : order'[o] = order[o] \/ order'[o].version > order[o].version
    /\ \A k \in Keys : Recorded(k) => command'[k] = command[k]
    /\ \A k \in Keys : MatterRecorded(k) => matterCommand'[k] = matterCommand[k]

LEMMA OthersKept ==
    ASSUME IInv, TypeOK', NEW c \in Clients, Grows,
           \A d \in Clients \ {c} : /\ pc'[d] = pc[d] /\ req'[d] = req[d]
                                    /\ seenOrder'[d] = seenOrder[d] /\ answered'[d] = answered[d],
           \/ pc'[c] = "idle" /\ (answered'[c] => req'[c] \in Requests /\ OnRecord(c)')
           \/ ~answered'[c] /\ req'[c] \in Requests /\ Past(c)'
              /\ (pc'[c] = "draft" => req'[c].op \notin Stages)
    PROVE  AtWork' /\ SeenIsPast' /\ OkIsCommitted'
<1>1. AtWork'
  BY DEF IInv, AtWork
<1>2. SUFFICES ASSUME NEW d \in Clients
               PROVE  Past(d)' /\ (answered'[d] => OnRecord(d)')
  BY <1>1 DEF SeenIsPast, OkIsCommitted
<1>3. CASE d = c
  BY <1>3 DEF Past
<1>4. CASE d # c
  <2>1. Past(d)'
    <3>1. SUFFICES ASSUME pc[d] \in {"source", "commit"}, req[d].op \in Stages
                   PROVE  Past(d)'
      BY <1>4 DEF Past
    <3>2. req[d] \in Requests
      BY <3>1 DEF IInv, AtWork
    <3>3. Past(d) /\ req[d].order \in Orders
      BY <3>2, RequestTypes DEF IInv, SeenIsPast
    <3>4. /\ order[req[d].order].version \in Nat /\ order'[req[d].order].version \in Nat
          /\ seenOrder[d].version \in Nat
      BY <3>3 DEF IInv, TypeOK, OrderRow
    <3> QED  BY <1>4, <3>1, <3>3, <3>4 DEF Grows, Past
  <2>2. ASSUME answered[d] PROVE OnRecord(d)'
    <3>1. req[d] \in Requests /\ OnRecord(d)
      BY <2>2 DEF IInv, AtWork, OkIsCommitted
    <3>2. CASE req[d].op = "open_matter"
      <4>1. MatterRecorded(req[d].key)
        BY <3>1, <3>2, RequestTypes, ContentIsSome DEF IInv, RowsAgree, OnRecord
      <4> QED  BY <1>4, <3>1, <3>2, <4>1, RequestTypes DEF Grows, OnRecord
    <3>3. CASE req[d].op # "open_matter"
      <4>1. Recorded(req[d].key)
        BY <3>1, <3>3, RequestTypes, ContentIsSome DEF IInv, CommandsAgree, OnRecord
      <4> QED  BY <1>4, <3>1, <3>3, <4>1, RequestTypes DEF Grows, OnRecord
    <3> QED  BY <3>2, <3>3
  <2> QED  BY <1>4, <2>1, <2>2
<1> QED  BY <1>3, <1>4

(* A step that leaves orders and matters alone. *)
LEMMA RowsKept ==
    ASSUME IInv, UNCHANGED <<matters, orders>>,
           TypeOK', AtWork', SeenIsPast', OkIsCommitted'
    PROVE  IInv'
  BY DEF IInv, RowsAgree, OneOrderForSource, CommandsAgree, LineageAgrees, NoOrphanMatter,
     HistoryIsComplete, MadeBy,
     matters, orders, Recorded, MatterRecorded

-----------------------------------------------------------------------------
(* Reads, refusals and replays; drafts and confirmations. *)

LEMMA SourcesIInv ==
    ASSUME IInv, NEW s \in Sources, ConfirmQuote(s) \/ Withdraw(s)
    PROVE  IInv'
<1>1. TypeOK'
  BY DEF IInv, TypeOK, ConfirmQuote, Withdraw, matters, orders, request
<1>2. AtWork' /\ SeenIsPast' /\ OkIsCommitted'
  BY DEF IInv, AtWork, SeenIsPast, Past, OkIsCommitted, OnRecord, ConfirmQuote, Withdraw, matters,
     orders, request
<1> QED  BY <1>1, <1>2, RowsKept DEF ConfirmQuote, Withdraw

Reads(c) ==
    \/ \E r \in Requests : Start(c, r)
    \/ FindReplay(c) \/ LoadOrder(c) \/ CheckSource(c) \/ ReadDraft(c) \/ Evaluate(c)
    \/ CreateDraft(c) \/ UpdateDraft(c)
    \/ ReplayInTransaction(c) \/ RollBack(c) \/ Resolve(c) \/ Fails(c)

LEMMA ReadsKeepRows ==
    ASSUME NEW c \in Clients, Reads(c)
    PROVE  UNCHANGED <<matters, orders>>
  BY DEF Reads, Start, FindReplay, LoadOrder, CheckSource, ReadDraft, Evaluate, CreateDraft,
     UpdateDraft, ReplayInTransaction, RollBack, Resolve, Fails, Replays

LEMMA ReadsTypeOK ==
    ASSUME IInv, NEW c \in Clients, Reads(c)
    PROVE  TypeOK'
<1> USE ReadsKeepRows DEF matters, orders, sources, request
<1>1. ASSUME NEW r \in Requests, Start(c, r) PROVE TypeOK'
  BY <1>1 DEF IInv, TypeOK, Start, First
<1>a. NoOrder \in OrderRow /\ NoDraft \in DraftRow
  BY DEF NoOrder, NoDraft, OrderRow, DraftRow
<1>2. CASE Replays(c)
  <2>1. (Answer(c) \/ Drop(c)) /\ UNCHANGED <<sources, matters, orders>>
    BY <1>2 DEF Replays
  <2>2. CASE Answer(c)
    BY <1>a, <2>1, <2>2 DEF IInv, TypeOK, Answer, Leave
  <2>3. CASE Drop(c)
    BY <1>a, <2>1, <2>3 DEF IInv, TypeOK, Drop, Leave
  <2> QED  BY <2>1, <2>2, <2>3
<1>3. CASE Fails(c)
  BY <1>a, <1>3 DEF IInv, TypeOK, Fails, Drop, Leave
<1>4. CASE (FindReplay(c) /\ ~Replays(c)) \/ CheckSource(c) \/ RollBack(c)
  BY <1>4 DEF IInv, TypeOK, FindReplay, CheckSource, RollBack, Goto
<1>5. CASE LoadOrder(c)
  <2>1. order[req[c].order] \in OrderRow
    BY <1>5, RequestTypes DEF IInv, AtWork, LoadOrder, TypeOK
  <2> QED  BY <1>5, <2>1 DEF IInv, TypeOK, LoadOrder, Goto
<1>6. CASE ReadDraft(c)
  <2>1. req[c] \in Requests
    BY <1>6 DEF IInv, AtWork, ReadDraft
  <2>2. draft[req[c].source] \in DraftRow
    BY <2>1, RequestTypes DEF IInv, TypeOK
  <2>3. Edited(draft[req[c].source], req[c]) \in DraftRow
    BY <2>1, <2>2, RequestTypes DEF Edited, DraftRow
  <2> QED  BY <1>6, <2>2, <2>3 DEF IInv, TypeOK, ReadDraft, Goto
<1>7. CASE Evaluate(c)
  <2> DEFINE row == [seenDraft[c] EXCEPT !.ready = Confirmed(SourceOf(c)) /\ seenDraft[c].filled
                                                       /\ seenDraft[c].scope]
  <2>1. seenDraft[c] \in DraftRow
    BY DEF IInv, TypeOK
  <2>2. row \in DraftRow
    BY <2>1 DEF DraftRow
  <2>3. seenDraft' = [seenDraft EXCEPT ![c] = row]
    BY <1>7 DEF Evaluate
  <2> HIDE DEF row
  <2> QED  BY <1>7, <2>2, <2>3 DEF IInv, TypeOK, Evaluate, Goto
<1>8. CASE CreateDraft(c)
  <2>1. [NoDraft EXCEPT !.version = 1] \in DraftRow
    BY DEF NoDraft, DraftRow
  <2> QED  BY <1>a, <1>8, <2>1 DEF IInv, TypeOK, CreateDraft, Drop, Leave
<1>9. CASE UpdateDraft(c)
  <2> DEFINE s == req[c].source
             row == [seenDraft[c] EXCEPT !.version = draft[s].version + 1]
  <2>1. draft[s] \in DraftRow /\ seenDraft[c] \in DraftRow
    BY <1>9, RequestTypes DEF IInv, AtWork, UpdateDraft, TypeOK
  <2>2. row \in DraftRow
    BY <2>1 DEF DraftRow
  <2>3. draft' = [draft EXCEPT ![s] = row]
    BY <1>9 DEF UpdateDraft
  <2> HIDE DEF row
  <2> QED  BY <1>a, <1>9, <2>2, <2>3 DEF IInv, TypeOK, UpdateDraft, Drop, Leave
<1> QED
  BY <1>1, <1>2, <1>3, <1>4, <1>5, <1>6, <1>7, <1>8, <1>9
  DEF Reads, FindReplay, ReplayInTransaction, Resolve

LEMMA ReadsIInv ==
    ASSUME IInv, NEW c \in Clients, Reads(c)
    PROVE  IInv'
<1> USE ReadsKeepRows DEF matters, orders, sources, request
<1>1. TypeOK'
  BY ReadsTypeOK
<1>2. Grows
  BY DEF Grows
<1>3. \A d \in Clients \ {c} : /\ pc'[d] = pc[d] /\ req'[d] = req[d]
                              /\ seenOrder'[d] = seenOrder[d] /\ answered'[d] = answered[d]
  BY DEF Reads, Start, FindReplay, LoadOrder, CheckSource, ReadDraft, Evaluate, CreateDraft,
     UpdateDraft, ReplayInTransaction, RollBack, Resolve, Fails, Replays, Answer, Drop, Leave, Goto,
     IInv, TypeOK
<1> DEFINE Ended == pc'[c] = "idle" /\ (answered'[c] => req'[c] \in Requests /\ OnRecord(c)')
           GoesOn == ~answered'[c] /\ req'[c] \in Requests /\ Past(c)'
                     /\ (pc'[c] = "draft" => req'[c].op \notin Stages)
<1>4. Ended \/ GoesOn
  <2>1. ASSUME NEW r \in Requests, Start(c, r) PROVE GoesOn
    BY <2>1, RequestTypes DEF IInv, TypeOK, Start, First, Past, Stages
  <2>2. ASSUME pc[c] # "idle", Replays(c) PROVE Ended
    BY <2>2 DEF IInv, TypeOK, AtWork, Replays, Answer, Drop, Leave, OwnRecorded, SameContent, OnRecord
  <2>3. CASE Fails(c) \/ CreateDraft(c) \/ UpdateDraft(c)
    BY <2>3 DEF IInv, TypeOK, AtWork, Fails, CreateDraft, UpdateDraft, Drop, Leave
  <2>4. ASSUME pc[c] # "idle"
        PROVE  ~answered[c] /\ req[c] \in Requests /\ (pc[c] = "draft" => req[c].op \notin Stages)
    BY <2>4 DEF IInv, AtWork
  <2>5. CASE LoadOrder(c)
    <3>1. /\ order[req[c].order] \in OrderRow /\ ~answered'[c] /\ req'[c] = req[c]
          /\ req[c] \in Requests
      BY <2>4, <2>5, RequestTypes DEF LoadOrder, Goto, IInv, TypeOK
    <3>2. Past(c)'
      BY <2>5, <3>1, RequestTypes DEF LoadOrder, Goto, IInv, TypeOK, OrderRow, OrderExists, Past
    <3> QED  BY <2>5, <3>1, <3>2 DEF LoadOrder, Goto, IInv, TypeOK
  <2>6. CASE CheckSource(c)
    <3>1. Past(c)
      BY DEF IInv, SeenIsPast
    <3> QED  BY <2>4, <2>6, <3>1 DEF IInv, TypeOK, CheckSource, Goto, Past, Stages
  <2>7. CASE FindReplay(c) /\ ~Replays(c)
    BY <2>4, <2>7 DEF IInv, TypeOK, FindReplay, Goto, Past
  <2>8. CASE ReadDraft(c) \/ Evaluate(c)
    BY <2>4, <2>8 DEF IInv, TypeOK, ReadDraft, Evaluate, Goto, Past, Stages
  <2>9. CASE RollBack(c)
    BY <2>4, <2>9 DEF IInv, TypeOK, RollBack, Goto, Past
  <2> QED
    BY <2>1, <2>2, <2>3, <2>5, <2>6, <2>7, <2>8, <2>9
    DEF Reads, FindReplay, ReplayInTransaction, Resolve
<1> QED  BY <1>1, <1>2, <1>3, <1>4, OthersKept, RowsKept
-----------------------------------------------------------------------------
(* Transactions that write orders and matters. *)

(* An order's history grows by the entry of the command that moves it. *)
LEMMA HistoryGrows ==
    ASSUME IInv, NEW r \in Requests, NEW o \in Orders, NEW row \in OrderRow,
           ~Recorded(r.key), SaveOrder(r, o, row),
           row.status \in OrderStatuses, row.version = order[o].version + 1,
           order[o].version > 0 => CanTransitionOrder(order[o].status, row.status)
    PROVE  HistoryIsComplete'
<1> DEFINE n == order[o].version
           e == [from |-> order[o].status, to |-> row.status, version |-> row.version]
<1>1. /\ order' = [order EXCEPT ![o] = row]
      /\ command' = [command EXCEPT ![r.key] =
             [by |-> Content(r), order |-> o, version |-> row.version]]
      /\ audit' = [audit EXCEPT ![o] = Append(@, e)]
  BY DEF SaveOrder
<1>2. order[o] \in OrderRow /\ n \in Nat
  BY DEF IInv, TypeOK, OrderRow
<1>3. e \in AuditRow /\ audit[o] \in Seq(AuditRow)
  BY <1>2 DEF IInv, TypeOK, OrderRow, AuditRow
<1>4. History(audit[o], order[o])
  BY DEF IInv, HistoryIsComplete
<1>5. History(Append(audit[o], e), row)
  <2>1. Len(audit[o]) = n
    BY <1>4 DEF History
  <2>2. n = 0 => order[o].status = "NONE"
    BY <1>2 DEF IInv, RowsAgree, NoOrder
  <2> DEFINE h == Append(audit[o], e)
  <2>3. /\ Len(h) = n + 1 /\ h[n + 1] = e
        /\ \A i \in 1..n : h[i] = audit[o][i]
    BY <1>2, <1>3, <2>1
  <2>4. e.from = order[o].status /\ e.to = row.status /\ e.version = n + 1
    OBVIOUS
  <2>5. /\ n > 0 => audit[o][1].from = "NONE" /\ audit[o][n].to = order[o].status
        /\ \A i \in 1..n : /\ audit[o][i].version = i
                           /\ i > 1 => /\ audit[o][i].from = audit[o][i - 1].to
                                       /\ CanTransitionOrder(audit[o][i].from, audit[o][i].to)
    BY <1>4, <2>1 DEF History
  <2> HIDE DEF h, e, n
  <2>7. n \in Nat /\ row.version = n + 1 /\ (n > 0 => CanTransitionOrder(order[o].status, row.status))
    BY <1>2 DEF n
  <2>8. h[1].from = "NONE" /\ h[n + 1].to = row.status
    <3>1. CASE n = 0  BY <2>2, <2>3, <2>4, <3>1
    <3>2. CASE n > 0  BY <2>3, <2>4, <2>5, <2>7, <3>2
    <3> QED  BY <2>7, <3>1, <3>2
  <2>9. ASSUME NEW i \in 1..(n + 1)
        PROVE  /\ h[i].version = i
               /\ i > 1 => h[i].from = h[i - 1].to /\ CanTransitionOrder(h[i].from, h[i].to)
    <3>1. CASE i \in 1..n
      <4>1. h[i] = audit[o][i] /\ (i > 1 => h[i - 1] = audit[o][i - 1])
        BY <2>3, <2>7, <3>1
      <4> QED  BY <2>5, <3>1, <4>1
    <3>2. CASE i = n + 1
      <4>1. h[i] = e /\ (i > 1 => h[i - 1] = audit[o][n] /\ n > 0)
        BY <2>3, <2>7, <3>2
      <4> QED  BY <2>4, <2>5, <2>7, <3>2, <4>1
    <3> QED  BY <2>7, <3>1, <3>2
  <2>6. History(h, row)
    BY <2>3, <2>7, <2>8, <2>9 DEF History
  <2> QED  BY <2>6 DEF h, e
<1>6. ASSUME NEW p \in Orders, p # o PROVE History(audit'[p], order'[p])
  BY <1>1, <1>6 DEF IInv, TypeOK, HistoryIsComplete
<1>7. History(audit'[o], order'[o])
  BY <1>1, <1>5 DEF IInv, TypeOK
<1>8. ASSUME NEW p \in Orders, NEW i \in 1..order'[p].version
      PROVE  \E k \in Keys : \A j \in Keys : MadeBy(p, i, j)' <=> j = k
  <2>1. r.key \in Keys /\ command'[r.key].order = o /\ command'[r.key].version = n + 1
    BY <1>1, RequestTypes DEF IInv, TypeOK
  <2>2. \A j \in Keys : j # r.key => command'[j] = command[j]
    BY <1>1, RequestTypes DEF IInv, TypeOK
  <2>a. order[p].version \in Nat /\ order'[p].version \in Nat
    BY <1>1 DEF IInv, TypeOK, OrderRow
  <2>3. CASE p = o /\ i = n + 1
    <3>1. \A j \in Keys : j # r.key => ~MadeBy(p, i, j)
      <4>1. ASSUME NEW j \in Keys, MadeBy(p, i, j) PROVE FALSE
        BY <1>2, <2>3, <4>1 DEF IInv, CommandsAgree, Recorded, MadeBy
      <4> QED  BY <4>1
    <3>2. \A j \in Keys : MadeBy(p, i, j)' <=> j = r.key
      BY <2>1, <2>2, <2>3, <3>1 DEF MadeBy
    <3> QED  BY <2>1, <3>2
  <2>4. CASE ~(p = o /\ i = n + 1)
    <3>1. i \in 1..order[p].version
      <4>1. CASE p = o
        BY <1>1, <1>2, <2>a, <2>4, <4>1 DEF IInv, TypeOK
      <4>2. CASE p # o
        BY <1>1, <4>2 DEF IInv, TypeOK
      <4> QED  BY <4>1, <4>2
    <3>2. PICK k \in Keys : \A j \in Keys : MadeBy(p, i, j) <=> j = k
      BY <3>1 DEF IInv, HistoryIsComplete
    <3>3. ~MadeBy(p, i, r.key)
      BY <2>a, <3>1, RequestTypes DEF MadeBy, Recorded
    <3>4. ~MadeBy(p, i, r.key)'
      BY <2>1, <2>4 DEF MadeBy
    <3>5. \A j \in Keys : MadeBy(p, i, j)' <=> j = k
      BY <2>1, <2>2, <3>2, <3>3, <3>4 DEF MadeBy
    <3> QED  BY <3>5
  <2> QED  BY <2>3, <2>4
<1> QED  BY <1>6, <1>7, <1>8 DEF HistoryIsComplete
(* What saving an order makes of the rows. *)
LEMMA OrderSaved ==
    ASSUME IInv, NEW r \in Requests, NEW o \in Orders, NEW row \in OrderRow,
           ~Recorded(r.key), SaveOrder(r, o, row),
           row.status \in OrderStatuses, row.version = order[o].version + 1
    PROVE  /\ order' \in [Orders -> OrderRow]
           /\ command' \in [Keys -> [by: Contents, order: Orders \cup {"NONE"}, version: Nat]]
           /\ audit' \in [Orders -> Seq(AuditRow)]
           /\ \A p \in Orders : order'[p] = IF p = o THEN row ELSE order[p]
           /\ command'[r.key].by = Content(r)
           /\ \A k \in Keys : k # r.key => command'[k] = command[k]
           /\ CommandsAgree'
<1>1. order[o] \in OrderRow /\ r.key \in Keys /\ row.version \in Nat
  BY RequestTypes DEF IInv, TypeOK, OrderRow
<1>2. \A p \in Orders : order'[p] = IF p = o THEN row ELSE order[p]
  BY DEF SaveOrder, IInv, TypeOK
<1>3. \A k \in Keys : k # r.key => command'[k] = command[k]
  BY DEF SaveOrder, IInv, TypeOK
<1>4. command'[r.key] = [by |-> Content(r), order |-> o, version |-> row.version]
  BY <1>1 DEF SaveOrder, IInv, TypeOK
<1>5. CommandsAgree'
  <2>1. ASSUME NEW k \in Keys, k # r.key, Recorded(k)
        PROVE  /\ command'[k].order \in Orders /\ command'[k].version > 0
               /\ command'[k].version <= order'[command'[k].order].version
    <3>1. /\ command[k].order \in Orders /\ command[k].version \in Nat
          /\ order[command[k].order].version \in Nat
          /\ command[k].version <= order[command[k].order].version
      BY <2>1 DEF IInv, CommandsAgree, TypeOK, OrderRow
    <3>2. order[o].version \in Nat
      BY <1>1 DEF OrderRow
    <3> QED  BY <1>2, <1>3, <2>1, <3>1, <3>2 DEF Recorded
  <2>2. command'[r.key].order \in Orders /\ command'[r.key].version > 0
        /\ command'[r.key].version <= order'[command'[r.key].order].version
    BY <1>1, <1>2, <1>4 DEF OrderRow
  <2>3. ASSUME NEW k \in Keys, k # r.key, ~Recorded(k)
        PROVE  ~Recorded(k)' /\ command'[k].by = << >>
    BY <1>3, <2>3 DEF IInv, CommandsAgree, Recorded
  <2>4. \A k \in Keys : k # r.key /\ Recorded(k) => Recorded(k)'
    BY <1>3 DEF Recorded
  <2>5. Recorded(r.key)'
    BY <2>2 DEF Recorded
  <2> QED  BY <2>1, <2>2, <2>3, <2>4, <2>5 DEF CommandsAgree
<1>6. order' \in [Orders -> OrderRow]
  BY DEF SaveOrder, IInv, TypeOK
<1>7. command' \in [Keys -> [by: Contents, order: Orders \cup {"NONE"}, version: Nat]]
  BY <1>1, RequestTypes DEF SaveOrder, IInv, TypeOK
<1>8. audit' \in [Orders -> Seq(AuditRow)]
  <2> DEFINE e == [from |-> order[o].status, to |-> row.status, version |-> row.version]
  <2>1. e \in AuditRow /\ audit[o] \in Seq(AuditRow)
    BY <1>1 DEF IInv, TypeOK, OrderRow, AuditRow
  <2>2. audit' = [audit EXCEPT ![o] = Append(audit[o], e)]
    BY DEF SaveOrder
  <2> HIDE DEF e
  <2>3. Append(audit[o], e) \in Seq(AuditRow)
    BY <2>1, AppendProperties
  <2> QED  BY <2>2, <2>3 DEF IInv, TypeOK
<1> QED  BY <1>2, <1>3, <1>4, <1>5, <1>6, <1>7, <1>8

LEMMA Answers ==
    ASSUME IInv, NEW c \in Clients, Answer(c)
    PROVE  /\ pc' \in [Clients -> {"idle", "replay", "order", "source", "draft", "commit", "resolve"}]
           /\ req' = req /\ seenOrder' \in [Clients -> OrderRow]
           /\ seenDraft' \in [Clients -> DraftRow] /\ answered' \in [Clients -> BOOLEAN]
           /\ pc'[c] = "idle"
           /\ \A d \in Clients \ {c} : /\ pc'[d] = pc[d] /\ req'[d] = req[d]
                                       /\ seenOrder'[d] = seenOrder[d] /\ answered'[d] = answered[d]
<1>1. NoOrder \in OrderRow /\ NoDraft \in DraftRow
  BY DEF NoOrder, NoDraft, OrderRow, DraftRow
<1> QED  BY <1>1 DEF IInv, TypeOK, Answer, Leave
(* The invariant of the requests after a transaction that answers. *)
LEMMA RequestsAfter ==
    ASSUME IInv, TypeOK', NEW c \in Clients, Answer(c), req[c] \in Requests, Grows, OnRecord(c)'
    PROVE  AtWork' /\ SeenIsPast' /\ OkIsCommitted'
<1>1. Answer(c) /\ req'[c] = req[c]
  BY DEF Answer
<1> QED  BY <1>1, Answers, OthersKept

LEMMA CreateOrderIInv ==
    ASSUME IInv, NEW c \in Clients, CreateOrder(c)
    PROVE  IInv'
<1> DEFINE r == req[c]  o == req[c].order
           row == [NoOrder EXCEPT !.status = "Draft", !.version = 1, !.source = r.source]
<1>1. /\ r \in Requests /\ r.op = "create" /\ r.source \in Sources /\ o \in Orders /\ r.key \in Keys
      /\ ~Recorded(r.key) /\ SourceFree(r.source) /\ ~OrderExists(o)
      /\ SaveOrder(r, o, row) /\ Answer(c)
      /\ UNCHANGED <<sources, matters>>
  BY RequestTypes DEF IInv, AtWork, CreateOrder
<1>2. /\ order[o] = NoOrder /\ order[o].version = 0
  BY <1>1 DEF OrderExists, IInv, TypeOK, OrderRow, RowsAgree
<1>3. /\ row \in OrderRow /\ row.status = "Draft" /\ row.version = 1 /\ row.source = r.source
      /\ row.matter = "NONE"
  BY <1>1 DEF NoOrder, OrderRow, OrderStatuses
<1> HIDE DEF row
<1>4. HistoryIsComplete'
  BY <1>1, <1>2, <1>3, HistoryGrows DEF OrderStatuses
<1>5. /\ order' \in [Orders -> OrderRow]
      /\ command' \in [Keys -> [by: Contents, order: Orders \cup {"NONE"}, version: Nat]]
      /\ audit' \in [Orders -> Seq(AuditRow)]
      /\ \A p \in Orders : order'[p] = IF p = o THEN row ELSE order[p]
      /\ command'[r.key].by = Content(r)
      /\ \A k \in Keys : k # r.key => command'[k] = command[k]
      /\ CommandsAgree'
  BY <1>1, <1>2, <1>3, OrderSaved DEF OrderStatuses
<1>6. TypeOK'
  BY <1>1, <1>5, Answers DEF IInv, TypeOK, sources, matters
<1>7. RowsAgree'
  <2>1. \A p \in Orders : order[p].source # r.source
    BY <1>1 DEF SourceFree
  <2>2. \A p \in Orders : /\ order'[p].version = 0 => order'[p] = NoOrder
                          /\ order'[p].version > 0 =>
                                order'[p].source # "NONE" /\ order'[p].status # "NONE"
                          /\ order'[p].status \in Prepared => order'[p].matter = "NONE"
    <3>1. ASSUME NEW p \in Orders, p # o PROVE order'[p] = order[p]
      BY <1>5, <3>1
    <3>2. order'[o] = row
      BY <1>1, <1>5
    <3>3. r.source # "NONE" /\ row.version = 1 /\ row.status # "NONE" /\ row.matter = "NONE"
          /\ row.source # "NONE"
      BY <1>1, <1>3
    <3> QED  BY <3>1, <3>2, <3>3 DEF IInv, RowsAgree
  <2>3. OneOrderForSource'
    <3>1. \A p \in Orders : order'[p].source = IF p = o THEN r.source ELSE order[p].source
      BY <1>3, <1>5
    <3>2. OneOrderForSource
      BY DEF IInv, RowsAgree
    <3> QED  BY <2>1, <3>1, <3>2 DEF OneOrderForSource
  <2> QED  BY <1>1, <2>2, <2>3 DEF IInv, RowsAgree, matters, MatterRecorded
<1>8. Grows
  BY <1>1, <1>2, <1>3, <1>5 DEF Grows, matters
<1>9. AtWork' /\ SeenIsPast' /\ OkIsCommitted'
  BY <1>1, <1>5, <1>6, <1>8, RequestsAfter DEF OnRecord, Answer
<1>10. LineageAgrees'
  BY <1>1, <1>3, <1>5 DEF IInv, LineageAgrees, matters
<1>11. NoOrphanMatter'
  <2>1. ASSUME NEW k \in Keys, NEW q \in Requests, MatterRecorded(k), matterCommand[k].by = Content(q),
               q.op = "convert"
        PROVE  order'[q.order].matter = matterCommand[k].matter
    <3>1. order[q.order].matter = matterCommand[k].matter /\ q.order \in Orders
      BY <2>1, RequestTypes DEF IInv, NoOrphanMatter
    <3>2. q.order # o
      BY <1>2, <2>1, <3>1 DEF NoOrder, MatterRecorded
    <3> QED  BY <1>5, <3>1, <3>2
  <2> QED  BY <1>1, <2>1 DEF NoOrphanMatter, matters, MatterRecorded
<1> QED  BY <1>4, <1>5, <1>6, <1>7, <1>9, <1>10, <1>11 DEF IInv

(* A row an order is moved to keeps the order's source and matter. *)
LEMMA MoveOrderIInv ==
    ASSUME IInv, NEW c \in Clients, MoveOrder(c)
    PROVE  IInv'
<1> DEFINE r == req[c]  o == req[c].order
           row == [seenOrder[c] EXCEPT !.status = Target(r.op), !.version = seenOrder[c].version + 1]
<1>1. /\ pc[c] = "commit" /\ r \in Requests /\ r.op \in Stages /\ o \in Orders /\ r.key \in Keys
      /\ ~Recorded(r.key) /\ VersionHolds(o, r.expected)
      /\ SaveOrder(r, o, row) /\ Answer(c)
      /\ UNCHANGED <<sources, matters>>
  BY RequestTypes DEF IInv, AtWork, MoveOrder
<1>2. /\ seenOrder[c] = order[o] /\ order[o].version > 0
      /\ CanTransitionOrder(order[o].status, Target(r.op))
  BY <1>1 DEF IInv, SeenIsPast, Past, VersionHolds
<1>3. order[o] \in OrderRow /\ Target(r.op) \in OrderStatuses
  BY <1>1 DEF IInv, TypeOK, Target, OrderStatuses
<1>4. /\ row \in OrderRow /\ row.status = Target(r.op) /\ row.version = order[o].version + 1
      /\ row.source = order[o].source /\ row.matter = order[o].matter
  <2>1. order[o].version + 1 \in Nat
    BY <1>3 DEF OrderRow
  <2>2. row = [order[o] EXCEPT !.status = Target(r.op), !.version = order[o].version + 1]
    BY <1>2
  <2> DEFINE x == order[o]  t == Target(r.op)  v == order[o].version + 1
             y == [x EXCEPT !.status = t, !.version = v]
  <2> HIDE DEF x, t, v
  <2>3. x \in OrderRow /\ t \in OrderStatuses /\ v \in Nat
    BY <1>3, <2>1 DEF x, t, v
  <2>4. /\ y \in OrderRow /\ y.status = t /\ y.version = v
        /\ y.source = x.source /\ y.matter = x.matter
    BY <2>3 DEF OrderRow
  <2> QED  BY <2>2, <2>4 DEF x, t, v
<1> HIDE DEF row
<1>5. HistoryIsComplete'
  BY <1>1, <1>2, <1>3, <1>4, HistoryGrows
<1>6. /\ order' \in [Orders -> OrderRow]
      /\ command' \in [Keys -> [by: Contents, order: Orders \cup {"NONE"}, version: Nat]]
      /\ audit' \in [Orders -> Seq(AuditRow)]
      /\ \A p \in Orders : order'[p] = IF p = o THEN row ELSE order[p]
      /\ command'[r.key].by = Content(r)
      /\ \A k \in Keys : k # r.key => command'[k] = command[k]
      /\ CommandsAgree'
  BY <1>1, <1>3, <1>4, OrderSaved
<1>7. TypeOK'
  BY <1>1, <1>6, Answers DEF IInv, TypeOK, sources, matters
<1>8. row.status \in Prepared => order[o].status \in Prepared
  BY <1>1, <1>2, <1>4 DEF Target, Stages, CanTransitionOrder, Prepared
<1>9. RowsAgree'
  <2>1. order[o].version \in Nat /\ order[o].source # "NONE" /\ row.status # "NONE"
    BY <1>1, <1>2, <1>3, <1>4 DEF IInv, RowsAgree, OrderRow, OrderStatuses
  <2>2. row.status \in Prepared => row.matter = "NONE"
    BY <1>1, <1>4, <1>8 DEF IInv, RowsAgree
  <2>3. \A p \in Orders : order'[p].source = order[p].source
    BY <1>4, <1>6
  <2>4. \A p \in Orders : /\ order'[p].version = 0 => order'[p] = NoOrder
                          /\ order'[p].version > 0 =>
                                order'[p].source # "NONE" /\ order'[p].status # "NONE"
                          /\ order'[p].status \in Prepared => order'[p].matter = "NONE"
    <3>1. ASSUME NEW p \in Orders, p # o PROVE order'[p] = order[p]
      BY <1>6, <3>1
    <3>2. order'[o] = row /\ row.version # 0 /\ row.source # "NONE"
      BY <1>1, <1>4, <1>6, <2>1
    <3> QED  BY <2>1, <2>2, <3>1, <3>2 DEF IInv, RowsAgree
  <2> QED  BY <1>1, <2>3, <2>4 DEF IInv, RowsAgree, OneOrderForSource, matters, MatterRecorded
<1>10. Grows
  BY <1>1, <1>3, <1>4, <1>6 DEF Grows, matters, OrderRow
<1>11. AtWork' /\ SeenIsPast' /\ OkIsCommitted'
  BY <1>1, <1>6, <1>7, <1>10, RequestsAfter DEF OnRecord, Answer, Stages
<1>12. \A p \in Orders : order'[p].matter = order[p].matter /\ order'[p].source = order[p].source
  BY <1>4, <1>6
<1>13. LineageAgrees'
  BY <1>1, <1>12 DEF IInv, LineageAgrees, matters
<1>14. NoOrphanMatter'
  BY <1>1, <1>12, RequestTypes DEF IInv, NoOrphanMatter, matters, MatterRecorded
<1> QED  BY <1>5, <1>6, <1>7, <1>9, <1>11, <1>13, <1>14 DEF IInv
-----------------------------------------------------------------------------
(* Matters. *)

LEMMA MatterSaved ==
    ASSUME IInv, NEW r \in Requests, NEW s \in Sources, NEW d \in DraftRow,
           ~MatterRecorded(r.key), ~MatterExists(r.matter), SaveMatter(r, s, d)
    PROVE  /\ matter' \in [Matters -> MatterRow]
           /\ matterCommand' \in [Keys -> [by: Contents, matter: Matters \cup {"NONE"}]]
           /\ matter'[r.matter].source = s
           /\ \A m \in Matters : MatterExists(m) => matter'[m] = matter[m]
           /\ matterCommand'[r.key] = [by |-> Content(r), matter |-> r.matter]
           /\ \A k \in Keys : k # r.key => matterCommand'[k] = matterCommand[k]
<1> DEFINE row == [source |-> s, draftVersion |-> d.version, filled |-> d.filled, scope |-> d.scope]
<1>1. r.key \in Keys /\ r.matter \in Matters /\ r.matter # "NONE" /\ Content(r) \in Contents /\ s # "NONE"
  BY RequestTypes
<1>2. row \in MatterRow /\ row.source = s
  BY DEF MatterRow, DraftRow
<1>3. matter' = [matter EXCEPT ![r.matter] = row]
      /\ matterCommand' = [matterCommand EXCEPT ![r.key] = [by |-> Content(r), matter |-> r.matter]]
  BY DEF SaveMatter
<1> HIDE DEF row
<1>4. matter' \in [Matters -> MatterRow] /\ matter'[r.matter] = row
      /\ \A m \in Matters : m # r.matter => matter'[m] = matter[m]
  BY <1>1, <1>2, <1>3 DEF IInv, TypeOK
<1>5. /\ matterCommand' \in [Keys -> [by: Contents, matter: Matters \cup {"NONE"}]]
      /\ matterCommand'[r.key] = [by |-> Content(r), matter |-> r.matter]
      /\ \A k \in Keys : k # r.key => matterCommand'[k] = matterCommand[k]
  BY <1>1, <1>3 DEF IInv, TypeOK
<1> QED  BY <1>1, <1>2, <1>4, <1>5 DEF MatterExists, MatterRecorded

(* A matter that is new is no order's. *)
LEMMA NewMatterIsFree ==
    ASSUME IInv, NEW m \in Matters, ~MatterExists(m), NEW o \in Orders
    PROVE  order[o].matter # m
<1>1. SUFFICES ASSUME order[o].matter = m PROVE FALSE
  OBVIOUS
<1>2. order[o].matter # "NONE" /\ order[o] \in OrderRow
  BY <1>1 DEF IInv, TypeOK
<1>3. order[o].source = "NONE"
  BY <1>1, <1>2 DEF IInv, LineageAgrees, MatterExists
<1>4. order[o].version = 0
  BY <1>2, <1>3 DEF IInv, RowsAgree, OrderRow
<1> QED  BY <1>2, <1>4 DEF IInv, RowsAgree, NoOrder

LEMMA OpenMatterIInv ==
    ASSUME IInv, NEW c \in Clients, OpenMatter(c)
    PROVE  IInv'
<1> DEFINE r == req[c]
<1>1. /\ r \in Requests /\ r.op = "open_matter" /\ r.source \in Sources /\ r.key \in Keys /\ r.matter \in Matters
      /\ ~MatterRecorded(r.key) /\ ~MatterExists(r.matter)
      /\ SaveMatter(r, r.source, seenDraft[c]) /\ seenDraft[c] \in DraftRow /\ Answer(c)
      /\ UNCHANGED <<sources, orders>>
  BY RequestTypes DEF IInv, AtWork, OpenMatter, TypeOK
<1>2. /\ matter' \in [Matters -> MatterRow]
      /\ matterCommand' \in [Keys -> [by: Contents, matter: Matters \cup {"NONE"}]]
      /\ \A n \in Matters : MatterExists(n) => matter'[n] = matter[n]
      /\ matterCommand'[r.key] = [by |-> Content(r), matter |-> r.matter]
      /\ \A k \in Keys : k # r.key => matterCommand'[k] = matterCommand[k]
  BY <1>1, MatterSaved
<1>3. TypeOK'
  BY <1>1, <1>2, Answers DEF IInv, TypeOK, sources, orders
<1>4. Grows
  BY <1>1, <1>2 DEF Grows, orders
<1>5. AtWork' /\ SeenIsPast' /\ OkIsCommitted'
  <2>1. OnRecord(c)'
    BY <1>1, <1>2 DEF OnRecord, Answer
  <2> QED  BY <1>1, <1>3, <1>4, <2>1, RequestsAfter
<1>6. RowsAgree'
  BY <1>1, <1>2 DEF IInv, RowsAgree, OneOrderForSource, orders, MatterRecorded
<1>7. LineageAgrees'
  <2>1. ASSUME NEW o \in Orders, order[o].matter # "NONE"
        PROVE  matter'[order[o].matter].source = order[o].source
    <3>1. order[o].matter \in Matters
      BY <2>1 DEF IInv, TypeOK, OrderRow
    <3>2. MatterExists(order[o].matter)
      BY <3>1, NewMatterIsFree
    <3> QED  BY <1>2, <2>1, <3>1, <3>2 DEF IInv, LineageAgrees
  <2> QED  BY <1>1, <2>1 DEF LineageAgrees, orders
<1>8. NoOrphanMatter'
  <2>1. ASSUME NEW k \in Keys, NEW q \in Requests, MatterRecorded(k)', matterCommand'[k].by = Content(q),
               q.op = "convert"
        PROVE  order[q.order].matter = matterCommand'[k].matter
    <3>1. k # r.key
      BY <1>1, <1>2, <2>1, ContentTellsOrder
    <3>2. matterCommand'[k] = matterCommand[k] /\ MatterRecorded(k)
      BY <1>2, <2>1, <3>1 DEF MatterRecorded
    <3> QED  BY <2>1, <3>2 DEF IInv, NoOrphanMatter
  <2> QED  BY <1>1, <2>1 DEF NoOrphanMatter, orders
<1>9. CommandsAgree' /\ HistoryIsComplete'
  BY <1>1 DEF IInv, CommandsAgree, HistoryIsComplete, MadeBy, orders, Recorded
<1> QED  BY <1>3, <1>5, <1>6, <1>7, <1>8, <1>9 DEF IInv
-----------------------------------------------------------------------------
(* Linking: what it makes of the order, wherever the matter comes from. *)

OrdersTyped ==
    /\ order \in [Orders -> OrderRow]
    /\ command \in [Keys -> [by: Contents, order: Orders \cup {"NONE"}, version: Nat]]
    /\ audit \in [Orders -> Seq(AuditRow)]

RowsFilled ==
    \A o \in Orders : /\ order[o].version = 0 => order[o] = NoOrder
                      /\ order[o].version > 0 =>
                            order[o].source # "NONE" /\ order[o].status # "NONE"
                      /\ order[o].status \in Prepared => order[o].matter = "NONE"

LEMMA LinkedRow ==
    ASSUME IInv, NEW r \in Requests, ReadyOrder(r), NEW m \in Matters
    PROVE  /\ r.order \in Orders /\ order[r.order].version \in Nat /\ order[r.order].version > 0
           /\ order[r.order].status = "ReadyForMatter"
           /\ order[r.order].matter = "NONE" /\ order[r.order].source # "NONE"
           /\ Linked(r.order, m) \in OrderRow
           /\ Linked(r.order, m).status = "MatterCreated" /\ Linked(r.order, m).matter = m
           /\ Linked(r.order, m).version = order[r.order].version + 1
           /\ Linked(r.order, m).source = order[r.order].source
<1> DEFINE x == order[r.order]  v == order[r.order].version + 1
           y == [x EXCEPT !.status = "MatterCreated", !.version = v, !.matter = m]
<1>1. r.order \in Orders
  BY RequestTypes
<1>2. x \in OrderRow /\ x.version \in Nat /\ x.version > 0
  BY <1>1 DEF IInv, TypeOK, OrderRow, ReadyOrder, OrderExists
<1>3. x.status = "ReadyForMatter"
  BY DEF ReadyOrder, CanTransitionOrder
<1>4. x.matter = "NONE" /\ x.source # "NONE"
  BY <1>1, <1>2, <1>3 DEF IInv, RowsAgree, Prepared
<1>5. Linked(r.order, m) = y
  BY DEF Linked
<1>6. v \in Nat
  BY <1>2
<1> HIDE DEF v
<1>7. /\ y \in OrderRow /\ y.status = "MatterCreated" /\ y.version = v
      /\ y.source = x.source /\ y.matter = m
  <2> HIDE DEF x
  <2> QED  BY <1>2, <1>6 DEF OrderRow, OrderStatuses
<1> HIDE DEF x, y
<1> QED  BY <1>1, <1>2, <1>3, <1>4, <1>5, <1>7 DEF x, v

LEMMA OrderLinked ==
    ASSUME IInv, NEW r \in Requests, ReadyOrder(r), ~Recorded(r.key), NEW m \in Matters,
           SaveOrder(r, r.order, Linked(r.order, m))
    PROVE  /\ \A p \in Orders \ {r.order} : order'[p] = order[p]
           /\ order'[r.order] = Linked(r.order, m)
           /\ order' \in [Orders -> OrderRow]
           /\ command' \in [Keys -> [by: Contents, order: Orders \cup {"NONE"}, version: Nat]]
           /\ audit' \in [Orders -> Seq(AuditRow)]
           /\ command'[r.key].by = Content(r)
           /\ \A k \in Keys : k # r.key => command'[k] = command[k]
           /\ CommandsAgree'
<1> DEFINE o == r.order
           row == Linked(o, m)
<1>1. o \in Orders /\ r.key \in Keys
  BY RequestTypes
<1>2. row \in OrderRow /\ row.version = order[o].version + 1
  BY LinkedRow
<1>3. row.status \in OrderStatuses
  BY LinkedRow DEF OrderStatuses
<1> HIDE DEF row
<1>4. SaveOrder(r, o, row)
  BY DEF row
<1>5. /\ order' \in [Orders -> OrderRow]
      /\ command' \in [Keys -> [by: Contents, order: Orders \cup {"NONE"}, version: Nat]]
      /\ audit' \in [Orders -> Seq(AuditRow)]
      /\ \A p \in Orders : order'[p] = IF p = o THEN row ELSE order[p]
      /\ command'[r.key].by = Content(r)
      /\ \A k \in Keys : k # r.key => command'[k] = command[k]
      /\ CommandsAgree'
  BY <1>1, <1>2, <1>3, <1>4, OrderSaved
<1>6. (\A p \in Orders \ {o} : order'[p] = order[p]) /\ order'[o] = row
  BY <1>1, <1>5
<1> QED  BY <1>5, <1>6 DEF row

(* The rows stay as they should be: blank or filled, and one for a source. *)
LEMMA RowsLinked ==
    ASSUME IInv, NEW r \in Requests, ReadyOrder(r), ~Recorded(r.key), NEW m \in Matters,
           SaveOrder(r, r.order, Linked(r.order, m))
    PROVE  /\ HistoryIsComplete' /\ OneOrderForSource'
           /\ \A p \in Orders : /\ order'[p].version = 0 => order'[p] = NoOrder
                                /\ order'[p].version > 0 =>
                                      order'[p].source # "NONE" /\ order'[p].status # "NONE"
                                /\ order'[p].status \in Prepared => order'[p].matter = "NONE"
<1> DEFINE o == r.order
           row == Linked(o, m)
<1>1. /\ o \in Orders /\ row \in OrderRow /\ row.version = order[o].version + 1
      /\ row.version # 0 /\ row.source = order[o].source /\ row.source # "NONE"
      /\ row.status = "MatterCreated"
  BY LinkedRow
<1>2. CanTransitionOrder(order[o].status, row.status)
  BY <1>1 DEF ReadyOrder
<1>3. (\A p \in Orders \ {o} : order'[p] = order[p]) /\ order'[o] = row
  BY OrderLinked
<1> HIDE DEF row
<1>4. SaveOrder(r, o, row)
  BY DEF row
<1>5. HistoryIsComplete'
  BY <1>1, <1>2, <1>4, HistoryGrows DEF OrderStatuses
<1>6. OneOrderForSource'
  <2>1. \A p \in Orders : order'[p].source = order[p].source
    BY <1>1, <1>3
  <2> QED  BY <2>1 DEF IInv, RowsAgree, OneOrderForSource
<1>7. ASSUME NEW p \in Orders
      PROVE  /\ order'[p].version = 0 => order'[p] = NoOrder
             /\ order'[p].version > 0 => order'[p].source # "NONE" /\ order'[p].status # "NONE"
             /\ order'[p].status \in Prepared => order'[p].matter = "NONE"
  <2>1. CASE p = o
    BY <1>1, <1>3, <2>1 DEF Prepared
  <2>2. CASE p # o
    <3>1. order'[p] = order[p]
      BY <1>3, <2>2
    <3> QED  BY <3>1 DEF IInv, RowsAgree
  <2> QED  BY <2>1, <2>2
<1> QED  BY <1>5, <1>6, <1>7

(* A conversion on record has another order than the one being linked. *)
LEMMA OrphansKept ==
    ASSUME IInv, NEW k \in Keys, NEW q \in Requests, NEW o \in Orders, order[o].matter = "NONE",
           \A p \in Orders \ {o} : order'[p] = order[p],
           MatterRecorded(k), matterCommand[k].by = Content(q), q.op = "convert"
    PROVE  order'[q.order].matter = matterCommand[k].matter
<1>1. order[q.order].matter = matterCommand[k].matter /\ q.order \in Orders
  BY RequestTypes DEF IInv, NoOrphanMatter
<1>2. q.order # o
  BY <1>1 DEF MatterRecorded
<1> QED  BY <1>1, <1>2

LEMMA LinkMatterIInv ==
    ASSUME IInv, NEW c \in Clients, LinkMatter(c)
    PROVE  IInv'
<1> DEFINE r == req[c]
<1>1. /\ r \in Requests /\ r.op = "link" /\ r.order \in Orders /\ r.key \in Keys /\ r.matter \in Matters
      /\ ~Recorded(r.key) /\ ReadyOrder(r) /\ SameLineage(r.order, r.matter)
      /\ SaveOrder(r, r.order, Linked(r.order, r.matter)) /\ Answer(c)
      /\ UNCHANGED <<sources, matters>>
  BY RequestTypes DEF IInv, AtWork, LinkMatter
<1>2. /\ order[r.order].matter = "NONE"
      /\ order' \in [Orders -> OrderRow]
      /\ command' \in [Keys -> [by: Contents, order: Orders \cup {"NONE"}, version: Nat]]
      /\ audit' \in [Orders -> Seq(AuditRow)]
      /\ \A p \in Orders \ {r.order} : order'[p] = order[p]
      /\ order'[r.order].matter = r.matter
      /\ order'[r.order].source = order[r.order].source
      /\ order'[r.order].version > order[r.order].version
      /\ command'[r.key].by = Content(r)
      /\ \A k \in Keys : k # r.key => command'[k] = command[k]
      /\ CommandsAgree' /\ HistoryIsComplete' /\ OneOrderForSource'
      /\ \A p \in Orders : /\ order'[p].version = 0 => order'[p] = NoOrder
                           /\ order'[p].version > 0 =>
                                 order'[p].source # "NONE" /\ order'[p].status # "NONE"
                           /\ order'[p].status \in Prepared => order'[p].matter = "NONE"
  <2>1. /\ order[r.order].matter = "NONE" /\ order[r.order].version \in Nat
        /\ Linked(r.order, r.matter).matter = r.matter
        /\ Linked(r.order, r.matter).source = order[r.order].source
        /\ Linked(r.order, r.matter).version = order[r.order].version + 1
    BY <1>1, LinkedRow
  <2>2. /\ \A p \in Orders \ {r.order} : order'[p] = order[p]
        /\ order'[r.order] = Linked(r.order, r.matter)
        /\ order' \in [Orders -> OrderRow]
        /\ command' \in [Keys -> [by: Contents, order: Orders \cup {"NONE"}, version: Nat]]
        /\ audit' \in [Orders -> Seq(AuditRow)]
        /\ command'[r.key].by = Content(r)
        /\ \A k \in Keys : k # r.key => command'[k] = command[k]
        /\ CommandsAgree'
    BY <1>1, OrderLinked
  <2>3. /\ HistoryIsComplete' /\ OneOrderForSource'
        /\ \A p \in Orders : /\ order'[p].version = 0 => order'[p] = NoOrder
                             /\ order'[p].version > 0 =>
                                   order'[p].source # "NONE" /\ order'[p].status # "NONE"
                             /\ order'[p].status \in Prepared => order'[p].matter = "NONE"
    BY <1>1, RowsLinked
  <2> QED  BY <2>1, <2>2, <2>3
<1>3. TypeOK'
  BY <1>1, <1>2, Answers DEF IInv, TypeOK, sources, matters
<1>4. Grows
  BY <1>1, <1>2 DEF Grows, matters
<1>5. AtWork' /\ SeenIsPast' /\ OkIsCommitted'
  <2>1. OnRecord(c)'
    BY <1>1, <1>2 DEF OnRecord, Answer
  <2> QED  BY <1>1, <1>3, <1>4, <2>1, RequestsAfter
<1>6. RowsAgree'
  BY <1>1, <1>2 DEF IInv, RowsAgree, matters, MatterRecorded
<1>7. LineageAgrees'
  <2>1. ASSUME NEW p \in Orders, order'[p].matter # "NONE"
        PROVE  matter[order'[p].matter].source = order'[p].source
    <3>1. CASE p = r.order
      BY <1>1, <1>2, <3>1 DEF SameLineage
    <3>2. CASE p # r.order
      BY <1>2, <2>1, <3>2 DEF IInv, LineageAgrees
    <3> QED  BY <3>1, <3>2
  <2> QED  BY <1>1, <2>1 DEF LineageAgrees, matters
<1>8. NoOrphanMatter'
  BY <1>1, <1>2, OrphansKept DEF NoOrphanMatter, matters, MatterRecorded
<1> QED  BY <1>2, <1>3, <1>5, <1>6, <1>7, <1>8 DEF IInv

LEMMA ConvertOrderIInv ==
    ASSUME IInv, NEW c \in Clients, ConvertOrder(c)
    PROVE  IInv'
<1> DEFINE r == req[c]
           s == order[r.order].source
<1>1. /\ r \in Requests /\ r.op = "convert" /\ r.order \in Orders /\ r.key \in Keys /\ r.matter \in Matters
      /\ ~Recorded(r.key) /\ ReadyOrder(r) /\ ~MatterRecorded(r.key) /\ ~MatterExists(r.matter)
      /\ SaveMatter(r, s, draft[s])
      /\ SaveOrder(r, r.order, Linked(r.order, r.matter)) /\ Answer(c)
      /\ UNCHANGED sources
  BY RequestTypes DEF IInv, AtWork, ConvertOrder
<1>2. s \in Sources /\ draft[s] \in DraftRow
  <2>1. order[r.order] \in OrderRow /\ order[r.order].source # "NONE"
    BY <1>1 DEF IInv, RowsAgree, ReadyOrder, OrderExists, TypeOK
  <2> QED  BY <2>1 DEF OrderRow, IInv, TypeOK
<1>3. /\ order[r.order].matter = "NONE"
      /\ order' \in [Orders -> OrderRow]
      /\ command' \in [Keys -> [by: Contents, order: Orders \cup {"NONE"}, version: Nat]]
      /\ audit' \in [Orders -> Seq(AuditRow)]
      /\ \A p \in Orders \ {r.order} : order'[p] = order[p]
      /\ order'[r.order].matter = r.matter
      /\ order'[r.order].source = order[r.order].source
      /\ order'[r.order].version > order[r.order].version
      /\ command'[r.key].by = Content(r)
      /\ \A k \in Keys : k # r.key => command'[k] = command[k]
      /\ CommandsAgree' /\ HistoryIsComplete' /\ OneOrderForSource'
      /\ \A p \in Orders : /\ order'[p].version = 0 => order'[p] = NoOrder
                           /\ order'[p].version > 0 =>
                                 order'[p].source # "NONE" /\ order'[p].status # "NONE"
                           /\ order'[p].status \in Prepared => order'[p].matter = "NONE"
  <2>1. /\ order[r.order].matter = "NONE" /\ order[r.order].version \in Nat
        /\ Linked(r.order, r.matter).matter = r.matter
        /\ Linked(r.order, r.matter).source = order[r.order].source
        /\ Linked(r.order, r.matter).version = order[r.order].version + 1
    BY <1>1, LinkedRow
  <2>2. /\ \A p \in Orders \ {r.order} : order'[p] = order[p]
        /\ order'[r.order] = Linked(r.order, r.matter)
        /\ order' \in [Orders -> OrderRow]
        /\ command' \in [Keys -> [by: Contents, order: Orders \cup {"NONE"}, version: Nat]]
        /\ audit' \in [Orders -> Seq(AuditRow)]
        /\ command'[r.key].by = Content(r)
        /\ \A k \in Keys : k # r.key => command'[k] = command[k]
        /\ CommandsAgree'
    BY <1>1, OrderLinked
  <2>3. /\ HistoryIsComplete' /\ OneOrderForSource'
        /\ \A p \in Orders : /\ order'[p].version = 0 => order'[p] = NoOrder
                             /\ order'[p].version > 0 =>
                                   order'[p].source # "NONE" /\ order'[p].status # "NONE"
                             /\ order'[p].status \in Prepared => order'[p].matter = "NONE"
    BY <1>1, RowsLinked
  <2> QED  BY <2>1, <2>2, <2>3
<1>4. /\ matter' \in [Matters -> MatterRow]
      /\ matterCommand' \in [Keys -> [by: Contents, matter: Matters \cup {"NONE"}]]
      /\ matter'[r.matter].source = s
      /\ \A n \in Matters : MatterExists(n) => matter'[n] = matter[n]
      /\ matterCommand'[r.key] = [by |-> Content(r), matter |-> r.matter]
      /\ \A k \in Keys : k # r.key => matterCommand'[k] = matterCommand[k]
  BY <1>1, <1>2, MatterSaved
<1>5. TypeOK'
  BY <1>1, <1>3, <1>4, Answers DEF IInv, TypeOK, sources
<1>6. Grows
  BY <1>1, <1>3, <1>4 DEF Grows
<1>7. AtWork' /\ SeenIsPast' /\ OkIsCommitted'
  <2>1. OnRecord(c)'
    BY <1>1, <1>3 DEF OnRecord, Answer
  <2> QED  BY <1>1, <1>5, <1>6, <2>1, RequestsAfter
<1>8. RowsAgree'
  <2>1. \A k \in Keys : matterCommand'[k].matter = "NONE" => matterCommand'[k].by = << >>
    <3>1. ASSUME NEW k \in Keys, matterCommand'[k].matter = "NONE" PROVE matterCommand'[k].by = << >>
      <4>1. k # r.key
        BY <1>1, <1>4, <3>1
      <4> QED  BY <1>4, <3>1, <4>1 DEF IInv, RowsAgree, MatterRecorded
    <3> QED  BY <3>1
  <2> QED  BY <1>3, <2>1 DEF RowsAgree, MatterRecorded
<1>9. LineageAgrees'
  <2>1. ASSUME NEW p \in Orders, order'[p].matter # "NONE"
        PROVE  matter'[order'[p].matter].source = order'[p].source
    <3>1. CASE p = r.order
      BY <1>3, <1>4, <3>1
    <3>2. CASE p # r.order
      <4>1. order'[p] = order[p] /\ order[p].matter \in Matters
        BY <1>3, <2>1, <3>2 DEF IInv, TypeOK, OrderRow
      <4>2. MatterExists(order[p].matter)
        BY <4>1, NewMatterIsFree
      <4> QED  BY <1>4, <2>1, <4>1, <4>2 DEF IInv, LineageAgrees
    <3> QED  BY <3>1, <3>2
  <2> QED  BY <2>1 DEF LineageAgrees
<1>10. NoOrphanMatter'
  <2>1. ASSUME NEW k \in Keys, NEW q \in Requests, matterCommand'[k].matter # "NONE",
               matterCommand'[k].by = Content(q), q.op = "convert"
        PROVE  order'[q.order].matter = matterCommand'[k].matter
    <3>1. CASE k = r.key
      <4>1. Content(q) = Content(r)
        BY <1>4, <2>1, <3>1
      <4>2. q.order = r.order
        BY <1>1, <2>1, <4>1, ContentTellsOrder
      <4> QED  BY <1>3, <1>4, <3>1, <4>2
    <3>2. CASE k # r.key
      <4>1. matterCommand'[k] = matterCommand[k] /\ MatterRecorded(k)
        BY <1>4, <2>1, <3>2 DEF MatterRecorded
      <4>2. order'[q.order].matter = matterCommand[k].matter
        BY <1>1, <1>3, <2>1, <4>1, OrphansKept
      <4> QED  BY <4>1, <4>2
    <3> QED  BY <3>1, <3>2
  <2> QED  BY <2>1 DEF NoOrphanMatter, MatterRecorded
<1> QED  BY <1>3, <1>5, <1>7, <1>8, <1>9, <1>10 DEF IInv
-----------------------------------------------------------------------------
LEMMA NextIInv == IInv /\ [Next]_vars => IInv'
<1> SUFFICES ASSUME IInv, [Next]_vars PROVE IInv'
  OBVIOUS
<1>1. ASSUME NEW s \in Sources, ConfirmQuote(s) \/ Withdraw(s) PROVE IInv'
  BY <1>1, SourcesIInv
<1>2. ASSUME NEW c \in Clients, RequestStep(c) PROVE IInv'
  <2>1. CASE Reads(c)         BY <2>1, ReadsIInv
  <2>2. CASE CreateOrder(c)   BY <2>2, CreateOrderIInv
  <2>3. CASE MoveOrder(c)     BY <2>3, MoveOrderIInv
  <2>4. CASE OpenMatter(c)    BY <2>4, OpenMatterIInv
  <2>5. CASE ConvertOrder(c)  BY <2>5, ConvertOrderIInv
  <2>6. CASE LinkMatter(c)    BY <2>6, LinkMatterIInv
  <2> QED
    BY <1>2, <2>1, <2>2, <2>3, <2>4, <2>5, <2>6 DEF RequestStep, Reads
<1>3. CASE UNCHANGED vars
  BY <1>3
  DEF vars, sources, matters, orders, request, IInv, TypeOK, AtWork, RowsAgree, OneOrderForSource,
      CommandsAgree, SeenIsPast, Past, LineageAgrees, NoOrphanMatter, OkIsCommitted, OnRecord,
      HistoryIsComplete, MadeBy, Recorded, MatterRecorded
<1> QED  BY <1>1, <1>2, <1>3 DEF Next

(* The inductive invariant of orders and matters, types included.            *)
THEOREM Invariant == Spec => []IInv
  BY InitIInv, NextIInv, PTL DEF Spec

(* The audit of every order is its whole history, each entry the work of one *)
(* command, whatever requests race, repeat or fail (insertCommand,           *)
(* insertAudit, linkOrder).                                                  *)
THEOREM HistoryIsAlwaysComplete == Spec => []HistoryIsComplete
<1>1. IInv => HistoryIsComplete
  BY DEF IInv
<1> QED  BY <1>1, Invariant, PTL

(* An order's matter always has the order's own source, for any sources and  *)
(* any matters a client may name (validateMatterLineage).                    *)
THEOREM LineageAlwaysAgrees == Spec => []LineageAgrees
<1>1. IInv => LineageAgrees
  BY DEF IInv
<1> QED  BY <1>1, Invariant, PTL

(* A conversion never leaves a matter without its order                      *)
(* (createMatterFromOrder).                                                  *)
THEOREM NeverAnOrphanMatter == Spec => []NoOrphanMatter
<1>1. IInv => NoOrphanMatter
  BY DEF IInv
<1> QED  BY <1>1, Invariant, PTL

(* A result that a request was answered with is on record as its own         *)
(* (resolveReplay, resolveConcurrentResult).                                 *)
THEOREM ResultsAreCommitted == Spec => []OkIsCommitted
<1>1. IInv => OkIsCommitted
  BY DEF IInv
<1> QED  BY <1>1, Invariant, PTL
-----------------------------------------------------------------------------
(* The promise. *)

(* A step that keeps the order's row, or its source and matter, and moves    *)
(* its status as the promise allows.                                         *)
LEMMA BookOf ==
    ASSUME IInv, NEW o \in Orders
    PROVE  Book[o] = [status |-> order[o].status, source |-> order[o].source, matter |-> order[o].matter]
  BY DEF Book

LEMMA BookKept == ASSUME order' = order PROVE Book' = Book
  BY DEF Book

(* One row of the book is replaced when one order is saved. *)
LEMMA BookSaved ==
    ASSUME IInv, NEW r \in Requests, NEW o \in Orders, NEW row, SaveOrder(r, o, row)
    PROVE  Book' = [Book EXCEPT ![o] = [status |-> row.status, source |-> row.source,
                                        matter |-> row.matter]]
<1>1. \A p \in Orders : order'[p] = IF p = o THEN row ELSE order[p]
  BY DEF SaveOrder, IInv, TypeOK
<1> QED  BY <1>1 DEF Book

LEMMA InitPromise == Init => Promise!Init
  BY DEF Init, Promise!Init, Promise!NoEntry, Book, NoOrder

LEMMA CreateKeepsPromise ==
    ASSUME IInv, NEW c \in Clients, CreateOrder(c)
    PROVE  \E o \in Orders, s \in Sources : Promise!Open(o, s)
<1> DEFINE r == req[c]  o == req[c].order
           row == [NoOrder EXCEPT !.status = "Draft", !.version = 1, !.source = r.source]
<1>1. /\ r \in Requests /\ r.source \in Sources /\ o \in Orders
      /\ SourceFree(r.source) /\ ~OrderExists(o) /\ SaveOrder(r, o, row)
  BY RequestTypes DEF IInv, AtWork, CreateOrder
<1>2. order[o] = NoOrder
  BY <1>1 DEF OrderExists, IInv, TypeOK, OrderRow, RowsAgree
<1>3. row.status = "Draft" /\ row.source = r.source /\ row.matter = "NONE"
  BY DEF NoOrder
<1> HIDE DEF row
<1>4. Book' = [Book EXCEPT ![o] = [status |-> "Draft", source |-> r.source, matter |-> "NONE"]]
  BY <1>1, <1>3, BookSaved
<1>5. Book[o] = Promise!NoEntry
  BY <1>1, <1>2, BookOf DEF Promise!NoEntry, NoOrder
<1>6. \A p \in Orders : Book[p].source # r.source
  BY <1>1 DEF Book, SourceFree
<1>7. Promise!Open(o, r.source)
  BY <1>4, <1>5, <1>6 DEF Promise!Open
<1> QED  BY <1>1, <1>7

LEMMA MoveKeepsPromise ==
    ASSUME IInv, NEW c \in Clients, MoveOrder(c)
    PROVE  \E o \in Orders : Promise!Advance(o) \/ Promise!Cancel(o)
<1> DEFINE r == req[c]  o == req[c].order
           row == [seenOrder[c] EXCEPT !.status = Target(r.op), !.version = seenOrder[c].version + 1]
<1>1. /\ pc[c] = "commit" /\ r \in Requests /\ r.op \in Stages /\ o \in Orders
      /\ VersionHolds(o, r.expected) /\ SaveOrder(r, o, row)
  BY RequestTypes DEF IInv, AtWork, MoveOrder
<1>2. /\ seenOrder[c] = order[o] /\ order[o].version > 0
      /\ CanTransitionOrder(order[o].status, Target(r.op))
  BY <1>1 DEF IInv, SeenIsPast, Past, VersionHolds
<1>3. order[o] \in OrderRow /\ order[o].status # "NONE"
  BY <1>1, <1>2 DEF IInv, TypeOK, RowsAgree
<1>4. row.status = Target(r.op) /\ row.source = order[o].source /\ row.matter = order[o].matter
  BY <1>2, <1>3 DEF OrderRow
<1> HIDE DEF row
<1>5. Book' = [Book EXCEPT ![o] = [status |-> Target(r.op), source |-> order[o].source,
                                  matter |-> order[o].matter]]
  BY <1>1, <1>4, BookSaved
<1>6. /\ Book[o].status = order[o].status
      /\ Book'  = [Book EXCEPT ![o].status = Target(r.op)]
  <2> DEFINE t == Target(r.op)
             b == [status |-> order[o].status, source |-> order[o].source, matter |-> order[o].matter]
  <2>1. Book[o] = b
    BY <1>1, BookOf
  <2>2. b.status = order[o].status /\ [b EXCEPT !.status = t] =
            [status |-> t, source |-> order[o].source, matter |-> order[o].matter]
    OBVIOUS
  <2> HIDE DEF t, b
  <2>3. [Book EXCEPT ![o].status = t] = [Book EXCEPT ![o] = [b EXCEPT !.status = t]]
    BY <2>1
  <2>4. Book' = [Book EXCEPT ![o] = [status |-> t, source |-> order[o].source,
                                     matter |-> order[o].matter]]
    BY <1>5 DEF t
  <2> QED  BY <2>1, <2>2, <2>3, <2>4 DEF t
<1> HIDE DEF r, o
<1>7. CASE Target(r.op) = "Cancelled"
  <2>1. order[o].status # "Cancelled"
    BY <1>2, <1>7 DEF CanTransitionOrder
  <2>2. Book' = [Book EXCEPT ![o].status = "Cancelled"]
    BY <1>6, <1>7
  <2>3. Promise!Cancel(o)
    BY <1>3, <1>6, <2>1, <2>2 DEF Promise!Cancel
  <2> QED  BY <1>1, <2>3
<1>8. CASE Target(r.op) # "Cancelled"
  <2>1. \/ order[o].status = "Draft" /\ Target(r.op) = "PendingConfirmation"
        \/ order[o].status = "PendingConfirmation" /\ Target(r.op) = "Confirmed"
        \/ order[o].status = "Confirmed" /\ Target(r.op) = "ReadyForMatter"
    BY <1>1, <1>2, <1>8 DEF Target, Stages, CanTransitionOrder
  <2> DEFINE step == <<order[o].status, Target(r.op)>>
  <2>2. step \in { <<"Draft", "PendingConfirmation">>,
                   <<"PendingConfirmation", "Confirmed">>,
                   <<"Confirmed", "ReadyForMatter">> }
    BY <2>1
  <2>3. Book[o].status = step[1] /\ Book' = [Book EXCEPT ![o].status = step[2]]
    <3> DEFINE t == Target(r.op)
    <3>1. step[1] = order[o].status /\ step[2] = t
      OBVIOUS
    <3>2. Book' = [Book EXCEPT ![o].status = t]
      BY <1>6
    <3> HIDE DEF t, step
    <3> QED  BY <1>6, <3>1, <3>2
  <2> HIDE DEF step
  <2>4. Promise!Advance(o)
    BY <2>2, <2>3 DEF Promise!Advance
  <2> QED  BY <1>1, <2>4
<1> QED  BY <1>7, <1>8

LEMMA LinkKeepsPromise ==
    ASSUME IInv, NEW r \in Requests, ReadyOrder(r), ~Recorded(r.key),
           SaveOrder(r, r.order, Linked(r.order, r.matter)),
           \A p \in Orders : order[p].matter # r.matter
    PROVE  \E o \in Orders, m \in Matters : Promise!Link(o, m)
<1>1. r.order \in Orders /\ r.matter \in Matters
  BY RequestTypes
<1>2. /\ order[r.order].matter = "NONE" /\ order[r.order].status = "ReadyForMatter"
      /\ order'[r.order].status = "MatterCreated" /\ order'[r.order].matter = r.matter
      /\ order'[r.order].source = order[r.order].source
      /\ \A p \in Orders \ {r.order} : order'[p] = order[p]
  BY <1>1, LinkedRow, OrderLinked
<1>3. Book' = [Book EXCEPT ![r.order].status = "MatterCreated", ![r.order].matter = r.matter]
  BY <1>1, <1>2 DEF Book
<1>4. /\ Book[r.order].status = "ReadyForMatter" /\ Book[r.order].matter = "NONE"
      /\ \A p \in Orders : Book[p].matter # r.matter
  BY <1>1, <1>2 DEF Book
<1>5. Promise!Link(r.order, r.matter)
  BY <1>3, <1>4 DEF Promise!Link
<1> QED  BY <1>1, <1>5

LEMMA ConvertKeepsPromise ==
    ASSUME IInv, NEW c \in Clients, ConvertOrder(c)
    PROVE  \E o \in Orders, m \in Matters : Promise!Link(o, m)
<1>1. /\ req[c] \in Requests /\ req[c].matter \in Matters /\ ~MatterExists(req[c].matter)
      /\ ReadyOrder(req[c]) /\ ~Recorded(req[c].key)
      /\ SaveOrder(req[c], req[c].order, Linked(req[c].order, req[c].matter))
  BY RequestTypes DEF IInv, AtWork, ConvertOrder
<1>2. \A p \in Orders : order[p].matter # req[c].matter
  BY <1>1, NewMatterIsFree
<1> QED  BY <1>1, <1>2, LinkKeepsPromise

LEMMA LinkMatterKeepsPromise ==
    ASSUME IInv, NEW c \in Clients, LinkMatter(c)
    PROVE  \E o \in Orders, m \in Matters : Promise!Link(o, m)
<1> DEFINE r == req[c]
<1>1. /\ r \in Requests /\ r.order \in Orders /\ r.matter \in Matters
      /\ ReadyOrder(r) /\ ~Recorded(r.key) /\ SameLineage(r.order, r.matter)
      /\ SaveOrder(r, r.order, Linked(r.order, r.matter))
  BY RequestTypes DEF IInv, AtWork, LinkMatter
<1>2. ASSUME NEW p \in Orders, order[p].matter = r.matter PROVE FALSE
  <2>1. order[p].source = order[r.order].source
    BY <1>1, <1>2 DEF IInv, LineageAgrees, SameLineage
  <2>2. order[r.order].source # "NONE"
    BY <1>1 DEF SameLineage, MatterExists
  <2>3. p = r.order
    BY <1>1, <2>1, <2>2 DEF IInv, RowsAgree, OneOrderForSource
  <2>4. order[r.order].matter = "NONE"
    BY <1>1 DEF IInv, RowsAgree, ReadyOrder, CanTransitionOrder, Prepared
  <2> QED  BY <1>1, <1>2, <2>3, <2>4
<1> QED  BY <1>1, <1>2, LinkKeepsPromise

LEMMA NextPromise == IInv /\ [Next]_vars => [Promise!Next]_Book
<1> SUFFICES ASSUME IInv, [Next]_vars PROVE [Promise!Next]_Book
  OBVIOUS
<1>1. CASE \E s \in Sources : ConfirmQuote(s) \/ Withdraw(s)
  BY <1>1, BookKept DEF ConfirmQuote, Withdraw, orders
<1>2. ASSUME NEW c \in Clients, RequestStep(c) PROVE [Promise!Next]_Book
  <2>1. CASE Reads(c)         BY <2>1, ReadsKeepRows, BookKept DEF orders
  <2>2. CASE CreateOrder(c)   BY <2>2, CreateKeepsPromise DEF Promise!Next
  <2>3. CASE MoveOrder(c)     BY <2>3, MoveKeepsPromise DEF Promise!Next
  <2>4. CASE OpenMatter(c)    BY <2>4, BookKept DEF OpenMatter, orders
  <2>5. CASE ConvertOrder(c)  BY <2>5, ConvertKeepsPromise DEF Promise!Next
  <2>6. CASE LinkMatter(c)    BY <2>6, LinkMatterKeepsPromise DEF Promise!Next
  <2> QED
    BY <1>2, <2>1, <2>2, <2>3, <2>4, <2>5, <2>6 DEF RequestStep, Reads
<1>3. CASE UNCHANGED vars
  BY <1>3, BookKept DEF vars, orders
<1> QED  BY <1>1, <1>2, <1>3 DEF Next

(* Orders and matters implement OrderPromise: one order for a source, linked *)
(* once, to a matter no other order has.                                     *)
THEOREM OrdersKeepThePromise == Spec => PromiseSpec
<1>1. Spec => [][Promise!Next]_Book
  BY NextPromise, Invariant, PTL DEF Spec
<1> QED  BY <1>1, InitPromise, PTL DEF Spec, PromiseSpec, Promise!Spec

(* A conversion always finds the order's source confirmed                    *)
(* (createMatterFromOrder, validateCommercialLineage).                       *)
THEOREM OnlyLiveSourcesConvert == Spec => ConvertsLiveSource
<1>1. ASSUME IInv, [Next]_vars, NEW o \in Orders, NEW m \in Matters,
             order[o].matter # m, order'[o].matter = m, ~MatterExists(m)
      PROVE  Confirmed(order[o].source)
  <2>1. PICK c \in Clients : CreateOrder(c) \/ MoveOrder(c) \/ ConvertOrder(c) \/ LinkMatter(c)
    <3>1. order' # order
      BY <1>1
    <3> QED
      BY <1>1, <3>1, ReadsKeepRows
      DEF Next, RequestStep, Reads, ConfirmQuote, Withdraw, OpenMatter, orders, vars
  <2> DEFINE r == req[c]
  <2>2. r \in Requests /\ r.order \in Orders
    BY <2>1, <1>1, RequestTypes DEF IInv, AtWork, CreateOrder, MoveOrder, ConvertOrder, LinkMatter
  <2>3. CASE CreateOrder(c)
    BY <1>1, <2>2, <2>3, BookSaved DEF CreateOrder, SaveOrder, NoOrder, IInv, TypeOK
  <2>4. CASE MoveOrder(c)
    <3>1. seenOrder[c] = order[r.order]
      BY <1>1, <2>4 DEF IInv, SeenIsPast, Past, MoveOrder, VersionHolds
    <3>2. order[r.order] \in OrderRow
      BY <1>1, <2>2 DEF IInv, TypeOK
    <3>3. order'[o].matter = order[o].matter
      BY <1>1, <2>2, <2>4, <3>1, <3>2 DEF MoveOrder, SaveOrder, IInv, TypeOK, OrderRow
    <3> QED  BY <1>1, <3>3
  <2>5. CASE ConvertOrder(c)
    <3>1. o = r.order
      BY <1>1, <2>2, <2>5 DEF ConvertOrder, SaveOrder, IInv, TypeOK
    <3> QED  BY <2>5, <3>1 DEF ConvertOrder, LineageHolds
  <2>6. CASE LinkMatter(c)
    <3>1. /\ SameLineage(r.order, r.matter) /\ ReadyOrder(r) /\ ~Recorded(r.key)
          /\ SaveOrder(r, r.order, Linked(r.order, r.matter)) /\ r.matter \in Matters
      BY <2>2, <2>6, RequestTypes DEF LinkMatter
    <3>2. order'[r.order].matter = r.matter
      BY <1>1, <2>2, <3>1, LinkedRow, OrderLinked
    <3>3. o = r.order
      BY <1>1, <2>2, <3>1 DEF SaveOrder, IInv, TypeOK
    <3> QED  BY <1>1, <3>1, <3>2, <3>3 DEF SameLineage
  <2> QED  BY <2>1, <2>3, <2>4, <2>5, <2>6
<1>2. IInv /\ [Next]_vars =>
          [\A o \in Orders, m \in Matters :
               order[o].matter # m /\ order'[o].matter = m /\ ~MatterExists(m)
                   => Confirmed(order[o].source)]_vars
  BY <1>1
<1> QED  BY <1>2, Invariant, PTL DEF Spec, ConvertsLiveSource
-----------------------------------------------------------------------------
(* What stays for good. *)

MattersExclusive ==
    \A o, p \in Orders : order[o].matter = order[p].matter /\ order[o].matter # "NONE" => o = p

(* Two orders never share a matter, and a source never has two orders.  The  *)
(* link takes a matter by the id a client names and asks of it only that its *)
(* source is the order's (validateMatterLineage): what keeps it from being   *)
(* another order's is the unique source of an order.                         *)
THEOREM NoSharedMatter == Spec => [](OneOrderForSource /\ MattersExclusive)
<1>1. ASSUME IInv, NEW o \in Orders, NEW p \in Orders,
             order[o].matter = order[p].matter, order[o].matter # "NONE"
      PROVE  o = p
  <2>1. order[o] # NoOrder /\ order[o] \in OrderRow
    BY <1>1 DEF NoOrder, IInv, TypeOK
  <2>2. order[o].source # "NONE"
    BY <1>1, <2>1 DEF IInv, RowsAgree, OrderRow
  <2>3. order[o].source = order[p].source
    BY <1>1 DEF IInv, LineageAgrees
  <2> QED  BY <1>1, <2>2, <2>3 DEF IInv, RowsAgree, OneOrderForSource
<1>2. IInv => OneOrderForSource /\ MattersExclusive
  BY <1>1 DEF MattersExclusive, IInv, RowsAgree
<1> QED  BY <1>2, Invariant, PTL

(* What a writing step makes of the rows of orders. *)
Keeps(o) ==
    /\ OrderExists(o) => order'[o].source = order[o].source
    /\ order[o].matter # "NONE" => order'[o].matter = order[o].matter

LEMMA OrdersKeepTheirs ==
    ASSUME IInv, [Next]_vars, NEW o \in Orders
    PROVE  Keeps(o)
<1>1. SUFFICES ASSUME order' # order PROVE Keeps(o)
  BY DEF Keeps
<1>2. PICK c \in Clients : CreateOrder(c) \/ MoveOrder(c) \/ ConvertOrder(c) \/ LinkMatter(c)
  BY <1>1, ReadsKeepRows
  DEF Next, RequestStep, Reads, ConfirmQuote, Withdraw, OpenMatter, orders, vars
<1> DEFINE r == req[c]
<1>3. r \in Requests /\ r.order \in Orders /\ r.matter \in Matters
  BY <1>2, RequestTypes DEF IInv, AtWork, CreateOrder, MoveOrder, ConvertOrder, LinkMatter
<1>4. CASE CreateOrder(c)
  <2>1. order[r.order] = NoOrder /\ ~OrderExists(r.order)
    BY <1>3, <1>4 DEF CreateOrder, OrderExists, IInv, TypeOK, OrderRow, RowsAgree
  <2>2. o # r.order => order'[o] = order[o]
    BY <1>3, <1>4 DEF CreateOrder, SaveOrder, IInv, TypeOK
  <2> QED  BY <2>1, <2>2 DEF Keeps, NoOrder
<1>5. CASE MoveOrder(c)
  <2>1. seenOrder[c] = order[r.order] /\ order[r.order] \in OrderRow
    BY <1>3, <1>5 DEF IInv, TypeOK, SeenIsPast, Past, MoveOrder, VersionHolds
  <2>2. order'[o].source = order[o].source /\ order'[o].matter = order[o].matter
    BY <1>3, <1>5, <2>1 DEF MoveOrder, SaveOrder, IInv, TypeOK, OrderRow
  <2> QED  BY <2>2 DEF Keeps
<1>6. CASE ConvertOrder(c) \/ LinkMatter(c)
  <2>1. ReadyOrder(r) /\ ~Recorded(r.key) /\ SaveOrder(r, r.order, Linked(r.order, r.matter))
    BY <1>6 DEF ConvertOrder, LinkMatter
  <2>2. /\ order[r.order].matter = "NONE"
        /\ order'[r.order].source = order[r.order].source
        /\ \A p \in Orders \ {r.order} : order'[p] = order[p]
    BY <1>3, <2>1, LinkedRow, OrderLinked
  <2> QED  BY <2>2 DEF Keeps
<1> QED  BY <1>2, <1>4, <1>5, <1>6

OrdersKeepSourceAndMatter == [][\A o \in Orders : Keeps(o)]_vars

(* Once an order is there its source never changes, and once it has a matter *)
(* it keeps that matter whatever happens: a later stage, a cancellation, a   *)
(* second conversion or link (insertOrder, updateOrder, linkOrder).          *)
THEOREM LinkedForGood == Spec => OrdersKeepSourceAndMatter
<1>1. IInv /\ [Next]_vars => [\A o \in Orders : Keeps(o)]_vars
  BY OrdersKeepTheirs
<1> QED  BY <1>1, Invariant, PTL DEF Spec, OrdersKeepSourceAndMatter

WrittenOnce ==
    /\ \A k \in Keys : /\ Recorded(k) => command'[k] = command[k]
                       /\ MatterRecorded(k) => matterCommand'[k] = matterCommand[k]
    /\ \A m \in Matters : MatterExists(m) => matter'[m] = matter[m]

LEMMA RecordsKept == ASSUME IInv, [Next]_vars PROVE WrittenOnce
<1>1. CASE UNCHANGED vars \/ \E s \in Sources : ConfirmQuote(s) \/ Withdraw(s)
  BY <1>1 DEF WrittenOnce, ConfirmQuote, Withdraw, matters, orders, vars
<1>2. ASSUME NEW c \in Clients, RequestStep(c) PROVE WrittenOnce
  <2>1. CASE Reads(c)
    BY <2>1, ReadsKeepRows DEF WrittenOnce, matters, orders
  <2>2. CASE CreateOrder(c) \/ MoveOrder(c) \/ LinkMatter(c)
    BY <2>2 DEF WrittenOnce, CreateOrder, MoveOrder, LinkMatter, SaveOrder, matters, IInv, TypeOK
  <2>3. CASE OpenMatter(c)
    BY <2>3 DEF WrittenOnce, OpenMatter, SaveMatter, orders, IInv, TypeOK
  <2>4. CASE ConvertOrder(c)
    BY <2>4 DEF WrittenOnce, ConvertOrder, SaveMatter, SaveOrder, IInv, TypeOK
  <2> QED  BY <1>2, <2>1, <2>2, <2>3, <2>4 DEF RequestStep, Reads
<1> QED  BY <1>1, <1>2 DEF Next

ResultsWrittenOnce == [][WrittenOnce]_vars

(* What is on record under a key, and the matter it tells of, is never       *)
(* written again: with ResultsAreCommitted, a request that is repeated       *)
(* at any later time is given the result it was first answered with          *)
(* (insertCommand, insertMatterCommand, resolveReplay).                      *)
THEOREM ResultsAreFinal == Spec => ResultsWrittenOnce
<1>1. IInv /\ [Next]_vars => [WrittenOnce]_vars
  BY RecordsKept
<1> QED  BY <1>1, Invariant, PTL DEF Spec, ResultsWrittenOnce
===============================================================================
