------------------------------ MODULE OrderMatter ------------------------------
(***************************************************************************)
(* From a confirmed quote to a formal matter in MarkReg (services/markreg): *)
(* a customer confirmation that may be withdrawn, the matter draft prepared *)
(* from it, the order placed for it, and the formal matter created from the *)
(* draft, either directly or by converting the order.                       *)
(*                                                                          *)
(* Granularity: a read outside a transaction, a single statement and a      *)
(* SERIALIZABLE transaction are one step each.  Every request is identified *)
(* by its content, an idempotency key and the id it would give to what it   *)
(* creates; it may be sent any number of times, by concurrent clients, and  *)
(* may fail before any step.                                                *)
(***************************************************************************)
EXTENDS Naturals, Sequences

CONSTANTS
    Clients,   \* concurrent request handlers
    Sources,   \* customer confirmations, each of its own exact quote version
    Orders,
    Matters,
    Keys,      \* idempotency keys
    Requests   \* the requests that are sent

Stages == {"request_confirmation", "confirm", "ready", "cancel"}
Operations == {"create", "convert", "link", "open_matter",
               "create_draft", "edit", "evaluate"} \cup Stages

RequestType ==
    [op: Operations, key: Keys, source: Sources, order: Orders, expected: Nat,
     matter: Matters, filled: BOOLEAN, scope: BOOLEAN]

ASSUME OrderMatterAssumption ==
    /\ Requests \subseteq RequestType
    /\ "NONE" \notin Sources \cup Orders \cup Matters

VARIABLES
    confirmation,  \* customer_confirmations.status; CONFIRMED is version 1, WITHDRAWN 2
    draft,         \* matter_drafts, one for a confirmation; version 0 before there is one
    matter,        \* formal_matters
    matterCommand, \* formal_matter_commands, by key
    order,         \* orders; version 0 before there is one
    command,       \* order_commands, by key
    audit,         \* order_audit, by order
    pc,            \* pc[c]: what client c's request does next
    req,           \* req[c]: the request, kept when it is answered with a result
    seenOrder,     \* seenOrder[c]: the order row it read
    seenDraft,     \* seenDraft[c]: the draft row it read or is about to write
    answered       \* answered[c]: it has been answered with a result

sources == <<confirmation, draft>>
matters == <<matter, matterCommand>>
orders  == <<order, command, audit>>
request == <<req, seenOrder, seenDraft>>
vars == <<sources, matters, orders, pc, request, answered>>

NoDraft   == [version |-> 0, filled |-> FALSE, scope |-> FALSE, ready |-> FALSE]
NoMatter  == [source |-> "NONE", draftVersion |-> 0, filled |-> FALSE, scope |-> FALSE]
NoOrder   == [status |-> "NONE", version |-> 0, source |-> "NONE", matter |-> "NONE"]
NoCommand == [by |-> << >>, order |-> "NONE", version |-> 0]
NoMatterCommand == [by |-> << >>, matter |-> "NONE"]
NoRequest == [op |-> "none"]

Init ==
    /\ confirmation = [s \in Sources |-> "NONE"]
    /\ draft = [s \in Sources |-> NoDraft]
    /\ matter = [m \in Matters |-> NoMatter]
    /\ matterCommand = [k \in Keys |-> NoMatterCommand]
    /\ order = [o \in Orders |-> NoOrder]
    /\ command = [k \in Keys |-> NoCommand]
    /\ audit = [o \in Orders |-> << >>]
    /\ pc = [c \in Clients |-> "idle"]
    /\ req = [c \in Clients |-> NoRequest]
    /\ seenOrder = [c \in Clients |-> NoOrder]
    /\ seenDraft = [c \in Clients |-> NoDraft]
    /\ answered = [c \in Clients |-> FALSE]

CanTransitionOrder(from, to) ==
    \/ from = "Draft" /\ to \in {"PendingConfirmation", "Cancelled", "Archived"}
    \/ from = "PendingConfirmation" /\ to \in {"Draft", "Confirmed", "Cancelled"}
    \/ from = "Confirmed" /\ to \in {"ReadyForMatter", "InProgress", "Cancelled"}
    \/ from = "ReadyForMatter" /\ to \in {"MatterCreated", "InProgress", "Cancelled"}
    \/ from = "MatterCreated" /\ to \in {"InProgress", "Completed", "Cancelled"}
    \/ from = "InProgress" /\ to \in {"WaitingForCustomer", "Completed", "Cancelled"}
    \/ from = "WaitingForCustomer" /\ to \in {"InProgress", "Cancelled"}
    \/ from \in {"Completed", "Cancelled"} /\ to = "Archived"

Target(op) ==
    CASE op = "request_confirmation" -> "PendingConfirmation"
      [] op = "confirm" -> "Confirmed"
      [] op = "ready"   -> "ReadyForMatter"
      [] OTHER          -> "Cancelled"

(* What a request's fingerprint tells apart: all of it but its key and the   *)
(* id of what it creates.                                                    *)
Content(r) ==
    CASE r.op = "create" -> <<r.op, r.source>>
      [] r.op = "link"   -> <<r.op, r.order, r.expected, r.matter>>
      [] r.op = "open_matter" -> <<r.op, r.source, r.expected>>
      [] OTHER           -> <<r.op, r.order, r.expected>>

Recorded(k)        == command[k].version > 0
MatterRecorded(k)  == matterCommand[k].matter # "NONE"
Confirmed(s)       == confirmation[s] = "CONFIRMED"
OrderExists(o)     == order[o].version > 0
MatterExists(m)    == matter[m].source # "NONE"
DraftUsed(s, v)    == \E m \in Matters : matter[m].source = s /\ matter[m].draftVersion = v

Goto(c, step) == pc' = [pc EXCEPT ![c] = step] /\ UNCHANGED answered

Leave(c) ==
    /\ pc' = [pc EXCEPT ![c] = "idle"]
    /\ seenOrder' = [seenOrder EXCEPT ![c] = NoOrder]
    /\ seenDraft' = [seenDraft EXCEPT ![c] = NoDraft]

Answer(c) == Leave(c) /\ answered' = [answered EXCEPT ![c] = TRUE] /\ UNCHANGED req
Drop(c)   == Leave(c) /\ req' = [req EXCEPT ![c] = NoRequest] /\ UNCHANGED answered

(* A check that refuses, a statement that fails and a crash end a request    *)
(* alike: nothing is written.                                                *)
Fails(c) ==
    /\ pc[c] # "idle"
    /\ Drop(c)
    /\ UNCHANGED <<sources, matters, orders>>
-----------------------------------------------------------------------------
(* Customer confirmations: one for a quote version, withdrawn at most once. *)

ConfirmQuote(s) ==
    /\ confirmation[s] = "NONE"
    /\ confirmation' = [confirmation EXCEPT ![s] = "CONFIRMED"]
    /\ UNCHANGED <<draft, matters, orders, pc, request, answered>>

Withdraw(s) ==
    /\ Confirmed(s)
    /\ confirmation' = [confirmation EXCEPT ![s] = "WITHDRAWN"]
    /\ UNCHANGED <<draft, matters, orders, pc, request, answered>>
-----------------------------------------------------------------------------
(* What a request reads before it writes. *)

First(r) ==
    CASE r.op \in {"convert", "link"}   -> "commit"
      [] r.op = "create_draft"          -> "source"
      [] r.op \in {"edit", "evaluate"}  -> "draft"
      [] OTHER                          -> "replay"

Start(c, r) ==
    /\ pc[c] = "idle"
    /\ req' = [req EXCEPT ![c] = r]
    /\ pc' = [pc EXCEPT ![c] = First(r)]
    /\ answered' = [answered EXCEPT ![c] = FALSE]
    /\ UNCHANGED <<sources, matters, orders, seenOrder, seenDraft>>

(* The result already recorded under the key, in the request's own table. *)
OwnRecorded(r) == IF r.op = "open_matter" THEN MatterRecorded(r.key) ELSE Recorded(r.key)
(* Without the fingerprint, a key alone decides. *)
KeyDecides(r) == TRUE

SameContent(r) ==
    Content(r) = IF r.op = "open_matter" THEN matterCommand[r.key].by ELSE command[r.key].by

Replays(c) ==
    /\ OwnRecorded(req[c])
    /\ IF SameContent(req[c]) THEN Answer(c) ELSE Drop(c)
    /\ UNCHANGED <<sources, matters, orders>>

FindReplay(c) ==
    /\ pc[c] = "replay"
    /\ \/ Replays(c)
       \/ /\ ~OwnRecorded(req[c])
          /\ Goto(c, IF req[c].op \in Stages THEN "order" ELSE "source")
          /\ UNCHANGED <<sources, matters, orders, request>>

LoadOrder(c) ==
    LET r == req[c]  row == order[r.order] IN
    /\ pc[c] = "order"
    /\ OrderExists(r.order) /\ row.version = r.expected
    /\ CanTransitionOrder(row.status, Target(r.op))
    /\ seenOrder' = [seenOrder EXCEPT ![c] = row]
    /\ Goto(c, IF r.op = "cancel" THEN "commit" ELSE "source")
    /\ UNCHANGED <<sources, matters, orders, req, seenDraft>>

SourceOf(c) == IF req[c].op \in Stages THEN seenOrder[c].source ELSE req[c].source

(* The source a request depends on must be confirmed as it is read. *)
CheckSource(c) ==
    /\ pc[c] = "source" /\ req[c].op # "evaluate"
    /\ Confirmed(SourceOf(c))
    /\ Goto(c, IF req[c].op = "open_matter" THEN "draft" ELSE "commit")
    /\ UNCHANGED <<sources, matters, orders, request>>

(* Readiness: the confirmation as it is read, and the preparation. *)
Evaluate(c) ==
    LET d == seenDraft[c] IN
    /\ pc[c] = "source" /\ req[c].op = "evaluate"
    /\ seenDraft' = [seenDraft EXCEPT ![c].ready = Confirmed(SourceOf(c)) /\ d.filled /\ d.scope]
    /\ Goto(c, "commit")
    /\ UNCHANGED <<sources, matters, orders, req, seenOrder>>

(* An edit keeps the readiness the draft was last evaluated to. *)
Edited(d, r)  == [d EXCEPT !.filled = r.filled, !.scope = r.scope]

ReadDraft(c) ==
    LET r == req[c]  d == draft[r.source] IN
    /\ pc[c] = "draft"
    /\ d.version > 0
    /\ r.op = "open_matter" => d.version = r.expected /\ d.ready
    /\ seenDraft' = [seenDraft EXCEPT ![c] = IF r.op = "edit" THEN Edited(d, r) ELSE d]
    /\ Goto(c, IF r.op = "evaluate" THEN "source" ELSE "commit")
    /\ UNCHANGED <<sources, matters, orders, req, seenOrder>>
-----------------------------------------------------------------------------
(* Matter drafts. *)

CreateDraft(c) ==
    LET s == req[c].source IN
    /\ pc[c] = "commit" /\ req[c].op = "create_draft"
    /\ draft[s].version = 0
    /\ draft' = [draft EXCEPT ![s] = [NoDraft EXCEPT !.version = 1]]
    /\ Drop(c)
    /\ UNCHANGED <<confirmation, matters, orders>>

UpdateDraft(c) ==
    LET s == req[c].source IN
    /\ pc[c] = "commit" /\ req[c].op \in {"edit", "evaluate"}
    /\ draft[s].version = req[c].expected
    /\ draft' = [draft EXCEPT ![s] = [seenDraft[c] EXCEPT !.version = draft[s].version + 1]]
    /\ Drop(c)
    /\ UNCHANGED <<confirmation, matters, orders>>
-----------------------------------------------------------------------------
(* Orders. *)

(* The order's row, its command and its audit entry are written together. *)
SaveOrder(r, o, row) ==
    /\ order' = [order EXCEPT ![o] = row]
    /\ command' = [command EXCEPT ![r.key] =
           [by |-> Content(r), order |-> o, version |-> row.version]]
    /\ audit' = [audit EXCEPT ![o] =
           Append(@, [from |-> order[o].status, to |-> row.status, version |-> row.version])]

(* Without the unique constraint on the source. *)
NotUnique(s) == TRUE

SourceFree(s) == \A o \in Orders : order[o].source # s

CreateOrder(c) ==
    LET r == req[c] IN
    /\ pc[c] = "commit" /\ r.op = "create"
    /\ ~Recorded(r.key)
    /\ SourceFree(r.source) /\ ~OrderExists(r.order)
    /\ SaveOrder(r, r.order, [NoOrder EXCEPT !.status = "Draft", !.version = 1, !.source = r.source])
    /\ Answer(c)
    /\ UNCHANGED <<sources, matters>>

(* Without the version in the update's WHERE clause. *)
AnyVersion(o, v) == TRUE

VersionHolds(o, v) == order[o].version = v

MoveOrder(c) ==
    LET r == req[c] IN
    /\ pc[c] = "commit" /\ r.op \in Stages
    /\ ~Recorded(r.key)
    /\ VersionHolds(r.order, r.expected)
    /\ SaveOrder(r, r.order,
           [seenOrder[c] EXCEPT !.status = Target(r.op), !.version = seenOrder[c].version + 1])
    /\ Answer(c)
    /\ UNCHANGED <<sources, matters>>
-----------------------------------------------------------------------------
(* Formal matters. *)

SaveMatter(r, s, d) ==
    /\ matter' = [matter EXCEPT ![r.matter] =
           [source |-> s, draftVersion |-> d.version, filled |-> d.filled, scope |-> d.scope]]
    /\ matterCommand' = [matterCommand EXCEPT ![r.key] = [by |-> Content(r), matter |-> r.matter]]

(* Directly, from a confirmation and a draft read before the transaction. *)
OpenMatter(c) ==
    LET r == req[c] IN
    /\ pc[c] = "commit" /\ r.op = "open_matter"
    /\ ~MatterRecorded(r.key)
    /\ ~MatterExists(r.matter) /\ ~DraftUsed(r.source, seenDraft[c].version)
    /\ SaveMatter(r, r.source, seenDraft[c])
    /\ Answer(c)
    /\ UNCHANGED <<sources, orders>>

ReadyOrder(r) ==
    /\ OrderExists(r.order)
    /\ VersionHolds(r.order, r.expected)
    /\ CanTransitionOrder(order[r.order].status, "MatterCreated")

(* Without the version's increment. *)
UnversionedLink(o, m) == [order[o] EXCEPT !.status = "MatterCreated", !.matter = m]

Linked(o, m) ==
    [order[o] EXCEPT !.status = "MatterCreated", !.version = order[o].version + 1, !.matter = m]

(* Without looking at the confirmation again. *)
DraftAlone(s) == draft[s].version > 0 /\ draft[s].ready /\ draft[s].scope

LineageHolds(s) == Confirmed(s) /\ draft[s].version > 0 /\ draft[s].ready /\ draft[s].scope

(* From the order, whose row, source and draft the transaction locks. *)
ConvertOrder(c) ==
    LET r == req[c]  s == order[r.order].source IN
    /\ pc[c] = "commit" /\ r.op = "convert"
    /\ ~Recorded(r.key)
    /\ ReadyOrder(r)
    /\ LineageHolds(s)
    /\ ~MatterRecorded(r.key)
    /\ ~MatterExists(r.matter) /\ ~DraftUsed(s, draft[s].version)
    /\ SaveMatter(r, s, draft[s])
    /\ SaveOrder(r, r.order, Linked(r.order, r.matter))
    /\ Answer(c)
    /\ UNCHANGED sources

(* Without comparing the matter's source with the order's. *)
AnyLineage(o, m) == MatterExists(m)

SameLineage(o, m) == MatterExists(m) /\ matter[m].source = order[o].source

(* A matter that was created directly becomes the order's. *)
LinkMatter(c) ==
    LET r == req[c] IN
    /\ pc[c] = "commit" /\ r.op = "link"
    /\ ~Recorded(r.key)
    /\ ReadyOrder(r)
    /\ SameLineage(r.order, r.matter)
    /\ SaveOrder(r, r.order, Linked(r.order, r.matter))
    /\ Answer(c)
    /\ UNCHANGED <<sources, matters>>
-----------------------------------------------------------------------------
(* A transaction answers from the record, or is rolled back because another  *)
(* one has written its key, its source or a row it read.                     *)
ReplayInTransaction(c) ==
    /\ pc[c] = "commit" /\ req[c].op \notin {"create_draft", "edit", "evaluate"}
    /\ Replays(c)

RollBack(c) ==
    /\ pc[c] = "commit" /\ req[c].op \notin {"create_draft", "edit", "evaluate"}
    /\ Goto(c, "resolve")
    /\ UNCHANGED <<sources, matters, orders, request>>

Resolve(c) == pc[c] = "resolve" /\ Replays(c)

RequestStep(c) ==
    \/ \E r \in Requests : Start(c, r)
    \/ FindReplay(c) \/ LoadOrder(c) \/ CheckSource(c)
    \/ ReadDraft(c) \/ Evaluate(c)
    \/ CreateDraft(c) \/ UpdateDraft(c)
    \/ CreateOrder(c) \/ MoveOrder(c)
    \/ OpenMatter(c) \/ ConvertOrder(c) \/ LinkMatter(c)
    \/ ReplayInTransaction(c) \/ RollBack(c) \/ Resolve(c)
    \/ Fails(c)

Next ==
    \/ \E s \in Sources : ConfirmQuote(s) \/ Withdraw(s)
    \/ \E c \in Clients : RequestStep(c)

Spec == Init /\ [][Next]_vars
-----------------------------------------------------------------------------
OrderStatuses == {"Draft", "PendingConfirmation", "Confirmed", "ReadyForMatter",
                  "MatterCreated", "Cancelled"}
OrderRow == [status: OrderStatuses \cup {"NONE"}, version: Nat,
             source: Sources \cup {"NONE"}, matter: Matters \cup {"NONE"}]
AuditRow == [from: OrderStatuses \cup {"NONE"}, to: OrderStatuses, version: Nat]
DraftRow == [version: Nat, filled: BOOLEAN, scope: BOOLEAN, ready: BOOLEAN]
MatterRow == [source: Sources \cup {"NONE"}, draftVersion: Nat, filled: BOOLEAN, scope: BOOLEAN]
Contents == {Content(r) : r \in Requests} \cup {<< >>}

(* Rows and requests have the values their columns and types allow. *)
TypeOK ==
    /\ confirmation \in [Sources -> {"NONE", "CONFIRMED", "WITHDRAWN"}]
    /\ draft \in [Sources -> DraftRow]
    /\ matter \in [Matters -> MatterRow]
    /\ matterCommand \in [Keys -> [by: Contents, matter: Matters \cup {"NONE"}]]
    /\ order \in [Orders -> OrderRow]
    /\ command \in [Keys -> [by: Contents, order: Orders \cup {"NONE"}, version: Nat]]
    /\ audit \in [Orders -> Seq(AuditRow)]
    /\ pc \in [Clients -> {"idle", "replay", "order", "source", "draft", "commit", "resolve"}]
    /\ req \in [Clients -> Requests \cup {NoRequest}]
    /\ seenOrder \in [Clients -> OrderRow]
    /\ seenDraft \in [Clients -> DraftRow]
    /\ answered \in [Clients -> BOOLEAN]

(* An order's audit is its whole history: it begins with the creation, every *)
(* entry goes on from the one before, none is missing or written twice, and  *)
(* each is the work of exactly one command (insertCommand, insertAudit,      *)
(* linkOrder).                                                               *)
History(h, row) ==
    /\ Len(h) = row.version
    /\ Len(h) > 0 => h[1].from = "NONE" /\ h[Len(h)].to = row.status
    /\ \A i \in 1..Len(h) :
          /\ h[i].version = i
          /\ i > 1 => h[i].from = h[i - 1].to /\ CanTransitionOrder(h[i].from, h[i].to)

MadeBy(o, i, k) == command[k].order = o /\ command[k].version = i

HistoryIsComplete ==
    \A o \in Orders :
        /\ History(audit[o], order[o])
        /\ \A i \in 1..order[o].version :
              \E k \in Keys : \A j \in Keys : MadeBy(o, i, j) <=> j = k

(* The matter of an order was created from the order's own source, for       *)
(* conversion and compatibility link alike (validateMatterLineage).          *)
LineageAgrees ==
    \A o \in Orders : order[o].matter # "NONE" => matter[order[o].matter].source = order[o].source

(* No conversion leaves a matter without its order: what one has created is  *)
(* the matter of the order it was created from, whatever happened since      *)
(* (createMatterFromOrder is one transaction).                               *)
NoOrphanMatter ==
    \A k \in Keys, r \in Requests :
        MatterRecorded(k) /\ matterCommand[k].by = Content(r) /\ r.op = "convert"
            => order[r.order].matter = matterCommand[k].matter

(* A request answered with its result finds it on record, input included: a  *)
(* repetition or the loser of a race is never given another's result         *)
(* (resolveReplay, resolveConcurrentResult).                                 *)
OnRecord(c) ==
    LET r == req[c] IN
    Content(r) = IF r.op = "open_matter" THEN matterCommand[r.key].by ELSE command[r.key].by

OkIsCommitted == \A c \in Clients : answered[c] => OnRecord(c)

(* An order is only ever converted from a source confirmed at that moment,   *)
(* however long ago the order was found ready (the conversion locks and      *)
(* reads the confirmation again; validateCommercialLineage).                 *)
ConvertsLiveSource ==
    [][\A o \in Orders, m \in Matters :
         order[o].matter # m /\ order'[o].matter = m /\ ~MatterExists(m)
             => Confirmed(order[o].source)]_vars

(* Orders and matters keep their promise (OrderPromise): one order for a     *)
(* source, a matter linked once and for good, to one order only.             *)
Book == [o \in Orders |->
           [status |-> order[o].status, source |-> order[o].source, matter |-> order[o].matter]]
Promise == INSTANCE OrderPromise WITH book <- Book
PromiseSpec == Promise!Spec

(* The strengthening.  Of the rows: an order row that is not there is blank, *)
(* one before MatterCreated has no matter, no source has two orders, a       *)
(* command's result is a version its order has had.  Of a request that moves *)
(* an order: the row it read is the order's or an earlier one.               *)
Prepared == {"NONE", "Draft", "PendingConfirmation", "Confirmed", "ReadyForMatter"}

OneOrderForSource ==
    \A o, p \in Orders : order[o].source = order[p].source /\ order[o].source # "NONE" => o = p

RowsAgree ==
    /\ \A o \in Orders :
          /\ order[o].version = 0 => order[o] = NoOrder
          /\ order[o].version > 0 => order[o].source # "NONE" /\ order[o].status # "NONE"
          /\ order[o].status \in Prepared => order[o].matter = "NONE"
    /\ OneOrderForSource
    /\ \A k \in Keys : ~MatterRecorded(k) => matterCommand[k].by = << >>

CommandsAgree ==
    \A k \in Keys :
        IF Recorded(k)
        THEN /\ command[k].order \in Orders
             /\ command[k].version <= order[command[k].order].version
        ELSE command[k].by = << >>

(* Of a request that moves an order: the row it has read.                    *)
Past(c) ==
    LET r == req[c]  row == seenOrder[c] IN
    pc[c] \in {"source", "commit"} /\ r.op \in Stages =>
        /\ row.version = r.expected /\ row.version > 0 /\ row.version <= order[r.order].version
        /\ row.version = order[r.order].version => row = order[r.order]
        /\ CanTransitionOrder(row.status, Target(r.op))

SeenIsPast == \A c \in Clients : Past(c)

AtWork ==
    \A c \in Clients :
        /\ pc[c] # "idle" => ~answered[c]
        /\ pc[c] # "idle" \/ answered[c] => req[c] \in Requests
        /\ pc[c] = "draft" => req[c].op \notin Stages

IInv ==
    /\ TypeOK
    /\ AtWork
    /\ RowsAgree
    /\ CommandsAgree
    /\ SeenIsPast
    /\ LineageAgrees
    /\ NoOrphanMatter
    /\ OkIsCommitted
    /\ HistoryIsComplete
===============================================================================
