-------------------------- MODULE FilingGovernance --------------------------
(***************************************************************************)
(* Filing governance of Execution (services/execution): a customer's       *)
(* authorization of one exact preparation lock version, the execution      *)
(* releases reviewed under it, the decision to release one of them, and    *)
(* the filing execution task draft prepared from the decision.             *)
(*                                                                         *)
(* Granularity: every read of the repository or of the preparation source, *)
(* and every transaction, is one step.  Requests are handled concurrently, *)
(* may be repeated, and may fail or crash before any step.                 *)
(***************************************************************************)
EXTENDS Naturals

CONSTANTS
    Workers,         \* concurrent request handlers
    Locks,           \* preparation locks of MarkReg
    LockVersions,    \* their exact versions
    Authorizations,  \* ids of filing authorizations
    Releases,        \* ids of execution releases
    Executors,       \* internal executors
    Keys,            \* idempotency keys
    Requests,        \* the requests that may be made
    MaxVersion       \* bound on the versions that evaluate, assign and repeated withdrawals make

NoId == "NONE"

Kinds == {"CREATE_AUTHORIZATION", "CONFIRM", "WITHDRAW_AUTHORIZATION", "CREATE_RELEASE",
          "EVALUATE", "ASSIGN", "DECIDE", "WITHDRAW_RELEASE", "VALIDATE_DRAFT"}
OfAuthorization == {"CONFIRM", "WITHDRAW_AUTHORIZATION"}
Refreshing      == {"EVALUATE", "DECIDE"}
OfRelease       == Refreshing \cup {"ASSIGN", "WITHDRAW_RELEASE", "VALIDATE_DRAFT"}
Keyed           == {"CREATE_AUTHORIZATION", "CONFIRM", "CREATE_RELEASE", "DECIDE"}

(* A request: the id in its path, and its body. *)
RequestType ==
    [kind: Kinds, key: Keys \cup {NoId}, target: Authorizations \cup Releases \cup {NoId},
     lock: Locks \cup {NoId}, lockVersion: LockVersions \cup {NoId},
     authorization: Authorizations \cup {NoId}, version: Nat, executor: Executors \cup {NoId}]

ASSUME FilingAssumption ==
    /\ NoId \notin Locks \cup LockVersions \cup Authorizations \cup Releases \cup Executors \cup Keys
    /\ Authorizations \cap Releases = {}
    /\ MaxVersion \in Nat
    /\ Requests \subseteq RequestType
    /\ \A q \in Requests :
         /\ q.kind \in Keyed <=> q.key # NoId
         /\ q.kind \in OfAuthorization => q.target \in Authorizations
         /\ q.kind \in OfRelease => q.target \in Releases
         /\ q.kind = "CREATE_AUTHORIZATION" => q.lock \in Locks /\ q.lockVersion \in LockVersions
         /\ q.kind = "CREATE_RELEASE" => q.authorization \in Authorizations
         /\ q.kind = "ASSIGN" => q.executor \in Executors

VARIABLES
    lock,           \* the version of each preparation lock that MarkReg answers with
    authorization,  \* filing_authorizations
    release,        \* execution_releases
    draft,          \* filing_execution_task_drafts, by release
    command,        \* filing_governance_commands
    job             \* job[w]: the request worker w handles, and the records it holds

rows == <<authorization, release, draft, command>>
vars == <<lock, rows, job>>

NoRequest       == [kind |-> NoId]
NoAuthorization == [status |-> NoId, version |-> 0, lock |-> NoId, lockVersion |-> NoId]
NoRelease       == [status |-> NoId, version |-> 0, authorization |-> NoId, authorizationVersion |-> 0,
                    checks |-> "UNKNOWN", executor |-> NoId, decided |-> FALSE]
NoDraft         == [status |-> NoId, executor |-> NoId]
NoCommand       == [request |-> NoRequest, target |-> NoId]
Idle            == [pc |-> "idle", request |-> NoRequest, auth |-> NoAuthorization, rel |-> NoRelease]

Init ==
    /\ lock \in [Locks -> LockVersions]
    /\ authorization = [a \in Authorizations |-> NoAuthorization]
    /\ release = [r \in Releases |-> NoRelease]
    /\ draft = [r \in Releases |-> NoDraft]
    /\ command = [k \in Keys |-> NoCommand]
    /\ job = [w \in Workers |-> Idle]
-----------------------------------------------------------------------------
Ended      == {"WITHDRAWN", "STALE", "EXPIRED"}
Open       == {"DRAFT", "BLOCKED", "READY_FOR_RELEASE"}
Active(row)       == row.status \in {"PENDING_CONFIRMATION", "AUTHORIZED"}
Authorized(row)   == row.status = "AUTHORIZED"
OpenRelease(row)  == row.status \in Open

At(w, step) == job[w].pc = step
Request(w)  == job[w].request
Kind(w)     == job[w].request.kind
Leave(w)    == job' = [job EXCEPT ![w] = Idle]
Goto(w, step)            == job' = [job EXCEPT ![w].pc = step]
Holding(w, step, a, r)   == job' = [job EXCEPT ![w] = [@ EXCEPT !.pc = step, !.auth = a, !.rel = r]]
Begin(w, q, step, r)     == job' = [job EXCEPT ![w] = [Idle EXCEPT !.pc = step, !.request = q, !.rel = r]]

(* The fingerprint of a command leaves the id in the path out. *)
Content(q) == [q EXCEPT !.target = NoId]
Recorded(q)         == command[q.key] # NoCommand
SameContent(q)      == Content(command[q.key].request) = Content(q)
Record(q, target)   == command' = [command EXCEPT ![q.key] = [request |-> q, target |-> target]]

(* An UPDATE names the version the record was read in. *)
AsRead(next, row)  == row.version > 0  \* mutant: an UPDATE by id alone
Follows(next, row) == row.version = next.version - 1
Next1(row, status) == [row EXCEPT !.status = status, !.version = @ + 1]

SaveAuthorization(a, next) ==
    /\ Follows(next, authorization[a])
    /\ authorization' = [authorization EXCEPT ![a] = next]
SaveRelease(r, next) ==
    /\ Follows(next, release[r])
    /\ release' = [release EXCEPT ![r] = next]

(* A refusal, a failing statement, a conflict and a crash end a request     *)
(* alike: what it already wrote stays.                                      *)
Fails(w) ==
    /\ ~At(w, "idle")
    /\ Leave(w)
    /\ UNCHANGED <<lock, rows>>

(* The lock MarkReg answers with is another one from now on. *)
SourceChanges(l, v) ==
    /\ lock' = [lock EXCEPT ![l] = v]
    /\ UNCHANGED <<rows, job>>
-----------------------------------------------------------------------------
(* createAuthorization: the lock in the exact version asked for, no active  *)
(* authorization of it, and the transaction, in which the table's unique    *)
(* index decides.                                                           *)

StartKeyed(w, q, step) ==
    /\ At(w, "idle")
    /\ ~Recorded(q)
    /\ Begin(w, q, step, NoRelease)
    /\ UNCHANGED <<lock, rows>>

NoneActive(l, v) ==
    \A b \in Authorizations :
        Active(authorization[b]) => authorization[b].lock # l \/ authorization[b].lockVersion # v

ReadSource(w) ==
    /\ At(w, "read_source")
    /\ lock[Request(w).lock] = Request(w).lockVersion
    /\ Goto(w, "check_active")
    /\ UNCHANGED <<lock, rows>>

CheckActive(w) ==
    /\ At(w, "check_active")
    /\ NoneActive(Request(w).lock, Request(w).lockVersion)
    /\ Goto(w, "create_authorization")
    /\ UNCHANGED <<lock, rows>>

CreateAuthorization(w, a) ==
    LET q == Request(w) IN
    /\ At(w, "create_authorization")
    /\ ~Recorded(q)
    /\ authorization[a] = NoAuthorization
    /\ NoneActive(q.lock, q.lockVersion)
    /\ authorization' = [authorization EXCEPT ![a] =
         [status |-> "PENDING_CONFIRMATION", version |-> 1, lock |-> q.lock, lockVersion |-> q.lockVersion]]
    /\ Record(q, a)
    /\ Leave(w)
    /\ UNCHANGED <<lock, release, draft>>
-----------------------------------------------------------------------------
(* getAuthorization, on the way of a confirmation or of a release's         *)
(* refresh: an authorization found expired, or whose lock is not the one it *)
(* pins, is ended before it is returned.  A plain getAuthorization or       *)
(* getRelease is a confirmation or an evaluation that goes no further.      *)

AuthorizationOf(w) ==
    IF Kind(w) \in OfRelease THEN job[w].rel.authorization ELSE Request(w).target

(* The authorization a release was made for is in force. *)
Exists(rel, row)  == row.version >= rel.authorizationVersion  \* mutant: not looked at
InForce(rel, row) == Authorized(row) /\ row.version = rel.authorizationVersion

(* The checks of release, on the record as the refresh left it. *)
Releasable(rel) ==
    /\ rel.checks = "PASS"
    /\ rel.status = "READY_FOR_RELEASE"
    /\ rel.executor # NoId

(* What the caller does with a release that is current. *)
Refreshed(w) ==
    LET rel == job[w].rel IN
    \/ /\ Kind(w) = "EVALUATE" /\ OpenRelease(rel) /\ rel.version < MaxVersion
       /\ Holding(w, "check_authorization", NoAuthorization, rel)
    \/ /\ Kind(w) = "DECIDE" /\ Releasable(rel)
       /\ Holding(w, "record_decision", NoAuthorization,
                  [Next1(rel, "RELEASED_FOR_EXECUTION") EXCEPT !.decided = TRUE])

(* What the caller does with the authorization it gets, unless it refuses. *)
Got(w, row) ==
    \/ /\ Kind(w) = "CONFIRM" /\ row.status = "PENDING_CONFIRMATION"
       /\ Holding(w, "confirm", Next1(row, "AUTHORIZED"), NoRelease)
    \/ Kind(w) \in Refreshing /\ InForce(job[w].rel, row) /\ Refreshed(w)
    \/ /\ Kind(w) \in Refreshing /\ ~InForce(job[w].rel, row)
       /\ Holding(w, "stale_release", NoAuthorization, Next1(job[w].rel, "STALE"))

GetAuthorization(w) ==
    LET row == authorization[AuthorizationOf(w)] IN
    /\ At(w, "get_authorization")
    /\ row # NoAuthorization
    /\ \/ row.status \in Ended /\ Got(w, row)
       \/ Active(row) /\ Holding(w, "match_source", row, job[w].rel)
       \/ Active(row) /\ Holding(w, "end_authorization", Next1(row, "EXPIRED"), job[w].rel)
    /\ UNCHANGED <<lock, rows>>

SourceMatches(row) == lock[row.lock] = row.lockVersion

MatchSource(w) ==
    LET row == job[w].auth IN
    /\ At(w, "match_source")
    /\ IF SourceMatches(row)
         THEN Got(w, row)
         ELSE Holding(w, "end_authorization", Next1(row, "STALE"), job[w].rel)
    /\ UNCHANGED <<lock, rows>>

EndAuthorization(w) ==
    /\ At(w, "end_authorization")
    /\ SaveAuthorization(AuthorizationOf(w), job[w].auth)
    /\ IF Kind(w) = "CONFIRM" THEN Leave(w) ELSE Got(w, job[w].auth)
    /\ UNCHANGED <<lock, release, draft, command>>

Confirm(w) ==
    /\ At(w, "confirm")
    /\ ~Recorded(Request(w))
    /\ SaveAuthorization(Request(w).target, job[w].auth)
    /\ Record(Request(w), Request(w).target)
    /\ Leave(w)
    /\ UNCHANGED <<lock, release, draft>>

StartWithdrawal(w, q) ==
    LET row == authorization[q.target] IN
    /\ q.kind = "WITHDRAW_AUTHORIZATION"
    /\ At(w, "idle")
    /\ Active(row)
    /\ job' = [job EXCEPT ![w] = [Idle EXCEPT !.pc = "withdraw_authorization", !.request = q,
                                              !.auth = Next1(row, "WITHDRAWN")]]
    /\ UNCHANGED <<lock, rows>>

WithdrawAuthorization(w) ==
    /\ At(w, "withdraw_authorization")
    /\ SaveAuthorization(Request(w).target, job[w].auth)
    /\ Leave(w)
    /\ UNCHANGED <<lock, release, draft, command>>
-----------------------------------------------------------------------------
(* createRelease: an AUTHORIZED authorization in the exact version asked    *)
(* for, no open release of it, and the transaction with its unique index.   *)

ReadAuthorization(w) ==
    LET q == Request(w)  row == authorization[q.authorization] IN
    /\ At(w, "read_authorization")
    /\ Authorized(row) /\ row.version = q.version
    /\ Goto(w, "check_open")
    /\ UNCHANGED <<lock, rows>>

NoReleaseIndex(a, v) == a \in Authorizations /\ v \in Nat  \* mutant: migration 0027 without its index
NoneOpen(a, v) ==
    \A p \in Releases :
        OpenRelease(release[p]) => release[p].authorization # a \/ release[p].authorizationVersion # v

CheckOpen(w) ==
    /\ At(w, "check_open")
    /\ NoneOpen(Request(w).authorization, Request(w).version)
    /\ Goto(w, "create_release")
    /\ UNCHANGED <<lock, rows>>

CreateRelease(w, r) ==
    LET q == Request(w) IN
    /\ At(w, "create_release")
    /\ ~Recorded(q)
    /\ release[r] = NoRelease
    /\ NoneOpen(q.authorization, q.version)
    /\ release' = [release EXCEPT ![r] =
         [NoRelease EXCEPT !.status = "DRAFT", !.version = 1,
                           !.authorization = q.authorization, !.authorizationVersion = q.version]]
    /\ Record(q, r)
    /\ Leave(w)
    /\ UNCHANGED <<lock, authorization, draft>>
-----------------------------------------------------------------------------
(* refreshRelease: a release whose authorization is not in force any more   *)
(* is made STALE, and then its draft, in two transactions.                  *)

(* The first step of a request about a release; release() has looked for    *)
(* its key before.                                                          *)
Turns(w, q) ==
    IF q.kind = "DECIDE" THEN At(w, "load_release") /\ Request(w) = q ELSE At(w, "idle")

StartRefresh(w, q) ==
    LET row == release[q.target] IN
    /\ q.kind \in Refreshing
    /\ Turns(w, q)
    /\ OpenRelease(row) \/ row.status = "RELEASED_FOR_EXECUTION"
    /\ Begin(w, q, "get_authorization", row)
    /\ UNCHANGED <<lock, rows>>

MarkReleaseStale(w) ==
    /\ At(w, "stale_release")
    /\ SaveRelease(Request(w).target, job[w].rel)
    /\ Goto(w, "find_stale_draft")
    /\ UNCHANGED <<lock, authorization, draft, command>>

FindStaleDraft(w) ==
    /\ At(w, "find_stale_draft")
    /\ draft[Request(w).target] # NoDraft
    /\ Goto(w, "stale_draft")
    /\ UNCHANGED <<lock, rows>>

(* A draft carries no version: it is written as it was read, but STALE. *)
MarkDraftStale(w) ==
    /\ At(w, "stale_draft")
    /\ draft' = [draft EXCEPT ![Request(w).target].status = "STALE"]
    /\ Leave(w)
    /\ UNCHANGED <<lock, authorization, release, command>>
-----------------------------------------------------------------------------
(* evaluate: every check passes or every check fails, as the authorization  *)
(* and then the lock are found.                                             *)

CheckAuthorization(w) ==
    /\ At(w, "check_authorization")
    /\ Holding(w, "check_source", authorization[job[w].rel.authorization], job[w].rel)
    /\ UNCHANGED <<lock, rows>>

CheckSource(w) ==
    LET row == job[w].auth  rel == job[w].rel
        passed == SourceMatches(row) /\ InForce(rel, row) IN
    /\ At(w, "check_source")
    /\ Holding(w, "save_release", NoAuthorization,
               [Next1(rel, IF passed THEN "READY_FOR_RELEASE" ELSE "BLOCKED")
                  EXCEPT !.checks = IF passed THEN "PASS" ELSE "FAIL"])
    /\ UNCHANGED <<lock, rows>>

(* assign and withdrawRelease read the release and write it. *)
StartAssignment(w, q) ==
    LET row == release[q.target] IN
    /\ q.kind = "ASSIGN"
    /\ At(w, "idle")
    /\ OpenRelease(row) /\ row.version < MaxVersion
    /\ Begin(w, q, "save_release", [Next1(row, row.status) EXCEPT !.executor = q.executor])
    /\ UNCHANGED <<lock, rows>>

StartReleaseWithdrawal(w, q) ==
    LET row == release[q.target] IN
    /\ q.kind = "WITHDRAW_RELEASE"
    /\ At(w, "idle")
    /\ row # NoRelease /\ row.status # "RELEASED_FOR_EXECUTION"
    /\ row.status = "WITHDRAWN" => row.version < MaxVersion
    /\ Begin(w, q, "save_release", Next1(row, "WITHDRAWN"))
    /\ UNCHANGED <<lock, rows>>

SaveChange(w) ==
    /\ At(w, "save_release")
    /\ SaveRelease(Request(w).target, job[w].rel)
    /\ Leave(w)
    /\ UNCHANGED <<lock, authorization, draft, command>>
-----------------------------------------------------------------------------
(* release: the decision with its command, then the draft of it.  A request *)
(* whose key is on record repairs a missing draft of a released decision.   *)

RecordDecision(w) ==
    LET q == Request(w) IN
    /\ At(w, "record_decision")
    /\ \/ /\ ~Recorded(q)
          /\ SaveRelease(q.target, job[w].rel)
          /\ Record(q, q.target)
       \/ /\ Recorded(q) /\ SameContent(q) /\ command[q.key].target = q.target
          /\ UNCHANGED <<release, command>>
    /\ Holding(w, "reload_release", NoAuthorization, NoRelease)
    /\ UNCHANGED <<lock, authorization, draft>>

ReloadRelease(w) ==
    /\ At(w, "reload_release")
    /\ Holding(w, "find_draft", NoAuthorization, release[Request(w).target])
    /\ UNCHANGED <<lock, rows>>

StartReplay(w, q) ==
    /\ q.kind = "DECIDE"
    /\ At(w, "idle")
    /\ Recorded(q) /\ SameContent(q)
    /\ Begin(w, q, "replay_release", NoRelease)
    /\ UNCHANGED <<lock, rows>>

RepairsAny(rel)   == rel # NoRelease  \* mutant: the release's status is not looked at
RepairsDraft(rel) == rel.status = "RELEASED_FOR_EXECUTION"

ReplayRelease(w) ==
    LET row == release[Request(w).target] IN
    /\ At(w, "replay_release")
    /\ RepairsDraft(row)
    /\ Holding(w, "find_draft", NoAuthorization, row)
    /\ UNCHANGED <<lock, rows>>

FindDraft(w) ==
    /\ At(w, "find_draft")
    /\ draft[Request(w).target] = NoDraft
    /\ Goto(w, "prepare_draft")
    /\ UNCHANGED <<lock, rows>>

(* One draft of a release: a second INSERT does nothing.  What is copied    *)
(* from the authorization never changes.                                    *)
PrepareDraft(w) ==
    LET r == Request(w).target IN
    /\ At(w, "prepare_draft")
    /\ draft[r] = NoDraft
    /\ draft' = [draft EXCEPT ![r] = [status |-> "PREPARED", executor |-> job[w].rel.executor]]
    /\ Leave(w)
    /\ UNCHANGED <<lock, authorization, release, command>>
-----------------------------------------------------------------------------
(* validateTaskCurrent: the draft, the release and the authorization are    *)
(* read in this order; a draft that is not current is made STALE.           *)

StartValidation(w, q) ==
    /\ q.kind = "VALIDATE_DRAFT"
    /\ At(w, "idle")
    /\ draft[q.target] # NoDraft
    /\ Begin(w, q, "validate_release", NoRelease)
    /\ UNCHANGED <<lock, rows>>

ValidateRelease(w) ==
    /\ At(w, "validate_release")
    /\ Holding(w, "validate_authorization", NoAuthorization, release[Request(w).target])
    /\ UNCHANGED <<lock, rows>>

DraftCurrent(rel, row) == rel.status = "RELEASED_FOR_EXECUTION" /\ InForce(rel, row)

ValidateAuthorization(w) ==
    LET row == authorization[job[w].rel.authorization] IN
    /\ At(w, "validate_authorization")
    /\ IF DraftCurrent(job[w].rel, row)
         THEN Leave(w)
         ELSE Holding(w, "stale_draft", NoAuthorization, NoRelease)
    /\ UNCHANGED <<lock, rows>>
-----------------------------------------------------------------------------
Start(w, q) ==
    \/ q.kind = "CREATE_AUTHORIZATION" /\ StartKeyed(w, q, "read_source")
    \/ q.kind = "CONFIRM" /\ StartKeyed(w, q, "get_authorization")
    \/ q.kind = "CREATE_RELEASE" /\ StartKeyed(w, q, "read_authorization")
    \/ q.kind = "DECIDE" /\ StartKeyed(w, q, "load_release")
    \/ StartWithdrawal(w, q) \/ StartRefresh(w, q) \/ StartAssignment(w, q) \/ StartReleaseWithdrawal(w, q)
    \/ StartReplay(w, q) \/ StartValidation(w, q)

Next ==
    \/ \E l \in Locks, v \in LockVersions : SourceChanges(l, v)
    \/ \E w \in Workers :
         \/ \E q \in Requests : Start(w, q)
         \/ ReadSource(w) \/ CheckActive(w) \/ \E a \in Authorizations : CreateAuthorization(w, a)
         \/ GetAuthorization(w) \/ MatchSource(w) \/ EndAuthorization(w)
         \/ Confirm(w) \/ WithdrawAuthorization(w)
         \/ ReadAuthorization(w) \/ CheckOpen(w) \/ \E r \in Releases : CreateRelease(w, r)
         \/ MarkReleaseStale(w) \/ FindStaleDraft(w) \/ MarkDraftStale(w)
         \/ CheckAuthorization(w) \/ CheckSource(w) \/ SaveChange(w)
         \/ RecordDecision(w) \/ ReloadRelease(w) \/ ReplayRelease(w)
         \/ FindDraft(w) \/ PrepareDraft(w)
         \/ ValidateRelease(w) \/ ValidateAuthorization(w)
         \/ Fails(w)

Spec == Init /\ [][Next]_vars
-----------------------------------------------------------------------------
(* Properties. *)

(* A draft that is answered to be current is so at that moment, although the *)
(* draft, the release and the authorization were read one after the other.  *)
ValidatedIsCurrent ==
    \A w \in Workers :
        LET rel == job[w].rel  r == Request(w).target
            row == authorization[rel.authorization]
        IN  At(w, "validate_authorization") /\ DraftCurrent(rel, row) =>
                /\ release[r].status = "RELEASED_FOR_EXECUTION"
                /\ Authorized(authorization[release[r].authorization])
                /\ draft[r].status = "PREPARED"

(* The customer has confirmed a, and a has ended since. *)
Given(a) == authorization[a].status = "AUTHORIZED" \/ authorization[a].version = 3
Over(a)  == authorization[a].version = 3

(* Once its authorization has ended, and no request is past its own look at *)
(* it, a release is never decided.                                          *)
Barred(r) ==
    /\ release[r] # NoRelease /\ ~release[r].decided
    /\ Over(release[r].authorization)
    /\ \A w \in Workers :
         At(w, "match_source") \/ At(w, "record_decision") => Request(w).target # r
BarredStaysBarred == [][\A r \in Releases : Barred(r) => Barred(r)']_vars

(* An authorization that ended before it was confirmed has lapsed. *)
ShownAuthorization(row) ==
    [status |-> CASE row.status = "PENDING_CONFIRMATION" -> "PENDING"
                  [] row.status \in Ended -> IF row.version = 3 THEN "ENDED" ELSE "LAPSED"
                  [] OTHER -> row.status,
     source |-> <<row.lock, row.lockVersion>>]
ShownRelease(rel) ==
    [status |-> CASE OpenRelease(rel) -> "OPEN"
                  [] rel.status = "RELEASED_FOR_EXECUTION" -> "RELEASED"
                  [] OTHER -> rel.status,
     of |-> rel.authorization, passed |-> rel.checks = "PASS",
     executor |-> rel.executor, decided |-> rel.decided]

AuthorityView == [a \in Authorizations |-> ShownAuthorization(authorization[a])]
ReleaseView   == [r \in Releases |-> ShownRelease(release[r])]

Promise == INSTANCE FilingPromise WITH
    Sources <- Locks \X LockVersions, NoSource <- <<NoId, NoId>>, NoAuthority <- NoId,
    NoExecutor <- NoId, authority <- AuthorityView, release <- ReleaseView

(* The service with its stale reads, conflicts and retries keeps FilingPromise. *)
PromiseSpec == Promise!Spec
=============================================================================
