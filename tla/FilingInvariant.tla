-------------------------- MODULE FilingInvariant --------------------------
(***************************************************************************)
(* The types of FilingGovernance and the inductive invariant of its proofs: *)
(* what holds of the rows, and what a request still knows of the row behind *)
(* each record it holds.                                                    *)
(***************************************************************************)
EXTENDS FilingGovernance

AuthorizationStatuses == {NoId, "PENDING_CONFIRMATION", "AUTHORIZED"} \cup Ended
ReleaseStatuses == {NoId, "RELEASED_FOR_EXECUTION", "STALE", "WITHDRAWN"} \cup Open

AuthorizationType ==
    [status: AuthorizationStatuses, version: Nat, lock: Locks \cup {NoId},
     lockVersion: LockVersions \cup {NoId}]
ReleaseType ==
    [status: ReleaseStatuses, version: Nat, authorization: Authorizations \cup {NoId},
     authorizationVersion: Nat, checks: {"UNKNOWN", "PASS", "FAIL"},
     executor: Executors \cup {NoId}, decided: BOOLEAN]
DraftType == [status: {NoId, "PREPARED", "STALE"}, executor: Executors \cup {NoId}]

(* The steps of each kind of request. *)
ForAuthorization == {"read_source", "check_active", "create_authorization"}
ForRelease       == {"read_authorization", "check_open", "create_release"}
Reading          == {"get_authorization", "match_source", "end_authorization"}
Staling          == {"stale_release", "find_stale_draft"}
Evaluating       == {"check_authorization", "check_source"}
Deciding         == {"load_release", "record_decision", "reload_release", "replay_release",
                     "find_draft", "prepare_draft"}
Validating       == {"validate_release", "validate_authorization"}
Steps == {"idle", "confirm", "withdraw_authorization", "stale_draft", "save_release"}
         \cup ForAuthorization \cup ForRelease \cup Reading \cup Staling \cup Evaluating
         \cup Deciding \cup Validating

JobType == [pc: Steps, request: Requests \cup {NoRequest}, auth: AuthorizationType, rel: ReleaseType]

KindFits(pc, kind) ==
    /\ pc \in ForAuthorization => kind = "CREATE_AUTHORIZATION"
    /\ pc \in ForRelease => kind = "CREATE_RELEASE"
    /\ pc \in Reading => kind \in {"CONFIRM"} \cup Refreshing
    /\ pc = "confirm" => kind = "CONFIRM"
    /\ pc = "withdraw_authorization" => kind = "WITHDRAW_AUTHORIZATION"
    /\ pc \in Staling => kind \in Refreshing
    /\ pc = "stale_draft" => kind \in Refreshing \cup {"VALIDATE_DRAFT"}
    /\ pc \in Evaluating => kind = "EVALUATE"
    /\ pc = "save_release" => kind \in {"EVALUATE", "ASSIGN", "WITHDRAW_RELEASE"}
    /\ pc \in Deciding => kind = "DECIDE"
    /\ pc \in Validating => kind = "VALIDATE_DRAFT"

(* Every row, every command and every record a request holds is well formed. *)
TypeOK ==
    /\ lock \in [Locks -> LockVersions]
    /\ authorization \in [Authorizations -> AuthorizationType]
    /\ release \in [Releases -> ReleaseType]
    /\ draft \in [Releases -> DraftType]
    /\ command \in [Keys -> [request: Requests \cup {NoRequest},
                             target: Authorizations \cup Releases \cup {NoId}]]
    /\ job \in [Workers -> JobType]
    /\ \A w \in Workers :
         IF At(w, "idle") THEN job[w] = Idle
                          ELSE Request(w) \in Requests /\ KindFits(job[w].pc, Kind(w))

-----------------------------------------------------------------------------
(* The inductive invariant. *)

AuthorizationFits(row) ==
    /\ row.status = NoId => row = NoAuthorization
    /\ row.status # NoId => row.lock \in Locks /\ row.lockVersion \in LockVersions
    /\ row.status = "PENDING_CONFIRMATION" => row.version = 1
    /\ row.status = "AUTHORIZED" => row.version = 2
    /\ row.status \in Ended => row.version \in {2, 3}

(* A release, in its row or in the hands of a request. *)
ReleaseFits(rel) ==
    /\ rel.status = NoId => rel = NoRelease
    /\ rel.status # NoId =>
         /\ rel.version > 0
         /\ rel.authorization \in Authorizations /\ rel.authorizationVersion = 2
         /\ Given(rel.authorization)
    /\ OpenRelease(rel) => ~rel.decided
    /\ rel.status = "READY_FOR_RELEASE" => rel.checks = "PASS"
    /\ rel.status = "RELEASED_FOR_EXECUTION" => rel.decided
    /\ rel.status = "STALE" => Over(rel.authorization)
    /\ rel.decided => rel.checks = "PASS" /\ rel.executor # NoId
    /\ rel.decided /\ rel.status # "RELEASED_FOR_EXECUTION" => Over(rel.authorization)

DraftFits(r) ==
    draft[r] # NoDraft =>
        /\ release[r].decided
        /\ draft[r].executor = release[r].executor
        /\ draft[r].status = "STALE" => Over(release[r].authorization)
        /\ draft[r].status # NoId

(* A decision and its command are one. *)
DecisionOf(r, k) == command[k].request.kind = "DECIDE" /\ command[k].target = r
CommandFits(k) ==
    /\ command[k] # NoCommand => command[k].request \in Requests
    /\ \A r \in Releases : DecisionOf(r, k) => release[r].decided
Repairable(r) == release[r].decided => \E k \in Keys : DecisionOf(r, k)

RowsFit ==
    /\ \A a \in Authorizations : AuthorizationFits(authorization[a])
    /\ \A r \in Releases : ReleaseFits(release[r]) /\ DraftFits(r) /\ Repairable(r)
    /\ \A k \in Keys : CommandFits(k)

OneActive ==
    \A a, b \in Authorizations :
        /\ Active(authorization[a]) /\ Active(authorization[b])
        /\ authorization[a].lock = authorization[b].lock
        /\ authorization[a].lockVersion = authorization[b].lockVersion
        => a = b
OneOpen ==
    \A r, p \in Releases :
        OpenRelease(release[r]) /\ OpenRelease(release[p])
        /\ release[r].authorization = release[p].authorization => r = p

(* A record as it was read: the row, or an earlier version of it. *)
ReadOf(rec, row) == rec.version <= row.version /\ (rec.version = row.version => rec = row)
(* A record to be written: made of the row, unless that has changed. *)
Written(rec, row, change) == rec.version <= row.version + 1 /\ (rec.version = row.version + 1 => change)

ReleaseRead(rel, r) ==
    /\ ReadOf(rel, release[r]) /\ ReleaseFits(rel) /\ rel.status # NoId
    /\ rel.authorization = release[r].authorization
    /\ rel.decided => release[r].decided /\ rel.executor = release[r].executor

Changes(rel, row, kind) ==
    \/ /\ kind = "WITHDRAW_RELEASE"
       /\ row.status \in Open \cup {"STALE", "WITHDRAWN"}
       /\ rel = Next1(row, "WITHDRAWN")
    \/ /\ kind = "ASSIGN" /\ OpenRelease(row)
       /\ \E x \in Executors : rel = [Next1(row, row.status) EXCEPT !.executor = x]
    \/ /\ kind = "EVALUATE" /\ OpenRelease(row)
       /\ \/ rel = [Next1(row, "READY_FOR_RELEASE") EXCEPT !.checks = "PASS"]
          \/ rel = [Next1(row, "BLOCKED") EXCEPT !.checks = "FAIL"]

(* A request about an authorization. *)
AuthorityJob(w) ==
    LET q == Request(w)  a == AuthorizationOf(w)  auth == job[w].auth IN
    /\ At(w, "check_open") \/ At(w, "create_release") => q.version = 2 /\ Given(q.authorization)
    /\ At(w, "match_source") =>
         /\ Active(auth) /\ ReadOf(auth, authorization[a])
         /\ q.kind \in Refreshing => InForce(job[w].rel, auth)
    /\ At(w, "end_authorization") =>
         /\ auth.status \in Ended
         /\ Written(auth, authorization[a],
              Active(authorization[a]) /\ auth = Next1(authorization[a], auth.status))
    /\ At(w, "confirm") =>
         Written(auth, authorization[q.target],
                 /\ authorization[q.target].status = "PENDING_CONFIRMATION"
                 /\ auth = Next1(authorization[q.target], "AUTHORIZED"))
    /\ At(w, "withdraw_authorization") =>
         Written(auth, authorization[q.target],
                 /\ Active(authorization[q.target])
                 /\ auth = Next1(authorization[q.target], "WITHDRAWN"))

(* A request about a release. *)
Decides(row) == [Next1(row, "RELEASED_FOR_EXECUTION") EXCEPT !.decided = TRUE]
ReleaseJob(w) ==
    LET q == Request(w)  r == q.target  rel == job[w].rel IN
    /\ job[w].pc \in Reading /\ q.kind \in Refreshing =>
         ReleaseRead(rel, r) /\ rel.status \in Open \cup {"RELEASED_FOR_EXECUTION"}
    /\ At(w, "stale_release") =>
         Written(rel, release[r], /\ release[r].status \in Open \cup {"RELEASED_FOR_EXECUTION"}
                                  /\ Over(release[r].authorization)
                                  /\ rel = Next1(release[r], "STALE"))
    /\ job[w].pc \in Evaluating => ReleaseRead(rel, r) /\ OpenRelease(rel)
    /\ At(w, "save_release") => Written(rel, release[r], Changes(rel, release[r], q.kind))
    /\ At(w, "record_decision") =>
         Written(rel, release[r], Releasable(release[r]) /\ rel = Decides(release[r]))

(* A request about a draft. *)
DraftJob(w) ==
    LET r == Request(w).target  rel == job[w].rel IN
    /\ At(w, "find_stale_draft") \/ At(w, "stale_draft") =>
         release[r] # NoRelease /\ Over(release[r].authorization)
    /\ At(w, "reload_release") => release[r].decided
    /\ At(w, "find_draft") \/ At(w, "prepare_draft") \/ At(w, "validate_authorization") =>
         ReleaseRead(rel, r) /\ rel.decided
    /\ job[w].pc \in Validating \cup {"stale_draft"} => draft[r] # NoDraft

JobFits(w) == AuthorityJob(w) /\ ReleaseJob(w) /\ DraftJob(w)
JobsFit == \A w \in Workers : JobFits(w)

(* The invariant the proofs rest on.  It includes what the work package     *)
(* promises of the rows: one active authorization of a lock version, one    *)
(* open release of an authorization, and for every decision its command, so *)
(* that an identical replay can repair a missing draft.                     *)
IInv == TypeOK /\ RowsFit /\ OneActive /\ OneOpen /\ JobsFit
=============================================================================
