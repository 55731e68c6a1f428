---------------------------- MODULE FilingProofs ----------------------------
(***************************************************************************)
(* Proofs about FilingGovernance, for any requests, locks, authorizations, *)
(* releases and keys.                                                      *)
(***************************************************************************)
EXTENDS FilingInvariant, TLAPS

(* The rows a step writes and the records it holds. *)
LEMMA NextAuthorization ==
    ASSUME NEW row \in AuthorizationType, NEW s \in AuthorizationStatuses
    PROVE  /\ Next1(row, s) \in AuthorizationType
           /\ Next1(row, s).status = s /\ Next1(row, s).version = row.version + 1
           /\ Next1(row, s).lock = row.lock /\ Next1(row, s).lockVersion = row.lockVersion
<1> DEFINE n == row.version + 1
<1>1. n \in Nat
  BY DEF AuthorizationType
<1>2. Next1(row, s) = [row EXCEPT !.status = s, !.version = n]
  BY DEF Next1
<1> HIDE DEF n
<1>3. /\ [row EXCEPT !.status = s, !.version = n] \in AuthorizationType
      /\ [row EXCEPT !.status = s, !.version = n].status = s
      /\ [row EXCEPT !.status = s, !.version = n].version = n
      /\ [row EXCEPT !.status = s, !.version = n].lock = row.lock
      /\ [row EXCEPT !.status = s, !.version = n].lockVersion = row.lockVersion
  BY <1>1 DEF AuthorizationType
<1>4. n = row.version + 1
  BY DEF n
<1> QED  BY <1>2, <1>3, <1>4

LEMMA NextRelease ==
    ASSUME NEW row \in ReleaseType, NEW s \in ReleaseStatuses
    PROVE  /\ Next1(row, s) \in ReleaseType
           /\ Next1(row, s).status = s /\ Next1(row, s).version = row.version + 1
           /\ Next1(row, s).authorization = row.authorization
           /\ Next1(row, s).authorizationVersion = row.authorizationVersion
           /\ Next1(row, s).checks = row.checks /\ Next1(row, s).executor = row.executor
           /\ Next1(row, s).decided = row.decided
<1> DEFINE n == row.version + 1
<1>1. n \in Nat
  BY DEF ReleaseType
<1>2. Next1(row, s) = [row EXCEPT !.status = s, !.version = n]
  BY DEF Next1
<1> HIDE DEF n
<1>3. /\ [row EXCEPT !.status = s, !.version = n] \in ReleaseType
      /\ [row EXCEPT !.status = s, !.version = n].status = s
      /\ [row EXCEPT !.status = s, !.version = n].version = n
      /\ [row EXCEPT !.status = s, !.version = n].authorization = row.authorization
      /\ [row EXCEPT !.status = s, !.version = n].authorizationVersion = row.authorizationVersion
      /\ [row EXCEPT !.status = s, !.version = n].checks = row.checks
      /\ [row EXCEPT !.status = s, !.version = n].executor = row.executor
      /\ [row EXCEPT !.status = s, !.version = n].decided = row.decided
  BY <1>1 DEF ReleaseType
<1>4. n = row.version + 1
  BY DEF n
<1> QED  BY <1>2, <1>3, <1>4

LEMMA NoRows ==
    /\ NoAuthorization \in AuthorizationType /\ NoRelease \in ReleaseType /\ NoDraft \in DraftType
    /\ Idle \in JobType
  BY DEF NoAuthorization, NoRelease, NoDraft, Idle, JobType, Steps, AuthorizationType, ReleaseType,
         DraftType, AuthorizationStatuses, ReleaseStatuses

LEMMA RequestFields ==
    ASSUME NEW q \in Requests
    PROVE  /\ q \in RequestType /\ q.version \in Nat
           /\ q.kind \in Keyed => q.key \in Keys
           /\ q.kind \in OfAuthorization => q.target \in Authorizations
           /\ q.kind \in OfRelease => q.target \in Releases
           /\ q.kind = "CREATE_AUTHORIZATION" => q.lock \in Locks /\ q.lockVersion \in LockVersions
           /\ q.kind = "CREATE_RELEASE" => q.authorization \in Authorizations
           /\ q.kind = "ASSIGN" => q.executor \in Executors
<1>1. q \in RequestType
  BY FilingAssumption
<1>2. q.version \in Nat /\ q.key \in Keys \cup {NoId}
  BY <1>1 DEF RequestType
<1> QED  BY <1>1, <1>2, FilingAssumption
-----------------------------------------------------------------------------
(* What a step does to the requests. *)
JobOK(w) ==
    IF At(w, "idle") THEN job[w] = Idle
                     ELSE Request(w) \in Requests /\ KindFits(job[w].pc, Kind(w))
JobsType  == job \in [Workers -> JobType]
Others(w) == \A v \in Workers : v # w => job'[v] = job[v]
Moves(w, step, q, auth, rel) ==
    /\ JobsType' /\ Others(w)
    /\ job'[w].pc = step /\ job'[w].request = q /\ job'[w].auth = auth /\ job'[w].rel = rel

LEMMA JobFields ==
    ASSUME TypeOK, NEW w \in Workers
    PROVE  /\ job[w] \in JobType /\ job[w].auth \in AuthorizationType /\ job[w].rel \in ReleaseType
           /\ job[w].pc # "idle" => Request(w) \in Requests /\ KindFits(job[w].pc, Kind(w))
  BY DEF TypeOK, JobType, At

LEMMA GotoMoves ==
    ASSUME TypeOK, NEW w \in Workers, NEW s \in Steps, Goto(w, s)
    PROVE  Moves(w, s, Request(w), job[w].auth, job[w].rel)
<1> DEFINE j == [job[w] EXCEPT !.pc = s]
<1>1. /\ j \in JobType /\ j.pc = s /\ j.request = job[w].request
      /\ j.auth = job[w].auth /\ j.rel = job[w].rel
  BY DEF TypeOK, JobType
<1>2. job' = [job EXCEPT ![w] = j]
  BY DEF Goto
<1> HIDE DEF j
<1> QED  BY <1>1, <1>2 DEF TypeOK, JobsType, Moves, Others, Request

LEMMA HoldingMoves ==
    ASSUME TypeOK, NEW w \in Workers, NEW s \in Steps, NEW a \in AuthorizationType, NEW r \in ReleaseType,
           Holding(w, s, a, r)
    PROVE  Moves(w, s, Request(w), a, r)
<1> DEFINE j == [job[w] EXCEPT !.pc = s, !.auth = a, !.rel = r]
<1>1. j \in JobType /\ j.pc = s /\ j.request = job[w].request /\ j.auth = a /\ j.rel = r
  BY DEF TypeOK, JobType
<1>2. job' = [job EXCEPT ![w] = j]
  BY DEF Holding
<1> HIDE DEF j
<1> QED  BY <1>1, <1>2 DEF TypeOK, JobsType, Moves, Others, Request

LEMMA BeginMoves ==
    ASSUME TypeOK, NEW w \in Workers, NEW q \in Requests, NEW s \in Steps, NEW r \in ReleaseType,
           Begin(w, q, s, r)
    PROVE  Moves(w, s, q, NoAuthorization, r)
<1> DEFINE j == [Idle EXCEPT !.pc = s, !.request = q, !.rel = r]
<1>1. j \in JobType /\ j.pc = s /\ j.request = q /\ j.auth = NoAuthorization /\ j.rel = r
  BY NoRows DEF JobType, Idle
<1>2. job' = [job EXCEPT ![w] = j]
  BY DEF Begin
<1> HIDE DEF j
<1> QED  BY <1>1, <1>2 DEF TypeOK, JobsType, Moves, Others

LEMMA LeaveMoves ==
    ASSUME TypeOK, NEW w \in Workers, Leave(w)
    PROVE  JobsType' /\ Others(w) /\ job'[w] = Idle
  BY NoRows DEF TypeOK, Leave, JobsType, Others

LEMMA TypesFollow ==
    ASSUME TypeOK, NEW w \in Workers, Others(w), JobsType', JobOK(w)',
           lock' \in [Locks -> LockVersions],
           authorization' \in [Authorizations -> AuthorizationType],
           release' \in [Releases -> ReleaseType],
           draft' \in [Releases -> DraftType],
           command' \in [Keys -> [request: Requests \cup {NoRequest},
                                  target: Authorizations \cup Releases \cup {NoId}]]
    PROVE  TypeOK'
<1>1. \A v \in Workers : JobOK(v)'
  BY DEF TypeOK, Others, JobOK, At, Request, Kind
<1> QED  BY <1>1 DEF TypeOK, JobsType, JobOK
-----------------------------------------------------------------------------
(* Rows only grow; what a request knows of them then stays true. *)
AuthorizationsGrow ==
    \A a \in Authorizations :
        /\ authorization'[a].version >= authorization[a].version
        /\ authorization'[a].version = authorization[a].version => authorization'[a] = authorization[a]
        /\ Given(a) => Given(a)'
        /\ Over(a) => Over(a)'
ReleasesGrow ==
    \A r \in Releases :
        /\ release'[r].version >= release[r].version
        /\ release'[r].version = release[r].version => release'[r] = release[r]
        /\ release[r] # NoRelease =>
              release'[r] # NoRelease /\ release'[r].authorization = release[r].authorization
        /\ release[r].decided => release'[r].decided /\ release'[r].executor = release[r].executor
DraftsGrow == \A r \in Releases : draft[r] # NoDraft => draft'[r] # NoDraft
Grow == AuthorizationsGrow /\ ReleasesGrow /\ DraftsGrow

LEMMA RowTypes ==
    ASSUME TypeOK
    PROVE  /\ \A a \in Authorizations : authorization[a] \in AuthorizationType /\ authorization[a].version \in Nat
           /\ \A r \in Releases : release[r] \in ReleaseType /\ release[r].version \in Nat
  BY DEF TypeOK, AuthorizationType, ReleaseType

LEMMA ReadStays ==
    ASSUME TypeOK, TypeOK', Grow
    PROVE  /\ \A rec \in AuthorizationType, a \in Authorizations :
                ReadOf(rec, authorization[a]) => ReadOf(rec, authorization'[a])
           /\ \A rec \in ReleaseType, r \in Releases :
                ReadOf(rec, release[r]) => ReadOf(rec, release'[r])
<1>1. ASSUME NEW rec \in AuthorizationType, NEW a \in Authorizations, ReadOf(rec, authorization[a])
      PROVE  ReadOf(rec, authorization'[a])
  <2>1. rec.version \in Nat /\ authorization[a].version \in Nat /\ authorization'[a].version \in Nat
    BY RowTypes DEF TypeOK, AuthorizationType
  <2> QED  BY <1>1, <2>1 DEF ReadOf, Grow, AuthorizationsGrow
<1>2. ASSUME NEW rec \in ReleaseType, NEW r \in Releases, ReadOf(rec, release[r])
      PROVE  ReadOf(rec, release'[r])
  <2>1. rec.version \in Nat /\ release[r].version \in Nat /\ release'[r].version \in Nat
    BY RowTypes DEF TypeOK, ReleaseType
  <2> QED  BY <1>2, <2>1 DEF ReadOf, Grow, ReleasesGrow
<1> QED  BY <1>1, <1>2

(* A record to be written is made of its row still, or can no longer be       *)
(* written.                                                                   *)
LEMMA UnwrittenStays ==
    ASSUME TypeOK, TypeOK', Grow
    PROVE  /\ \A rec \in AuthorizationType, a \in Authorizations :
                rec.version <= authorization[a].version + 1 =>
                  /\ rec.version <= authorization'[a].version + 1
                  /\ rec.version = authorization'[a].version + 1 =>
                       /\ rec.version = authorization[a].version + 1
                       /\ authorization'[a] = authorization[a]
           /\ \A rec \in ReleaseType, r \in Releases :
                rec.version <= release[r].version + 1 =>
                  /\ rec.version <= release'[r].version + 1
                  /\ rec.version = release'[r].version + 1 =>
                       rec.version = release[r].version + 1 /\ release'[r] = release[r]
<1>1. ASSUME NEW rec \in AuthorizationType, NEW a \in Authorizations,
             rec.version <= authorization[a].version + 1
      PROVE  /\ rec.version <= authorization'[a].version + 1
             /\ rec.version = authorization'[a].version + 1 =>
                  /\ rec.version = authorization[a].version + 1
                  /\ authorization'[a] = authorization[a]
  <2>1. rec.version \in Nat /\ authorization[a].version \in Nat /\ authorization'[a].version \in Nat
    BY RowTypes DEF TypeOK, AuthorizationType
  <2> QED  BY <1>1, <2>1 DEF Grow, AuthorizationsGrow
<1>2. ASSUME NEW rec \in ReleaseType, NEW r \in Releases, rec.version <= release[r].version + 1
      PROVE  /\ rec.version <= release'[r].version + 1
             /\ rec.version = release'[r].version + 1 =>
                  rec.version = release[r].version + 1 /\ release'[r] = release[r]
  <2>1. rec.version \in Nat /\ release[r].version \in Nat /\ release'[r].version \in Nat
    BY RowTypes DEF TypeOK, ReleaseType
  <2> QED  BY <1>2, <2>1 DEF Grow, ReleasesGrow
<1> QED  BY <1>1, <1>2

(* A release as it was read still fits. *)
IsGiven(row) == row.status = "AUTHORIZED" \/ row.version = 3

LEMMA FitStays ==
    ASSUME TypeOK, Grow, NEW rel \in ReleaseType, ReleaseFits(rel)
    PROVE  /\ rel.status # NoId =>
                rel.authorization \in Authorizations /\ IsGiven(authorization'[rel.authorization])
           /\ rel.status = "STALE" => authorization'[rel.authorization].version = 3
           /\ rel.decided /\ rel.status # "RELEASED_FOR_EXECUTION" =>
                authorization'[rel.authorization].version = 3
<1>1. rel.decided => rel.status # NoId
  BY DEF ReleaseFits, NoRelease
<1>2. rel.status # NoId => rel.authorization \in Authorizations
  BY DEF ReleaseFits
<1>3. \A a \in Authorizations : (Given(a) => Given(a)') /\ (Over(a) => Over(a)')
  BY DEF Grow, AuthorizationsGrow
<1> QED  BY <1>1, <1>2, <1>3 DEF ReleaseFits, NoId, Given, Over, IsGiven

(* What requests rest on stays. *)
LEMMA KeepsAuthorityJob ==
    ASSUME IInv, TypeOK', Grow, NEW v \in Workers, job'[v] = job[v]
    PROVE  AuthorityJob(v)'
<1> DEFINE q == Request(v)  auth == job[v].auth  rel == job[v].rel
<1>0. TypeOK /\ AuthorityJob(v) /\ ReleaseJob(v)
  BY DEF IInv, JobsFit, JobFits
<1>1. auth \in AuthorizationType /\ rel \in ReleaseType
  BY <1>0, JobFields
<1>2. job[v].pc # "idle" => q \in Requests /\ KindFits(job[v].pc, q.kind)
  BY <1>0, JobFields DEF Kind, Request
<1>3. job[v].pc \in {"check_open", "create_release"} =>
        q.version = 2 /\ IsGiven(authorization'[q.authorization])
  <2>1. SUFFICES ASSUME job[v].pc \in {"check_open", "create_release"}
                 PROVE  q.version = 2 /\ IsGiven(authorization'[q.authorization])
    OBVIOUS
  <2>2. q.authorization \in Authorizations /\ Given(q.authorization) /\ q.version = 2
    BY <1>0, <1>2, <2>1, RequestFields DEF At, KindFits, ForRelease, AuthorityJob
  <2> QED  BY <2>2 DEF Grow, AuthorizationsGrow, Given, IsGiven
<1>4. job[v].pc \in Reading => AuthorizationOf(v) \in Authorizations
  <2>1. SUFFICES ASSUME job[v].pc \in Reading PROVE AuthorizationOf(v) \in Authorizations
    OBVIOUS
  <2>2. q \in Requests /\ q.kind \in {"CONFIRM"} \cup Refreshing
    BY <1>2, <2>1 DEF KindFits, Reading
  <2>3. CASE q.kind = "CONFIRM"
    BY <2>2, <2>3, RequestFields DEF AuthorizationOf, Kind, Request, OfAuthorization, OfRelease, Refreshing
  <2>4. CASE q.kind \in Refreshing
    BY <1>0, <2>1, <2>4 DEF ReleaseJob, ReleaseRead, ReleaseFits, AuthorizationOf, Kind, Request, OfRelease
  <2> QED  BY <2>2, <2>3, <2>4
<1>5. AuthorizationOf(v)' = AuthorizationOf(v)
  BY DEF AuthorizationOf, Kind, Request
<1>6. job[v].pc = "match_source" => ReadOf(auth, authorization'[AuthorizationOf(v)])
  BY <1>0, <1>1, <1>4, ReadStays DEF AuthorityJob, At, Reading
<1>7. job[v].pc = "end_authorization" =>
        Written(auth, authorization'[AuthorizationOf(v)],
                /\ Active(authorization'[AuthorizationOf(v)])
                /\ auth = Next1(authorization'[AuthorizationOf(v)], auth.status))
  BY <1>0, <1>1, <1>4, UnwrittenStays DEF AuthorityJob, At, Reading, Written
<1>8. job[v].pc \in {"confirm", "withdraw_authorization"} => q.target \in Authorizations
  BY <1>2, RequestFields DEF KindFits, OfAuthorization
<1>9. job[v].pc = "confirm" =>
        Written(auth, authorization'[q.target],
                /\ authorization'[q.target].status = "PENDING_CONFIRMATION"
                /\ auth = Next1(authorization'[q.target], "AUTHORIZED"))
  BY <1>0, <1>1, <1>8, UnwrittenStays DEF AuthorityJob, At, Request, Written
<1>10. job[v].pc = "withdraw_authorization" =>
         Written(auth, authorization'[q.target],
                 Active(authorization'[q.target]) /\ auth = Next1(authorization'[q.target], "WITHDRAWN"))
  BY <1>0, <1>1, <1>8, UnwrittenStays DEF AuthorityJob, At, Request, Written
<1> QED  BY <1>0, <1>3, <1>5, <1>6, <1>7, <1>9, <1>10 DEF AuthorityJob, At, Request, Given, IsGiven

LEMMA KeepsReleaseRead ==
    ASSUME IInv, TypeOK', Grow, NEW rel \in ReleaseType, NEW r \in Releases, ReleaseRead(rel, r)
    PROVE  /\ ReadOf(rel, release'[r]) /\ release'[r].authorization = release[r].authorization
           /\ rel.decided => release'[r].decided /\ rel.executor = release'[r].executor
<1>1. release[r] # NoRelease
  BY RowTypes DEF IInv, ReleaseRead, ReleaseFits, ReadOf, NoRelease, ReleaseType
<1> QED  BY <1>1, ReadStays DEF IInv, ReleaseRead, Grow, ReleasesGrow

OnRelease == Staling \cup {"stale_draft", "save_release"} \cup Evaluating \cup Deciding \cup Validating

LEMMA OnReleaseTarget ==
    ASSUME TypeOK, NEW v \in Workers
    PROVE  /\ job[v].pc \in OnRelease => Request(v).target \in Releases
           /\ job[v].pc \in Reading /\ Kind(v) \in Refreshing => Request(v).target \in Releases
<1>1. job[v].pc \in OnRelease \cup Reading => Request(v) \in Requests /\ KindFits(job[v].pc, Kind(v))
  BY JobFields DEF OnRelease, Reading, Staling, Evaluating, Deciding, Validating
<1>2. job[v].pc \in OnRelease => Kind(v) \in OfRelease
  BY <1>1 DEF OnRelease, Staling, Evaluating, Deciding, Validating, KindFits, OfRelease, Refreshing
<1>3. Kind(v) \in Refreshing => Kind(v) \in OfRelease
  BY DEF OfRelease
<1> QED  BY <1>1, <1>2, <1>3, RequestFields DEF Kind, Request

LEMMA KeepsRead ==
    ASSUME IInv, TypeOK', Grow, NEW v \in Workers, job'[v] = job[v],
           Request(v).target \in Releases, ReleaseRead(job[v].rel, Request(v).target)
    PROVE  ReleaseRead(job[v].rel, Request(v).target)'
<1> DEFINE q == Request(v)  r == q.target  rel == job[v].rel
<1>1. TypeOK /\ rel \in ReleaseType /\ ReleaseFits(rel)
  BY JobFields DEF IInv, ReleaseRead
<1>2. ReadOf(rel, release'[r]) /\ release'[r].authorization = release[r].authorization
      /\ (rel.decided => release'[r].decided /\ rel.executor = release'[r].executor)
  BY <1>1, KeepsReleaseRead
<1>3. /\ rel.status # NoId => IsGiven(authorization'[rel.authorization])
      /\ rel.status = "STALE" => authorization'[rel.authorization].version = 3
      /\ rel.decided /\ rel.status # "RELEASED_FOR_EXECUTION" =>
           authorization'[rel.authorization].version = 3
  BY <1>1, FitStays
<1>4. ReleaseFits(rel)'
  BY <1>1, <1>3 DEF ReleaseFits, Given, Over, IsGiven, OpenRelease
<1> QED  BY <1>2, <1>4 DEF ReleaseRead, Request

LEMMA KeepsReleaseJob ==
    ASSUME IInv, TypeOK', Grow, NEW v \in Workers, job'[v] = job[v]
    PROVE  ReleaseJob(v)'
<1> DEFINE q == Request(v)  r == q.target  rel == job[v].rel
<1>0. TypeOK /\ ReleaseJob(v)
  BY DEF IInv, JobsFit, JobFits
<1>1. rel \in ReleaseType
  BY <1>0, JobFields
<1>2. ReleaseRead(rel, r) /\ r \in Releases => ReleaseRead(rel, r)'
  BY KeepsRead
<1>3. job[v].pc \in Reading /\ q.kind \in Refreshing => ReleaseRead(rel, r)'
  BY <1>0, <1>2, OnReleaseTarget DEF ReleaseJob, Kind, Request
<1>4. job[v].pc \in Evaluating => ReleaseRead(rel, r)'
  BY <1>0, <1>2, OnReleaseTarget DEF ReleaseJob, OnRelease
<1>5. job[v].pc = "stale_release" =>
        Written(rel, release'[r], /\ release'[r].status \in Open \cup {"RELEASED_FOR_EXECUTION"}
                                  /\ authorization'[release'[r].authorization].version = 3
                                  /\ rel = Next1(release'[r], "STALE"))
  <2>1. SUFFICES ASSUME job[v].pc = "stale_release", rel.version = release'[r].version + 1
                 PROVE  /\ release'[r].status \in Open \cup {"RELEASED_FOR_EXECUTION"}
                        /\ authorization'[release'[r].authorization].version = 3
                        /\ rel = Next1(release'[r], "STALE")
    BY <1>0, <1>1, OnReleaseTarget, UnwrittenStays DEF ReleaseJob, At, OnRelease, Staling, Written
  <2>2. r \in Releases
    BY <1>0, <2>1, OnReleaseTarget DEF OnRelease, Staling
  <2>3. rel.version <= release[r].version + 1
    BY <1>0, <2>1 DEF ReleaseJob, At, Written
  <2>4. rel.version = release[r].version + 1 /\ release'[r] = release[r]
    BY <1>0, <1>1, <2>1, <2>2, <2>3, UnwrittenStays
  <2>5. /\ release[r].status \in Open \cup {"RELEASED_FOR_EXECUTION"}
        /\ Over(release[r].authorization) /\ rel = Next1(release[r], "STALE")
    BY <1>0, <2>1, <2>4 DEF ReleaseJob, At, Written
  <2>6. release[r].authorization \in Authorizations
    BY <2>2, <2>5 DEF IInv, RowsFit, ReleaseFits, Open, NoId
  <2> QED  BY <2>4, <2>5, <2>6 DEF Grow, AuthorizationsGrow, Over
<1>6. job[v].pc = "save_release" => Written(rel, release'[r], Changes(rel, release'[r], q.kind))
  BY <1>0, <1>1, OnReleaseTarget, UnwrittenStays DEF ReleaseJob, At, OnRelease, Written
<1>7. job[v].pc = "record_decision" =>
        Written(rel, release'[r], Releasable(release'[r]) /\ rel = Decides(release'[r]))
  BY <1>0, <1>1, OnReleaseTarget, UnwrittenStays DEF ReleaseJob, At, OnRelease, Deciding, Written
<1> QED
  BY <1>0, <1>3, <1>4, <1>5, <1>6, <1>7 DEF ReleaseJob, At, Request, Over, OpenRelease

LEMMA KeepsDraftJob ==
    ASSUME IInv, TypeOK', Grow, NEW v \in Workers, job'[v] = job[v]
    PROVE  DraftJob(v)'
<1> DEFINE q == Request(v)  r == q.target  rel == job[v].rel
<1>0. TypeOK /\ DraftJob(v)
  BY DEF IInv, JobsFit, JobFits
<1>1. job[v].pc \in {"find_draft", "prepare_draft", "validate_authorization"} => ReleaseRead(rel, r)'
  BY <1>0, KeepsRead, OnReleaseTarget DEF DraftJob, At, OnRelease, Deciding, Validating
<1>2. job[v].pc \in {"find_stale_draft", "stale_draft"} =>
        release'[r] # NoRelease /\ authorization'[release'[r].authorization].version = 3
  <2>1. SUFFICES ASSUME job[v].pc \in {"find_stale_draft", "stale_draft"}
                 PROVE  release'[r] # NoRelease /\ authorization'[release'[r].authorization].version = 3
    OBVIOUS
  <2>2. r \in Releases /\ release[r] # NoRelease /\ Over(release[r].authorization)
    BY <1>0, <2>1, OnReleaseTarget DEF DraftJob, At, OnRelease, Staling
  <2>3. release'[r] # NoRelease /\ release'[r].authorization = release[r].authorization
    BY <2>2 DEF Grow, ReleasesGrow
  <2>4. release[r].authorization \in Authorizations
    BY <2>2 DEF IInv, RowsFit, ReleaseFits
  <2> QED  BY <2>2, <2>3, <2>4 DEF Grow, AuthorizationsGrow, Over
<1>3. job[v].pc = "reload_release" => release'[r].decided
  BY <1>0, OnReleaseTarget DEF DraftJob, At, OnRelease, Deciding, Grow, ReleasesGrow
<1>4. job[v].pc \in Validating \cup {"stale_draft"} => draft'[r] # NoDraft
  BY <1>0, OnReleaseTarget DEF DraftJob, OnRelease, Grow, DraftsGrow
<1> QED
  BY <1>0, <1>1, <1>2, <1>3, <1>4 DEF DraftJob, At, Request, Over

(* The jobs of the others, whatever grows. *)
LEMMA OthersFit ==
    ASSUME IInv, TypeOK', Grow, NEW w \in Workers, Others(w), JobFits(w)'
    PROVE  JobsFit'
<1>1. ASSUME NEW v \in Workers, v # w PROVE JobFits(v)'
  BY <1>1, KeepsAuthorityJob, KeepsReleaseJob, KeepsDraftJob DEF Others, JobFits
<1> QED  BY <1>1 DEF JobsFit

(* A step that touches no row. *)
LEMMA SameRowsGrow ==
    ASSUME TypeOK, UNCHANGED <<authorization, release, draft>>
    PROVE  Grow
<1>1. AuthorizationsGrow /\ ReleasesGrow
  BY RowTypes DEF AuthorizationsGrow, ReleasesGrow, Given, Over
<1> QED  BY <1>1 DEF Grow, DraftsGrow

LEMMA SameRowsFit ==
    ASSUME IInv, UNCHANGED rows
    PROVE  RowsFit' /\ OneActive' /\ OneOpen'
<1>1. UNCHANGED <<authorization, release, draft, command>>
  BY DEF rows
<1>2. \A a \in Authorizations : AuthorizationFits(authorization[a])'
  BY <1>1 DEF IInv, RowsFit, AuthorizationFits
<1>3. \A r \in Releases : ReleaseFits(release[r])'
  BY <1>1 DEF IInv, RowsFit, ReleaseFits, Given, Over, OpenRelease
<1>4. \A r \in Releases : DraftFits(r)' /\ Repairable(r)'
  BY <1>1 DEF IInv, RowsFit, DraftFits, Repairable, DecisionOf, Over
<1>5. \A k \in Keys : CommandFits(k)'
  BY <1>1 DEF IInv, RowsFit, CommandFits, DecisionOf
<1>6. OneActive' /\ OneOpen'
  BY <1>1 DEF IInv, OneActive, OneOpen, Active, OpenRelease
<1> QED  BY <1>2, <1>3, <1>4, <1>5, <1>6 DEF RowsFit

LEMMA JobStep ==
    ASSUME IInv, NEW w \in Workers, JobsType', Others(w), JobOK(w)', UNCHANGED <<lock, rows>>, JobFits(w)'
    PROVE  IInv'
<1>1. TypeOK /\ UNCHANGED <<lock, authorization, release, draft, command>>
  BY DEF IInv, rows
<1>2. TypeOK'
  BY <1>1, TypesFollow DEF TypeOK
<1> QED  BY <1>1, <1>2, SameRowsGrow, SameRowsFit, OthersFit DEF IInv

(* At a step that rests on nothing. *)
LEMMA RestsOnNothing ==
    ASSUME NEW w \in Workers,
           job'[w].pc \in {"idle", "read_source", "check_active", "create_authorization",
                           "read_authorization", "load_release", "replay_release"}
    PROVE  JobFits(w)'
  BY DEF JobFits, AuthorityJob, ReleaseJob, DraftJob, At, Reading, Evaluating, Validating

LEMMA Leaves ==
    ASSUME IInv, NEW w \in Workers, Leave(w)
    PROVE  JobsType' /\ Others(w) /\ JobOK(w)' /\ JobFits(w)'
<1>1. JobsType' /\ Others(w) /\ job'[w] = Idle
  BY LeaveMoves DEF IInv
<1>2. job'[w].pc = "idle"
  BY <1>1 DEF Idle
<1> QED  BY <1>1, <1>2, RestsOnNothing DEF JobOK, At
-----------------------------------------------------------------------------
LEMMA InitIInv == Init => IInv
<1> SUFFICES ASSUME Init PROVE IInv
  OBVIOUS
<1>1. TypeOK
  BY NoRows DEF Init, TypeOK, At, Idle, NoCommand
<1>2. /\ \A a \in Authorizations : authorization[a] = NoAuthorization
      /\ \A r \in Releases : release[r] = NoRelease /\ draft[r] = NoDraft
      /\ \A k \in Keys : command[k] = NoCommand
      /\ \A w \in Workers : job[w].pc = "idle"
  BY DEF Init, Idle
<1>3. RowsFit
  <2>1. \A a \in Authorizations : AuthorizationFits(authorization[a])
    BY <1>2 DEF AuthorizationFits, NoAuthorization, NoId, Ended
  <2>2. \A r \in Releases : ReleaseFits(release[r]) /\ DraftFits(r) /\ Repairable(r)
    BY <1>2 DEF ReleaseFits, DraftFits, Repairable, NoRelease, NoId, OpenRelease, Open
  <2>3. \A k \in Keys : CommandFits(k)
    BY <1>2 DEF CommandFits, DecisionOf, NoCommand, NoRequest, NoId
  <2> QED  BY <2>1, <2>2, <2>3 DEF RowsFit
<1>4. OneActive /\ OneOpen
  BY <1>2 DEF OneActive, OneOpen, Active, OpenRelease, Open, NoAuthorization, NoRelease, NoId
<1>5. JobsFit
  BY <1>2 DEF JobsFit, JobFits, AuthorityJob, ReleaseJob, DraftJob, At, Reading, Evaluating, Validating
<1> QED  BY <1>1, <1>3, <1>4, <1>5 DEF IInv

LEMMA SourceChangesKeeps ==
    ASSUME IInv, NEW l \in Locks, NEW v \in LockVersions, SourceChanges(l, v)
    PROVE  IInv'
<1>1. UNCHANGED <<authorization, release, draft, command, job>> /\ UNCHANGED rows
  BY DEF SourceChanges, rows
<1>2. TypeOK'
  <2>1. lock' \in [Locks -> LockVersions]
    BY DEF SourceChanges, IInv, TypeOK
  <2> QED  BY <1>1, <2>1 DEF IInv, TypeOK, At, Request, Kind
<1>3. Grow
  BY <1>1, SameRowsGrow DEF IInv
<1>4. JobsFit'
  BY <1>1, <1>2, <1>3, KeepsAuthorityJob, KeepsReleaseJob, KeepsDraftJob DEF JobsFit, JobFits
<1> QED  BY <1>1, <1>2, <1>4, SameRowsFit DEF IInv

LEMMA FailsKeeps == ASSUME IInv, NEW w \in Workers, Fails(w) PROVE IInv'
  BY Leaves, JobStep DEF Fails
-----------------------------------------------------------------------------
(* Steps that touch no row. *)

LEMMA MovesOK ==
    ASSUME NEW w \in Workers, NEW s \in Steps, NEW q \in Requests, NEW a, NEW rel, Moves(w, s, q, a, rel),
           s # "idle", KindFits(s, q.kind)
    PROVE  JobsType' /\ Others(w) /\ JobOK(w)'
  BY DEF Moves, JobOK, At, Request, Kind

LEMMA ReadMoves ==
    ASSUME NEW w \in Workers, NEW q, NEW rel, job'[w].request = q, job'[w].rel = rel, UNCHANGED rows,
           ReleaseRead(rel, q.target)
    PROVE  ReleaseRead(job[w].rel, Request(w).target)'
  BY DEF ReleaseRead, ReadOf, ReleaseFits, Given, Over, OpenRelease, Request, rows

LEMMA ReadsRelease ==
    ASSUME IInv, NEW r \in Releases, release[r].status # NoId
    PROVE  ReleaseRead(release[r], r)
<1>1. release[r].version \in Nat /\ ReleaseFits(release[r])
  BY RowTypes DEF IInv, RowsFit
<1> QED  BY <1>1 DEF ReleaseRead, ReadOf

LEMMA StartKeyedKeeps ==
    ASSUME IInv, NEW w \in Workers, NEW q \in Requests, NEW s \in Steps, StartKeyed(w, q, s),
           \/ q.kind = "CREATE_AUTHORIZATION" /\ s = "read_source"
           \/ q.kind = "CONFIRM" /\ s = "get_authorization"
           \/ q.kind = "CREATE_RELEASE" /\ s = "read_authorization"
           \/ q.kind = "DECIDE" /\ s = "load_release"
    PROVE  IInv'
<1>1. Moves(w, s, q, NoAuthorization, NoRelease)
  BY BeginMoves, NoRows DEF StartKeyed, IInv
<1>2. KindFits(s, q.kind) /\ s # "idle"
  BY DEF KindFits, ForAuthorization, ForRelease, Reading, Staling, Evaluating, Deciding, Validating
<1>3. JobsType' /\ Others(w) /\ JobOK(w)'
  BY <1>1, <1>2, MovesOK
<1>4. CASE q.kind = "CONFIRM" /\ s = "get_authorization"
  <2>1. JobFits(w)'
    BY <1>1, <1>4 DEF Moves, JobFits, AuthorityJob, ReleaseJob, DraftJob, At, Request, Evaluating, Validating,
                      Refreshing
  <2> QED  BY <1>3, <2>1, JobStep DEF StartKeyed
<1>5. CASE s # "get_authorization"
  BY <1>1, <1>3, <1>5, RestsOnNothing, JobStep DEF StartKeyed, Moves
<1> QED  BY <1>4, <1>5

LEMMA StartWithdrawalKeeps ==
    ASSUME IInv, NEW w \in Workers, NEW q \in Requests, StartWithdrawal(w, q)
    PROVE  IInv'
<1> DEFINE row == authorization[q.target]  next == Next1(row, "WITHDRAWN")
           j == [Idle EXCEPT !.pc = "withdraw_authorization", !.request = q, !.auth = next]
<1>1. q.target \in Authorizations /\ row \in AuthorizationType /\ Active(row) /\ q.kind = "WITHDRAW_AUTHORIZATION"
  BY RequestFields, RowTypes DEF StartWithdrawal, OfAuthorization, IInv
<1>2. next \in AuthorizationType /\ next.version = row.version + 1
  BY <1>1, NextAuthorization DEF AuthorizationStatuses, Ended
<1>3. next = Next1(authorization[q.target], "WITHDRAWN")
  OBVIOUS
<1> HIDE DEF next
<1>4. /\ j \in JobType /\ j.pc = "withdraw_authorization" /\ j.request = q /\ j.auth = next
      /\ j.rel = NoRelease
  BY <1>2, NoRows DEF JobType, Idle, Steps
<1>5. job' = [job EXCEPT ![w] = j]
  BY <1>3 DEF StartWithdrawal
<1> HIDE DEF j
<1>6. Moves(w, "withdraw_authorization", q, next, NoRelease)
  BY <1>4, <1>5 DEF IInv, TypeOK, JobsType, Moves, Others
<1>7. JobsType' /\ Others(w) /\ JobOK(w)'
  BY <1>1, <1>6, MovesOK DEF KindFits, Steps, ForAuthorization, ForRelease, Reading, Staling, Evaluating,
                             Deciding, Validating
<1>8. AuthorityJob(w)'
  <2>1. authorization' = authorization
    BY DEF StartWithdrawal, rows
  <2>2. row.version \in Nat
    BY <1>1 DEF AuthorizationType
  <2> QED  BY <1>1, <1>2, <1>3, <1>6, <2>1, <2>2 DEF Moves, AuthorityJob, At, Request, Written, Active
<1>9. JobFits(w)'
  BY <1>6, <1>8 DEF Moves, JobFits, ReleaseJob, DraftJob, At, Reading, Evaluating, Validating
<1> QED  BY <1>7, <1>9, JobStep DEF StartWithdrawal

(* A request that begins with a release it has read. *)
LEMMA StartRefreshKeeps ==
    ASSUME IInv, NEW w \in Workers, NEW q \in Requests, StartRefresh(w, q)
    PROVE  IInv'
<1> DEFINE row == release[q.target]
<1>1. q.target \in Releases /\ row \in ReleaseType /\ q.kind \in Refreshing
  BY RequestFields, RowTypes DEF StartRefresh, OfRelease, IInv
<1>2. row.status \in Open \cup {"RELEASED_FOR_EXECUTION"} /\ row.status # NoId
  BY DEF StartRefresh, OpenRelease, Open, NoId
<1>3. Moves(w, "get_authorization", q, NoAuthorization, row)
  BY <1>1, BeginMoves DEF StartRefresh, IInv, Steps, Reading
<1>4. KindFits("get_authorization", q.kind) /\ "get_authorization" \in Steps
  BY <1>1 DEF KindFits, ForAuthorization, ForRelease, Reading, Staling, Evaluating, Deciding, Validating, Steps
<1>5. JobsType' /\ Others(w) /\ JobOK(w)'
  BY <1>3, <1>4, MovesOK
<1>6. ReleaseRead(job[w].rel, Request(w).target)'
  BY <1>1, <1>2, <1>3, ReadsRelease, ReadMoves DEF Moves, StartRefresh
<1>7. JobFits(w)'
  BY <1>2, <1>3, <1>6 DEF Moves, JobFits, AuthorityJob, ReleaseJob, DraftJob, At, Evaluating, Validating
<1> QED  BY <1>5, <1>7, JobStep DEF StartRefresh

(* assign, withdrawRelease, evaluate and the decision: what they will write. *)
LEMMA ChangedRelease ==
    ASSUME NEW row \in ReleaseType, NEW s \in ReleaseStatuses, NEW x \in Executors \cup {NoId},
           NEW c \in {"UNKNOWN", "PASS", "FAIL"}, NEW b \in BOOLEAN
    PROVE  /\ [Next1(row, s) EXCEPT !.executor = x] \in ReleaseType
           /\ [Next1(row, s) EXCEPT !.checks = c] \in ReleaseType
           /\ [Next1(row, s) EXCEPT !.decided = b] \in ReleaseType
           /\ [Next1(row, s) EXCEPT !.executor = x].version = row.version + 1
           /\ [Next1(row, s) EXCEPT !.checks = c].version = row.version + 1
           /\ [Next1(row, s) EXCEPT !.decided = b].version = row.version + 1
<1> DEFINE n == Next1(row, s)
<1>1. n \in ReleaseType /\ n.version = row.version + 1
  BY NextRelease
<1> HIDE DEF n
<1>2. /\ [n EXCEPT !.executor = x] \in ReleaseType /\ [n EXCEPT !.executor = x].version = n.version
      /\ [n EXCEPT !.checks = c] \in ReleaseType /\ [n EXCEPT !.checks = c].version = n.version
      /\ [n EXCEPT !.decided = b] \in ReleaseType /\ [n EXCEPT !.decided = b].version = n.version
  BY <1>1 DEF ReleaseType
<1> QED  BY <1>1, <1>2 DEF n

(* A change that is made of the row as it is. *)
LEMMA ChangeMoves ==
    ASSUME IInv, NEW w \in Workers, NEW q \in Requests, NEW rel \in ReleaseType, NEW a,
           Moves(w, "save_release", q, a, rel), UNCHANGED <<lock, rows>>,
           q.kind \in {"EVALUATE", "ASSIGN", "WITHDRAW_RELEASE"},
           Written(rel, release[q.target], Changes(rel, release[q.target], q.kind))
    PROVE  IInv'
<1>1. KindFits("save_release", q.kind)
  BY DEF KindFits, ForAuthorization, ForRelease, Reading, Staling, Evaluating, Deciding, Validating
<1>2. JobsType' /\ Others(w) /\ JobOK(w)'
  BY <1>1, MovesOK DEF Steps
<1>3. release' = release
  BY DEF rows
<1>4. JobFits(w)'
  BY <1>3 DEF Moves, JobFits, AuthorityJob, ReleaseJob, DraftJob, At, Request, Reading, Evaluating, Validating
<1> QED  BY <1>2, <1>4, JobStep

LEMMA StartAssignmentKeeps ==
    ASSUME IInv, NEW w \in Workers, NEW q \in Requests, StartAssignment(w, q)
    PROVE  IInv'
<1> DEFINE row == release[q.target]  rel == [Next1(row, row.status) EXCEPT !.executor = q.executor]
<1>1. q.target \in Releases /\ row \in ReleaseType /\ q.executor \in Executors /\ q.kind = "ASSIGN"
  BY RequestFields, RowTypes DEF StartAssignment, OfRelease, IInv
<1>2. row.status \in ReleaseStatuses /\ row.version \in Nat
  BY <1>1 DEF ReleaseType
<1>3. rel \in ReleaseType /\ rel.version = row.version + 1
  BY <1>1, <1>2, ChangedRelease
<1>4. Changes(rel, row, q.kind)
  BY <1>1 DEF StartAssignment, Changes
<1>5. Begin(w, q, "save_release", rel) /\ UNCHANGED <<lock, rows>>
  BY DEF StartAssignment
<1> HIDE DEF rel
<1>6. Moves(w, "save_release", q, NoAuthorization, rel)
  BY <1>3, <1>5, BeginMoves DEF IInv, Steps
<1> QED  BY <1>1, <1>2, <1>3, <1>4, <1>5, <1>6, ChangeMoves DEF Written

LEMMA StartReleaseWithdrawalKeeps ==
    ASSUME IInv, NEW w \in Workers, NEW q \in Requests, StartReleaseWithdrawal(w, q)
    PROVE  IInv'
<1> DEFINE row == release[q.target]  rel == Next1(row, "WITHDRAWN")
<1>1. q.target \in Releases /\ row \in ReleaseType /\ q.kind = "WITHDRAW_RELEASE"
  BY RequestFields, RowTypes DEF StartReleaseWithdrawal, OfRelease, IInv
<1>2. row.version \in Nat /\ row.status \in Open \cup {"STALE", "WITHDRAWN"}
  <2>1. row # NoRelease /\ row.status # "RELEASED_FOR_EXECUTION"
    BY DEF StartReleaseWithdrawal
  <2>2. row.status # NoId
    BY <1>1, <2>1 DEF IInv, RowsFit, ReleaseFits
  <2> QED  BY <1>1, <2>1, <2>2 DEF ReleaseType, ReleaseStatuses
<1>3. rel \in ReleaseType /\ rel.version = row.version + 1
  BY <1>1, NextRelease DEF ReleaseStatuses
<1>4. Changes(rel, row, q.kind)
  BY <1>1, <1>2 DEF Changes
<1>5. Begin(w, q, "save_release", rel) /\ UNCHANGED <<lock, rows>>
  BY DEF StartReleaseWithdrawal
<1> HIDE DEF rel
<1>6. Moves(w, "save_release", q, NoAuthorization, rel)
  BY <1>3, <1>5, BeginMoves DEF IInv, Steps
<1> QED  BY <1>1, <1>2, <1>3, <1>4, <1>5, <1>6, ChangeMoves DEF Written

LEMMA StartReplayKeeps ==
    ASSUME IInv, NEW w \in Workers, NEW q \in Requests, StartReplay(w, q)
    PROVE  IInv'
<1>1. Moves(w, "replay_release", q, NoAuthorization, NoRelease)
  BY BeginMoves, NoRows DEF StartReplay, IInv, Steps, Deciding
<1>2. KindFits("replay_release", q.kind)
  BY DEF StartReplay, KindFits, ForAuthorization, ForRelease, Reading, Staling, Evaluating, Deciding, Validating
<1>3. JobsType' /\ Others(w) /\ JobOK(w)'
  BY <1>1, <1>2, MovesOK DEF Steps, Deciding
<1> QED  BY <1>1, <1>3, RestsOnNothing, JobStep DEF StartReplay, Moves

LEMMA StartValidationKeeps ==
    ASSUME IInv, NEW w \in Workers, NEW q \in Requests, StartValidation(w, q)
    PROVE  IInv'
<1>1. Moves(w, "validate_release", q, NoAuthorization, NoRelease)
  BY BeginMoves, NoRows DEF StartValidation, IInv, Steps, Validating
<1>2. KindFits("validate_release", q.kind)
  BY DEF StartValidation, KindFits, ForAuthorization, ForRelease, Reading, Staling, Evaluating, Deciding, Validating
<1>3. JobsType' /\ Others(w) /\ JobOK(w)'
  BY <1>1, <1>2, MovesOK DEF Steps, Validating
<1>4. draft' = draft /\ draft[q.target] # NoDraft
  BY DEF StartValidation, rows
<1>5. JobFits(w)'
  BY <1>1, <1>4 DEF Moves, JobFits, AuthorityJob, ReleaseJob, DraftJob, At, Request, Reading, Evaluating
<1> QED  BY <1>3, <1>5, JobStep DEF StartValidation

LEMMA StartKeeps ==
    ASSUME IInv, NEW w \in Workers, NEW q \in Requests, Start(w, q)
    PROVE  IInv'
<1>1. /\ "read_source" \in Steps /\ "get_authorization" \in Steps
      /\ "read_authorization" \in Steps /\ "load_release" \in Steps
  BY DEF Steps, ForAuthorization, ForRelease, Reading, Deciding
<1> QED
  BY <1>1, StartKeyedKeeps, StartWithdrawalKeeps, StartRefreshKeeps, StartAssignmentKeeps,
     StartReleaseWithdrawalKeeps, StartReplayKeeps, StartValidationKeeps DEF Start
-----------------------------------------------------------------------------
(* A request that goes on with what it has. *)
LEMMA GoesOn ==
    ASSUME IInv, NEW w \in Workers, NEW s \in Steps, job[w].pc # "idle", s # "idle", Goto(w, s),
           KindFits(s, Kind(w))
    PROVE  /\ JobsType' /\ Others(w) /\ JobOK(w)' /\ job'[w].pc = s
           /\ job'[w].request = job[w].request /\ job'[w].auth = job[w].auth /\ job'[w].rel = job[w].rel
<1>1. Moves(w, s, Request(w), job[w].auth, job[w].rel)
  BY GotoMoves DEF IInv
<1>2. Request(w) \in Requests /\ KindFits(s, Request(w).kind)
  BY JobFields DEF IInv, Kind, Request
<1>3. JobsType' /\ Others(w) /\ JobOK(w)'
  BY <1>1, <1>2, MovesOK
<1> QED  BY <1>1, <1>3 DEF Moves, Request

LEMMA CreationKeeps ==
    ASSUME IInv, NEW w \in Workers, ReadSource(w) \/ CheckActive(w)
    PROVE  IInv'
<1> DEFINE s == IF At(w, "read_source") THEN "check_active" ELSE "create_authorization"
<1>1. job[w].pc \in ForAuthorization /\ Goto(w, s) /\ UNCHANGED <<lock, rows>>
  BY DEF ReadSource, CheckActive, At, ForAuthorization
<1>2. Kind(w) = "CREATE_AUTHORIZATION"
  BY <1>1, JobFields DEF IInv, KindFits, ForAuthorization
<1>3. s \in {"check_active", "create_authorization"}
  OBVIOUS
<1> HIDE DEF s
<1>4. KindFits(s, Kind(w))
  BY <1>2, <1>3 DEF KindFits, ForAuthorization, ForRelease, Reading, Staling, Evaluating, Deciding, Validating
<1>5. JobsType' /\ Others(w) /\ JobOK(w)' /\ job'[w].pc = s
  BY <1>1, <1>3, <1>4, GoesOn DEF Steps, ForAuthorization
<1> QED  BY <1>1, <1>3, <1>5, RestsOnNothing, JobStep

LEMMA ReviewKeeps ==
    ASSUME IInv, NEW w \in Workers, ReadAuthorization(w) \/ CheckOpen(w)
    PROVE  IInv'
<1> DEFINE s == IF At(w, "read_authorization") THEN "check_open" ELSE "create_release"  q == Request(w)
<1>1. job[w].pc \in {"read_authorization", "check_open"} /\ Goto(w, s) /\ UNCHANGED <<lock, rows>>
  BY DEF ReadAuthorization, CheckOpen, At
<1>2. Kind(w) = "CREATE_RELEASE" /\ q \in Requests
  BY <1>1, JobFields DEF IInv, KindFits, ForRelease
<1>3. s \in {"check_open", "create_release"}
  OBVIOUS
<1>4. q.authorization \in Authorizations
  BY <1>2, RequestFields DEF Kind, Request
<1>5. q.version = 2 /\ Given(q.authorization)
  <2>1. CASE ReadAuthorization(w)
    BY <1>4, <2>1 DEF ReadAuthorization, IInv, RowsFit, AuthorizationFits, Authorized, Given
  <2>2. CASE CheckOpen(w)
    BY <2>2 DEF CheckOpen, IInv, JobsFit, JobFits, AuthorityJob, At
  <2> QED  BY <2>1, <2>2
<1> HIDE DEF s
<1>6. KindFits(s, Kind(w))
  BY <1>2, <1>3 DEF KindFits, ForAuthorization, ForRelease, Reading, Staling, Evaluating, Deciding, Validating
<1>7. /\ JobsType' /\ Others(w) /\ JobOK(w)' /\ job'[w].pc = s
      /\ job'[w].request = job[w].request
  BY <1>1, <1>3, <1>6, GoesOn DEF Steps, ForRelease
<1>8. authorization' = authorization
  BY <1>1 DEF rows
<1>9. JobFits(w)'
  BY <1>3, <1>5, <1>7, <1>8 DEF JobFits, AuthorityJob, ReleaseJob, DraftJob, At, Request, Given, Reading,
                               Evaluating, Validating
<1> QED  BY <1>1, <1>7, <1>9, JobStep
-----------------------------------------------------------------------------
(* getAuthorization and what follows it. *)
LEMMA ReadingFields ==
    ASSUME IInv, NEW w \in Workers, job[w].pc \in Reading
    PROVE  /\ Request(w) \in Requests /\ Kind(w) \in {"CONFIRM"} \cup Refreshing
           /\ AuthorizationOf(w) \in Authorizations
           /\ Kind(w) = "CONFIRM" => AuthorizationOf(w) = Request(w).target
           /\ Kind(w) \in Refreshing =>
                /\ Request(w).target \in Releases /\ ReleaseRead(job[w].rel, Request(w).target)
                /\ AuthorizationOf(w) = job[w].rel.authorization
                /\ job[w].rel.status \in Open \cup {"RELEASED_FOR_EXECUTION"}
                /\ job[w].rel.authorizationVersion = 2 /\ Given(job[w].rel.authorization)
<1>1. TypeOK /\ ReleaseJob(w)
  BY DEF IInv, JobsFit, JobFits
<1>2. Request(w) \in Requests /\ Kind(w) \in {"CONFIRM"} \cup Refreshing
  BY <1>1, JobFields DEF KindFits, Reading
<1>3. CASE Kind(w) = "CONFIRM"
  BY <1>2, <1>3, RequestFields DEF AuthorizationOf, Kind, Request, OfAuthorization, OfRelease, Refreshing
<1>4. CASE Kind(w) \in Refreshing
  <2>1. Request(w).target \in Releases /\ ReleaseRead(job[w].rel, Request(w).target)
        /\ job[w].rel.status \in Open \cup {"RELEASED_FOR_EXECUTION"}
    BY <1>1, <1>4, OnReleaseTarget DEF ReleaseJob, Kind, Request
  <2>2. /\ job[w].rel.authorization \in Authorizations
        /\ job[w].rel.authorizationVersion = 2 /\ Given(job[w].rel.authorization)
    BY <2>1 DEF ReleaseRead, ReleaseFits
  <2>3. AuthorizationOf(w) = job[w].rel.authorization /\ Kind(w) # "CONFIRM"
    BY <1>4 DEF AuthorizationOf, OfRelease, Refreshing
  <2> QED  BY <1>2, <2>1, <2>2, <2>3
<1> QED  BY <1>2, <1>3, <1>4

LEMMA GotCases ==
    ASSUME IInv, NEW w \in Workers, job[w].pc \in Reading, NEW row \in AuthorizationType, Got(w, row)
    PROVE  \/ /\ Kind(w) = "CONFIRM" /\ row.status = "PENDING_CONFIRMATION"
              /\ Moves(w, "confirm", Request(w), Next1(row, "AUTHORIZED"), NoRelease)
           \/ /\ Kind(w) = "EVALUATE" /\ InForce(job[w].rel, row) /\ OpenRelease(job[w].rel)
              /\ Moves(w, "check_authorization", Request(w), NoAuthorization, job[w].rel)
           \/ /\ Kind(w) = "DECIDE" /\ InForce(job[w].rel, row) /\ Releasable(job[w].rel)
              /\ Moves(w, "record_decision", Request(w), NoAuthorization, Decides(job[w].rel))
           \/ /\ Kind(w) \in Refreshing /\ ~InForce(job[w].rel, row)
              /\ Moves(w, "stale_release", Request(w), NoAuthorization, Next1(job[w].rel, "STALE"))
<1> DEFINE rel == job[w].rel
<1>1. TypeOK /\ rel \in ReleaseType
  BY JobFields DEF IInv
<1>2. /\ Next1(row, "AUTHORIZED") \in AuthorizationType
      /\ Next1(rel, "STALE") \in ReleaseType
  BY <1>1, NextAuthorization, NextRelease DEF AuthorizationStatuses, ReleaseStatuses
<1>3. Decides(rel) \in ReleaseType
  BY <1>1, ChangedRelease DEF Decides, ReleaseStatuses
<1>4. {"confirm", "check_authorization", "record_decision", "stale_release"} \subseteq Steps
  BY DEF Steps, Evaluating, Deciding, Staling
<1>5. CASE Kind(w) = "CONFIRM" /\ row.status = "PENDING_CONFIRMATION"
           /\ Holding(w, "confirm", Next1(row, "AUTHORIZED"), NoRelease)
  BY <1>1, <1>2, <1>4, <1>5, NoRows, HoldingMoves
<1>6. CASE Kind(w) = "EVALUATE" /\ InForce(rel, row) /\ OpenRelease(rel)
           /\ Holding(w, "check_authorization", NoAuthorization, rel)
  BY <1>1, <1>4, <1>6, NoRows, HoldingMoves
<1>7. CASE Kind(w) = "DECIDE" /\ InForce(rel, row) /\ Releasable(rel)
           /\ Holding(w, "record_decision", NoAuthorization, Decides(rel))
  BY <1>1, <1>3, <1>4, <1>7, NoRows, HoldingMoves
<1>8. CASE Kind(w) \in Refreshing /\ ~InForce(rel, row)
           /\ Holding(w, "stale_release", NoAuthorization, Next1(rel, "STALE"))
  BY <1>1, <1>2, <1>4, <1>8, NoRows, HoldingMoves
<1> QED  BY <1>5, <1>6, <1>7, <1>8 DEF Got, Refreshed, Decides

(* What becomes of a release that was read: a later version of it as it was,  *)
(* or the next version of what it is.                                         *)
LEMMA NextOfRead ==
    ASSUME IInv, NEW r \in Releases, NEW rel \in ReleaseType, ReleaseRead(rel, r),
           NEW next \in ReleaseType, next.version = rel.version + 1
    PROVE  /\ next.version <= release[r].version + 1
           /\ next.version = release[r].version + 1 => rel = release[r]
<1>1. rel.version \in Nat /\ release[r].version \in Nat /\ rel.version <= release[r].version
      /\ (rel.version = release[r].version => rel = release[r])
  BY RowTypes DEF IInv, ReleaseType, ReleaseRead, ReadOf
<1> QED  BY <1>1

LEMMA GotKeeps ==
    ASSUME IInv, NEW w \in Workers, job[w].pc \in Reading, NEW row \in AuthorizationType, Got(w, row),
           UNCHANGED <<lock, rows>>,
           Kind(w) = "CONFIRM" => ReadOf(row, authorization[Request(w).target]),
           Kind(w) \in Refreshing /\ ~InForce(job[w].rel, row) => Over(job[w].rel.authorization)
    PROVE  IInv'
<1> DEFINE rel == job[w].rel  q == Request(w)  r == q.target
<1>0. TypeOK /\ rel \in ReleaseType /\ rel.version \in Nat
  BY JobFields DEF IInv, ReleaseType
<1>1. UNCHANGED <<authorization, release, draft>>
  BY DEF rows
<1>2. q \in Requests /\ q.kind = Kind(w)
  BY ReadingFields DEF Kind, Request
<1>3. {"confirm", "check_authorization", "record_decision", "stale_release"} \subseteq Steps
  BY DEF Steps, Evaluating, Deciding, Staling
<1>4. CASE /\ Kind(w) = "CONFIRM" /\ row.status = "PENDING_CONFIRMATION"
           /\ Moves(w, "confirm", q, Next1(row, "AUTHORIZED"), NoRelease)
  <2> DEFINE next == Next1(row, "AUTHORIZED")
  <2>1. KindFits("confirm", q.kind)
    BY <1>2, <1>4 DEF KindFits, ForAuthorization, ForRelease, Reading, Staling, Evaluating, Deciding, Validating
  <2>2. JobsType' /\ Others(w) /\ JobOK(w)'
    BY <1>2, <1>3, <1>4, <2>1, MovesOK
  <2>3. r \in Authorizations /\ ReadOf(row, authorization[r])
    BY <1>4, ReadingFields
  <2>4. next.version = row.version + 1 /\ row.version \in Nat /\ authorization[r].version \in Nat
    BY <1>0, <2>3, RowTypes, NextAuthorization DEF AuthorizationStatuses, AuthorizationType
  <2>5. Written(next, authorization[r], /\ authorization[r].status = "PENDING_CONFIRMATION"
                                       /\ next = Next1(authorization[r], "AUTHORIZED"))
    BY <1>4, <2>3, <2>4 DEF ReadOf, Written
  <2> HIDE DEF next
  <2>6. JobFits(w)'
    BY <1>1, <1>4, <2>5 DEF next, Moves, JobFits, AuthorityJob, ReleaseJob, DraftJob, At, Request, Reading,
                            Evaluating, Validating
  <2> QED  BY <2>2, <2>6, JobStep
<1>5. CASE /\ Kind(w) = "EVALUATE" /\ InForce(rel, row) /\ OpenRelease(rel)
           /\ Moves(w, "check_authorization", q, NoAuthorization, rel)
  <2>1. KindFits("check_authorization", q.kind)
    BY <1>2, <1>5 DEF KindFits, ForAuthorization, ForRelease, Reading, Staling, Evaluating, Deciding, Validating
  <2>2. JobsType' /\ Others(w) /\ JobOK(w)'
    BY <1>2, <1>3, <1>5, <2>1, MovesOK
  <2>3. ReleaseRead(job[w].rel, Request(w).target)'
    BY <1>5, ReadingFields, ReadMoves DEF Moves, Refreshing
  <2>4. JobFits(w)'
    BY <1>5, <2>3 DEF Moves, JobFits, AuthorityJob, ReleaseJob, DraftJob, At, OpenRelease, Reading, Validating
  <2> QED  BY <2>2, <2>4, JobStep
<1>6. CASE /\ Kind(w) = "DECIDE" /\ InForce(rel, row) /\ Releasable(rel)
           /\ Moves(w, "record_decision", q, NoAuthorization, Decides(rel))
  <2>1. KindFits("record_decision", q.kind)
    BY <1>2, <1>6 DEF KindFits, ForAuthorization, ForRelease, Reading, Staling, Evaluating, Deciding, Validating
  <2>2. JobsType' /\ Others(w) /\ JobOK(w)'
    BY <1>2, <1>3, <1>6, <2>1, MovesOK
  <2>3. r \in Releases /\ ReleaseRead(rel, r)
    BY <1>6, ReadingFields DEF Refreshing
  <2>4. Decides(rel) \in ReleaseType /\ Decides(rel).version = rel.version + 1
    BY <1>0, ChangedRelease DEF Decides, ReleaseStatuses
  <2>5. Written(Decides(rel), release[r], Releasable(release[r]) /\ Decides(rel) = Decides(release[r]))
    BY <1>0, <1>6, <2>3, <2>4, NextOfRead DEF Written
  <2>6. JobFits(w)'
    BY <1>1, <1>6, <2>5 DEF Moves, JobFits, AuthorityJob, ReleaseJob, DraftJob, At, Request, Reading,
                            Evaluating, Validating
  <2> QED  BY <2>2, <2>6, JobStep
<1>7. CASE /\ Kind(w) \in Refreshing /\ ~InForce(rel, row)
           /\ Moves(w, "stale_release", q, NoAuthorization, Next1(rel, "STALE"))
  <2>1. KindFits("stale_release", q.kind)
    BY <1>2, <1>7 DEF KindFits, ForAuthorization, ForRelease, Reading, Staling, Evaluating, Deciding, Validating
  <2>2. JobsType' /\ Others(w) /\ JobOK(w)'
    BY <1>2, <1>3, <1>7, <2>1, MovesOK
  <2>3. r \in Releases /\ ReleaseRead(rel, r) /\ rel.status \in Open \cup {"RELEASED_FOR_EXECUTION"}
    BY <1>7, ReadingFields
  <2>4. Next1(rel, "STALE") \in ReleaseType /\ Next1(rel, "STALE").version = rel.version + 1
    BY <1>0, NextRelease DEF ReleaseStatuses
  <2>5. Written(Next1(rel, "STALE"), release[r],
                /\ release[r].status \in Open \cup {"RELEASED_FOR_EXECUTION"}
                /\ Over(release[r].authorization)
                /\ Next1(rel, "STALE") = Next1(release[r], "STALE"))
    BY <1>0, <1>7, <2>3, <2>4, NextOfRead DEF Written
  <2>6. JobFits(w)'
    BY <1>1, <1>7, <2>5 DEF Moves, JobFits, AuthorityJob, ReleaseJob, DraftJob, At, Request, Reading,
                            Evaluating, Validating, Over
  <2> QED  BY <2>2, <2>6, JobStep
<1> QED  BY <1>4, <1>5, <1>6, <1>7, GotCases

(* A request that has the authorization, or what it will be, in its hands. *)
LEMMA ReadingKeeps ==
    ASSUME IInv, NEW w \in Workers, job[w].pc \in Reading, NEW s \in {"match_source", "end_authorization"},
           NEW auth, Moves(w, s, Request(w), auth, job[w].rel), UNCHANGED <<lock, rows>>,
           s = "match_source" =>
             /\ Active(auth) /\ ReadOf(auth, authorization[AuthorizationOf(w)])
             /\ Kind(w) \in Refreshing => InForce(job[w].rel, auth),
           s = "end_authorization" =>
             /\ auth.status \in Ended
             /\ Written(auth, authorization[AuthorizationOf(w)],
                  /\ Active(authorization[AuthorizationOf(w)])
                  /\ auth = Next1(authorization[AuthorizationOf(w)], auth.status))
    PROVE  IInv'
<1>1. Request(w) \in Requests /\ Kind(w) \in {"CONFIRM"} \cup Refreshing /\ Kind(w) = Request(w).kind
  BY ReadingFields DEF Kind, Request
<1>2. KindFits(s, Request(w).kind) /\ s \in Steps /\ s # "idle"
  BY <1>1 DEF KindFits, ForAuthorization, ForRelease, Reading, Staling, Evaluating, Deciding, Validating, Steps
<1>3. JobsType' /\ Others(w) /\ JobOK(w)'
  BY <1>1, <1>2, MovesOK
<1>4. job'[w].request = job[w].request /\ job'[w].rel = job[w].rel /\ job'[w].auth = auth /\ job'[w].pc = s
  BY DEF Moves, Request
<1>5. AuthorizationOf(w)' = AuthorizationOf(w) /\ authorization' = authorization
  BY <1>4 DEF AuthorizationOf, Kind, Request, rows
<1>6. AuthorityJob(w)'
  <2>1. CASE s = "match_source"
    BY <1>4, <1>5, <2>1 DEF AuthorityJob, At, Kind, Request, Active
  <2>2. CASE s = "end_authorization"
    BY <1>4, <1>5, <2>2 DEF AuthorityJob, At, Active
  <2> QED  BY <2>1, <2>2
<1>7. ReleaseJob(w)'
  <2>1. Kind(w) \in Refreshing =>
          /\ ReleaseRead(job[w].rel, Request(w).target)'
          /\ job[w].rel.status \in Open \cup {"RELEASED_FOR_EXECUTION"}
    BY <1>4, ReadingFields, ReadMoves DEF Request
  <2> QED  BY <1>4, <2>1 DEF ReleaseJob, At, Kind, Request, Evaluating
<1>8. DraftJob(w)'
  BY <1>4 DEF DraftJob, At, Validating
<1> QED  BY <1>3, <1>6, <1>7, <1>8, JobStep DEF JobFits

LEMMA GetAuthorizationKeeps ==
    ASSUME IInv, NEW w \in Workers, GetAuthorization(w)
    PROVE  IInv'
<1> DEFINE row == authorization[AuthorizationOf(w)]
<1>1. job[w].pc \in Reading /\ UNCHANGED <<lock, rows>>
  BY DEF GetAuthorization, At, Reading
<1>2. AuthorizationOf(w) \in Authorizations /\ row \in AuthorizationType /\ row.version \in Nat
      /\ AuthorizationFits(row) /\ TypeOK /\ job[w].rel \in ReleaseType
  BY <1>1, ReadingFields, RowTypes, JobFields DEF IInv, RowsFit
<1>3. ReadOf(row, row)
  BY <1>2 DEF ReadOf
<1>4. Kind(w) \in Refreshing =>
        /\ job[w].rel.authorizationVersion = 2 /\ Given(job[w].rel.authorization)
        /\ row = authorization[job[w].rel.authorization]
  BY <1>1, ReadingFields
<1>5. CASE row.status \in Ended /\ Got(w, row)
  <2>1. Kind(w) \in Refreshing => Over(job[w].rel.authorization)
    BY <1>4, <1>5 DEF Given, Over, Ended
  <2>2. Kind(w) = "CONFIRM" => ReadOf(row, authorization[Request(w).target])
    BY <1>1, <1>3, ReadingFields
  <2> QED  BY <1>1, <1>2, <1>5, <2>1, <2>2, GotKeeps
<1>6. CASE Active(row) /\ Holding(w, "match_source", row, job[w].rel)
  <2>1. Kind(w) \in Refreshing => InForce(job[w].rel, row)
    BY <1>2, <1>4, <1>6 DEF Active, AuthorizationFits, Given, InForce, Authorized
  <2>2. Moves(w, "match_source", Request(w), row, job[w].rel)
    BY <1>2, <1>6, HoldingMoves DEF Steps, Reading
  <2> QED  BY <1>1, <1>3, <1>6, <2>1, <2>2, ReadingKeeps
<1>7. CASE Active(row) /\ Holding(w, "end_authorization", Next1(row, "EXPIRED"), job[w].rel)
  <2> DEFINE next == Next1(row, "EXPIRED")
  <2>1. next \in AuthorizationType /\ next.status = "EXPIRED" /\ next.version = row.version + 1
    BY <1>2, NextAuthorization DEF AuthorizationStatuses, Ended
  <2>2. Moves(w, "end_authorization", Request(w), next, job[w].rel)
    BY <1>2, <1>7, <2>1, HoldingMoves DEF Steps, Reading
  <2>3. Written(next, row, Active(row) /\ next = Next1(row, next.status))
    BY <1>2, <1>7, <2>1 DEF Written
  <2>4. next.status \in Ended
    BY <2>1 DEF Ended
  <2> HIDE DEF next
  <2> QED  BY <1>1, <2>2, <2>3, <2>4, ReadingKeeps
<1> QED  BY <1>5, <1>6, <1>7 DEF GetAuthorization

LEMMA MatchSourceKeeps ==
    ASSUME IInv, NEW w \in Workers, MatchSource(w)
    PROVE  IInv'
<1> DEFINE row == authorization[AuthorizationOf(w)]  auth == job[w].auth
<1>1. job[w].pc \in Reading /\ UNCHANGED <<lock, rows>> /\ At(w, "match_source")
  BY DEF MatchSource, At, Reading
<1>2. AuthorizationOf(w) \in Authorizations /\ row \in AuthorizationType /\ row.version \in Nat
      /\ TypeOK /\ job[w].rel \in ReleaseType /\ auth \in AuthorizationType
  BY <1>1, ReadingFields, RowTypes, JobFields DEF IInv
<1>3. /\ Active(auth) /\ ReadOf(auth, row)
      /\ Kind(w) \in Refreshing => InForce(job[w].rel, auth)
  BY <1>1 DEF IInv, JobsFit, JobFits, AuthorityJob, Kind, Request
<1>4. CASE Got(w, auth)
  <2>1. Kind(w) = "CONFIRM" => ReadOf(auth, authorization[Request(w).target])
    BY <1>1, <1>3, ReadingFields
  <2> QED  BY <1>1, <1>2, <1>3, <1>4, <2>1, GotKeeps
<1>5. CASE Holding(w, "end_authorization", Next1(auth, "STALE"), job[w].rel)
  <2> DEFINE next == Next1(auth, "STALE")
  <2>1. next \in AuthorizationType /\ next.status = "STALE" /\ next.version = auth.version + 1
        /\ auth.version \in Nat
    BY <1>2, NextAuthorization DEF AuthorizationStatuses, Ended, AuthorizationType
  <2>2. Moves(w, "end_authorization", Request(w), next, job[w].rel)
    BY <1>2, <1>5, <2>1, HoldingMoves DEF Steps, Reading
  <2>3. Written(next, row, Active(row) /\ next = Next1(row, next.status))
    BY <1>2, <1>3, <2>1 DEF Written, ReadOf
  <2>4. next.status \in Ended
    BY <2>1 DEF Ended
  <2> HIDE DEF next
  <2> QED  BY <1>1, <2>2, <2>3, <2>4, ReadingKeeps
<1> QED  BY <1>4, <1>5 DEF MatchSource
-----------------------------------------------------------------------------
(* evaluate. *)
LEMMA CheckAuthorizationKeeps ==
    ASSUME IInv, NEW w \in Workers, CheckAuthorization(w)
    PROVE  IInv'
<1> DEFINE rel == job[w].rel  q == Request(w)  row == authorization[rel.authorization]
<1>1. job[w].pc \in Evaluating /\ UNCHANGED <<lock, rows>>
  BY DEF CheckAuthorization, At, Evaluating
<1>2. TypeOK /\ ReleaseRead(rel, q.target) /\ OpenRelease(rel) /\ rel \in ReleaseType
  BY <1>1, JobFields DEF IInv, JobsFit, JobFits, ReleaseJob
<1>3. row \in AuthorizationType
  BY <1>2, RowTypes DEF ReleaseRead, ReleaseFits
<1>4. Moves(w, "check_source", q, row, rel)
  BY <1>2, <1>3, HoldingMoves DEF CheckAuthorization, Steps, Evaluating
<1>5. q \in Requests /\ q.kind = "EVALUATE"
  BY <1>1, <1>2, JobFields DEF KindFits, Kind, Request, Evaluating
<1>6. KindFits("check_source", q.kind) /\ "check_source" \in Steps
  BY <1>5 DEF KindFits, ForAuthorization, ForRelease, Reading, Staling, Evaluating, Deciding, Validating, Steps
<1>7. JobsType' /\ Others(w) /\ JobOK(w)'
  BY <1>4, <1>5, <1>6, MovesOK
<1>8. ReleaseRead(job[w].rel, Request(w).target)'
  BY <1>1, <1>2, <1>4, ReadMoves DEF Moves
<1>9. JobFits(w)'
  BY <1>2, <1>4, <1>8 DEF Moves, JobFits, AuthorityJob, ReleaseJob, DraftJob, At, OpenRelease, Reading, Validating
<1> QED  BY <1>1, <1>7, <1>9, JobStep

LEMMA CheckSourceKeeps ==
    ASSUME IInv, NEW w \in Workers, CheckSource(w)
    PROVE  IInv'
<1> DEFINE rel == job[w].rel  q == Request(w)  r == q.target
           passed == SourceMatches(job[w].auth) /\ InForce(rel, job[w].auth)
           next == [Next1(rel, IF passed THEN "READY_FOR_RELEASE" ELSE "BLOCKED")
                      EXCEPT !.checks = IF passed THEN "PASS" ELSE "FAIL"]
<1>1. job[w].pc \in Evaluating /\ UNCHANGED <<lock, rows>>
  BY DEF CheckSource, At, Evaluating
<1>2. TypeOK /\ ReleaseRead(rel, r) /\ OpenRelease(rel) /\ rel \in ReleaseType
  BY <1>1, JobFields DEF IInv, JobsFit, JobFits, ReleaseJob
<1>3. q \in Requests /\ q.kind = "EVALUATE" /\ r \in Releases
  BY <1>1, <1>2, JobFields, OnReleaseTarget DEF KindFits, Kind, Request, Evaluating, OnRelease
<1>4. next = [Next1(rel, "READY_FOR_RELEASE") EXCEPT !.checks = "PASS"]
      \/ next = [Next1(rel, "BLOCKED") EXCEPT !.checks = "FAIL"]
  OBVIOUS
<1>5. Holding(w, "save_release", NoAuthorization, next)
  BY DEF CheckSource
<1> HIDE DEF next
<1>6. next \in ReleaseType /\ next.version = rel.version + 1
  <2>1. /\ "READY_FOR_RELEASE" \in ReleaseStatuses /\ "BLOCKED" \in ReleaseStatuses
        /\ NoId \in Executors \cup {NoId} /\ TRUE \in BOOLEAN
    BY DEF ReleaseStatuses, Open
  <2>2. CASE next = [Next1(rel, "READY_FOR_RELEASE") EXCEPT !.checks = "PASS"]
    BY <1>2, <2>1, <2>2, ChangedRelease
  <2>3. CASE next = [Next1(rel, "BLOCKED") EXCEPT !.checks = "FAIL"]
    BY <1>2, <2>1, <2>3, ChangedRelease
  <2> QED  BY <1>4, <2>2, <2>3
<1>7. Moves(w, "save_release", q, NoAuthorization, next)
  BY <1>2, <1>5, <1>6, NoRows, HoldingMoves DEF Steps
<1>8. Written(next, release[r], Changes(next, release[r], q.kind))
  <2>1. next.version <= release[r].version + 1 /\ (next.version = release[r].version + 1 => rel = release[r])
    BY <1>2, <1>3, <1>6, NextOfRead
  <2>2. rel = release[r] => Changes(next, release[r], q.kind)
    BY <1>2, <1>3, <1>4 DEF Changes
  <2> QED  BY <2>1, <2>2 DEF Written
<1> QED  BY <1>1, <1>3, <1>6, <1>7, <1>8, ChangeMoves
-----------------------------------------------------------------------------
(* The draft of a release: found, prepared, made stale. *)
LEMMA FindStaleDraftKeeps ==
    ASSUME IInv, NEW w \in Workers, FindStaleDraft(w)
    PROVE  IInv'
<1> DEFINE q == Request(w)  r == q.target
<1>1. At(w, "find_stale_draft") /\ draft[r] # NoDraft /\ UNCHANGED <<lock, rows>>
      /\ Goto(w, "stale_draft")
  BY DEF FindStaleDraft
<1>2. TypeOK /\ release[r] # NoRelease /\ Over(release[r].authorization)
  BY <1>1 DEF IInv, JobsFit, JobFits, DraftJob
<1>3. Kind(w) \in Refreshing /\ "stale_draft" \in Steps
  BY <1>1, <1>2, JobFields DEF KindFits, At, Staling, Steps
<1>4. KindFits("stale_draft", Kind(w))
  BY <1>3 DEF KindFits, ForAuthorization, ForRelease, Reading, Staling, Evaluating, Deciding, Validating
<1>5. /\ JobsType' /\ Others(w) /\ JobOK(w)' /\ job'[w].pc = "stale_draft"
      /\ job'[w].request = job[w].request
  BY <1>1, <1>3, <1>4, GoesOn DEF At
<1>6. UNCHANGED <<authorization, release, draft>>
  BY <1>1 DEF rows
<1>7. JobFits(w)'
  BY <1>1, <1>2, <1>5, <1>6 DEF JobFits, AuthorityJob, ReleaseJob, DraftJob, At, Request, Over, Reading, Evaluating
<1> QED  BY <1>1, <1>5, <1>7, JobStep

(* A decided release that was just read. *)
LEMMA DecidedKeeps ==
    ASSUME IInv, NEW w \in Workers, NEW s \in {"find_draft", "validate_authorization"},
           Request(w) \in Requests, KindFits(s, Kind(w)), Request(w).target \in Releases,
           release[Request(w).target].decided,
           s = "validate_authorization" => draft[Request(w).target] # NoDraft,
           Holding(w, s, NoAuthorization, release[Request(w).target]), UNCHANGED <<lock, rows>>
    PROVE  IInv'
<1> DEFINE q == Request(w)  r == q.target
<1>1. TypeOK /\ release[r] \in ReleaseType /\ s \in Steps
  BY RowTypes DEF IInv, Steps, Deciding, Validating
<1>2. Moves(w, s, q, NoAuthorization, release[r])
  BY <1>1, NoRows, HoldingMoves
<1>3. JobsType' /\ Others(w) /\ JobOK(w)'
  BY <1>1, <1>2, MovesOK DEF Kind, Request
<1>4. ReleaseRead(release[r], r)
  <2>1. release[r] # NoRelease
    BY DEF NoRelease
  <2> QED  BY <2>1, ReadsRelease DEF IInv, RowsFit, ReleaseFits
<1>5. ReleaseRead(job[w].rel, Request(w).target)'
  BY <1>2, <1>4, ReadMoves DEF Moves
<1>6. draft' = draft
  BY DEF rows
<1>7. DraftJob(w)'
  BY <1>2, <1>5, <1>6 DEF Moves, DraftJob, At, Request, Validating
<1>8. AuthorityJob(w)' /\ ReleaseJob(w)'
  BY <1>2 DEF Moves, AuthorityJob, ReleaseJob, At, Reading, Evaluating
<1> QED  BY <1>3, <1>7, <1>8, JobStep DEF JobFits

LEMMA ReloadReleaseKeeps ==
    ASSUME IInv, NEW w \in Workers, ReloadRelease(w)
    PROVE  IInv'
<1>1. At(w, "reload_release") /\ release[Request(w).target].decided
  BY DEF ReloadRelease, IInv, JobsFit, JobFits, DraftJob
<1>2. Request(w) \in Requests /\ Kind(w) = "DECIDE" /\ Request(w).target \in Releases
  BY <1>1, JobFields, OnReleaseTarget DEF IInv, KindFits, At, OnRelease, Deciding
<1>3. KindFits("find_draft", Kind(w))
  BY <1>2 DEF KindFits, ForAuthorization, ForRelease, Reading, Staling, Evaluating, Deciding, Validating
<1> QED  BY <1>1, <1>2, <1>3, DecidedKeeps DEF ReloadRelease

LEMMA ReplayReleaseKeeps ==
    ASSUME IInv, NEW w \in Workers, ReplayRelease(w)
    PROVE  IInv'
<1>1. At(w, "replay_release") /\ RepairsDraft(release[Request(w).target])
  BY DEF ReplayRelease
<1>2. Request(w) \in Requests /\ Kind(w) = "DECIDE" /\ Request(w).target \in Releases
  BY <1>1, JobFields, OnReleaseTarget DEF IInv, KindFits, At, OnRelease, Deciding
<1>3. KindFits("find_draft", Kind(w))
  BY <1>2 DEF KindFits, ForAuthorization, ForRelease, Reading, Staling, Evaluating, Deciding, Validating
<1>4. release[Request(w).target].decided
  BY <1>1, <1>2 DEF IInv, RowsFit, ReleaseFits, RepairsDraft
<1> QED  BY <1>2, <1>3, <1>4, DecidedKeeps DEF ReplayRelease

LEMMA ValidateReleaseKeeps ==
    ASSUME IInv, NEW w \in Workers, ValidateRelease(w)
    PROVE  IInv'
<1>1. At(w, "validate_release") /\ draft[Request(w).target] # NoDraft
  BY DEF ValidateRelease, IInv, JobsFit, JobFits, DraftJob, Validating, At
<1>2. Request(w) \in Requests /\ Kind(w) = "VALIDATE_DRAFT" /\ Request(w).target \in Releases
  BY <1>1, JobFields, OnReleaseTarget DEF IInv, KindFits, At, OnRelease, Validating
<1>3. KindFits("validate_authorization", Kind(w))
  BY <1>2 DEF KindFits, ForAuthorization, ForRelease, Reading, Staling, Evaluating, Deciding, Validating
<1>4. release[Request(w).target].decided
  BY <1>1, <1>2 DEF IInv, RowsFit, DraftFits
<1> QED  BY <1>1, <1>2, <1>3, <1>4, DecidedKeeps DEF ValidateRelease

LEMMA FindDraftKeeps ==
    ASSUME IInv, NEW w \in Workers, FindDraft(w)
    PROVE  IInv'
<1> DEFINE q == Request(w)  r == q.target  rel == job[w].rel
<1>1. At(w, "find_draft") /\ UNCHANGED <<lock, rows>> /\ Goto(w, "prepare_draft")
  BY DEF FindDraft
<1>2. TypeOK /\ ReleaseRead(rel, r) /\ rel.decided
  BY <1>1 DEF IInv, JobsFit, JobFits, DraftJob
<1>3. Kind(w) = "DECIDE" /\ "prepare_draft" \in Steps
  BY <1>1, <1>2, JobFields DEF KindFits, At, Deciding, Steps
<1>4. KindFits("prepare_draft", Kind(w))
  BY <1>3 DEF KindFits, ForAuthorization, ForRelease, Reading, Staling, Evaluating, Deciding, Validating
<1>5. /\ JobsType' /\ Others(w) /\ JobOK(w)' /\ job'[w].pc = "prepare_draft"
      /\ job'[w].request = job[w].request /\ job'[w].rel = job[w].rel
  BY <1>1, <1>3, <1>4, GoesOn DEF At
<1>6. ReleaseRead(job[w].rel, Request(w).target)'
  BY <1>1, <1>2, <1>5, ReadMoves DEF Request
<1>7. JobFits(w)'
  BY <1>2, <1>5, <1>6 DEF JobFits, AuthorityJob, ReleaseJob, DraftJob, At, Reading, Evaluating, Validating
<1> QED  BY <1>1, <1>5, <1>7, JobStep

LEMMA ValidateAuthorizationKeeps ==
    ASSUME IInv, NEW w \in Workers, ValidateAuthorization(w)
    PROVE  IInv'
<1> DEFINE q == Request(w)  r == q.target  rel == job[w].rel  row == authorization[rel.authorization]
<1>1. At(w, "validate_authorization") /\ UNCHANGED <<lock, rows>>
  BY DEF ValidateAuthorization
<1>2. TypeOK /\ ReleaseRead(rel, r) /\ rel.decided /\ draft[r] # NoDraft
  BY <1>1 DEF IInv, JobsFit, JobFits, DraftJob, Validating, At
<1>3. q \in Requests /\ q.kind = "VALIDATE_DRAFT" /\ r \in Releases
  BY <1>1, <1>2, JobFields, OnReleaseTarget DEF KindFits, At, OnRelease, Validating, Kind, Request
<1>4. CASE Leave(w)
  BY <1>1, <1>4, Leaves, JobStep
<1>5. CASE ~DraftCurrent(rel, row) /\ Holding(w, "stale_draft", NoAuthorization, NoRelease)
  <2>1. /\ rel.authorization \in Authorizations /\ rel.authorizationVersion = 2
        /\ Given(rel.authorization) /\ rel.authorization = release[r].authorization
        /\ rel.status # "RELEASED_FOR_EXECUTION" => Over(rel.authorization)
    BY <1>2 DEF ReleaseRead, ReleaseFits
  <2>2. AuthorizationFits(row)
    BY <2>1 DEF IInv, RowsFit
  <2>3. Over(release[r].authorization)
    BY <1>5, <2>1, <2>2 DEF DraftCurrent, InForce, Authorized, AuthorizationFits, Given, Over
  <2>4. release[r] # NoRelease
    BY <1>2 DEF ReleaseRead, NoRelease
  <2>5. Moves(w, "stale_draft", q, NoAuthorization, NoRelease)
    BY <1>2, <1>5, NoRows, HoldingMoves DEF Steps
  <2>6. KindFits("stale_draft", q.kind) /\ "stale_draft" \in Steps
    BY <1>3 DEF KindFits, ForAuthorization, ForRelease, Reading, Staling, Evaluating, Deciding, Validating, Steps
  <2>7. JobsType' /\ Others(w) /\ JobOK(w)'
    BY <1>3, <2>5, <2>6, MovesOK
  <2>8. UNCHANGED <<authorization, release, draft>>
    BY <1>1 DEF rows
  <2>9. JobFits(w)'
    BY <1>2, <2>3, <2>4, <2>5, <2>8 DEF Moves, JobFits, AuthorityJob, ReleaseJob, DraftJob, At, Request, Over,
                                        Reading, Evaluating
  <2> QED  BY <1>1, <2>7, <2>9, JobStep
<1> QED  BY <1>4, <1>5 DEF ValidateAuthorization
-----------------------------------------------------------------------------
(* Steps that write a row. *)
LEMMA RowStep ==
    ASSUME IInv, NEW w \in Workers, JobsType', Others(w), JobOK(w)', JobFits(w)', lock' = lock,
           authorization' \in [Authorizations -> AuthorizationType],
           release' \in [Releases -> ReleaseType],
           draft' \in [Releases -> DraftType],
           command' \in [Keys -> [request: Requests \cup {NoRequest},
                                  target: Authorizations \cup Releases \cup {NoId}]],
           Grow, RowsFit', OneActive', OneOpen'
    PROVE  IInv'
<1>1. TypeOK'
  BY TypesFollow DEF IInv, TypeOK
<1> QED  BY <1>1, OthersFit DEF IInv

LEMMA AuthorizationWritten ==
    ASSUME IInv, NEW a \in Authorizations, NEW next \in AuthorizationType,
           authorization' = [authorization EXCEPT ![a] = next], UNCHANGED <<release, draft>>,
           next.version = authorization[a].version + 1, next.status # NoId, AuthorizationFits(next),
           Given(a) => next.version = 3,
           Active(next) => \A b \in Authorizations : b # a /\ Active(authorization[b]) =>
             authorization[b].lock # next.lock \/ authorization[b].lockVersion # next.lockVersion
    PROVE  /\ authorization' \in [Authorizations -> AuthorizationType] /\ Grow /\ OneActive' /\ OneOpen'
           /\ \A b \in Authorizations : AuthorizationFits(authorization[b])'
           /\ \A r \in Releases : ReleaseFits(release[r])' /\ DraftFits(r)'
<1>1. TypeOK /\ authorization' \in [Authorizations -> AuthorizationType]
  BY DEF IInv, TypeOK
<1>2. authorization'[a] = next /\ \A b \in Authorizations : b # a => authorization'[b] = authorization[b]
  BY <1>1 DEF TypeOK
<1>3. \A b \in Authorizations : AuthorizationFits(authorization'[b])
  BY <1>2 DEF IInv, RowsFit
<1>4. next.version \in {1, 2, 3} /\ authorization[a].version \in Nat
  BY <1>1, RowTypes DEF AuthorizationFits, AuthorizationType, AuthorizationStatuses
<1>5. ~Over(a)
  BY <1>4 DEF Over
<1>6. AuthorizationsGrow
  <2>1. ASSUME NEW b \in Authorizations
        PROVE  /\ authorization'[b].version >= authorization[b].version
               /\ authorization'[b].version = authorization[b].version => authorization'[b] = authorization[b]
               /\ Given(b) => Given(b)'
               /\ Over(b) => Over(b)'
    <3>1. authorization[b].version \in Nat
      BY <1>1, RowTypes
    <3>2. CASE b = a
      BY <1>2, <1>4, <1>5, <3>2 DEF Given, Over
    <3>3. CASE b # a
      BY <1>2, <3>1, <3>3 DEF Given, Over
    <3> QED  BY <3>2, <3>3
  <2> QED  BY <2>1 DEF AuthorizationsGrow
<1>7. Grow
  <2>1. \A r \in Releases : release[r].version \in Nat
    BY <1>1, RowTypes
  <2> QED  BY <1>6, <2>1 DEF Grow, ReleasesGrow, DraftsGrow
<1>8. OneActive'
  <2>1. SUFFICES ASSUME NEW b \in Authorizations, NEW c \in Authorizations,
                        Active(authorization'[b]), Active(authorization'[c]),
                        authorization'[b].lock = authorization'[c].lock,
                        authorization'[b].lockVersion = authorization'[c].lockVersion
                 PROVE  b = c
    BY DEF OneActive, Active
  <2> QED  BY <1>2, <2>1 DEF IInv, OneActive
<1>9. OneOpen'
  BY DEF IInv, OneOpen, OpenRelease
<1>10. ASSUME NEW r \in Releases PROVE ReleaseFits(release[r])'
  <2>1. release[r] \in ReleaseType /\ ReleaseFits(release[r])
    BY <1>1, RowTypes DEF IInv, RowsFit
  <2>2. /\ release[r].status # NoId => IsGiven(authorization'[release[r].authorization])
        /\ release[r].status = "STALE" => authorization'[release[r].authorization].version = 3
        /\ release[r].decided /\ release[r].status # "RELEASED_FOR_EXECUTION" =>
             authorization'[release[r].authorization].version = 3
    BY <1>1, <1>7, <2>1, FitStays
  <2> QED  BY <2>1, <2>2 DEF ReleaseFits, Given, Over, IsGiven, OpenRelease
<1>11. ASSUME NEW r \in Releases PROVE DraftFits(r)'
  <2>1. DraftFits(r)
    BY DEF IInv, RowsFit
  <2>2. release[r].decided => release[r].authorization \in Authorizations
    BY DEF IInv, RowsFit, ReleaseFits, NoRelease
  <2> QED  BY <1>6, <2>1, <2>2 DEF DraftFits, AuthorizationsGrow, Over
<1>12. \A b \in Authorizations : AuthorizationFits(authorization[b])'
  BY <1>3 DEF AuthorizationFits
<1> QED  BY <1>1, <1>7, <1>8, <1>9, <1>10, <1>11, <1>12

(* A command on record is never replaced, and only a decision's matters. *)
LEMMA CommandRecorded ==
    ASSUME IInv, NEW q \in Requests, q.key \in Keys, ~Recorded(q), NEW t \in Authorizations \cup Releases,
           Record(q, t),
           \A r \in Releases : release[r].decided => release'[r].decided,
           \A r \in Releases : release'[r].decided /\ ~release[r].decided => q.kind = "DECIDE" /\ t = r,
           q.kind = "DECIDE" => t \in Releases /\ release'[t].decided
    PROVE  /\ command' \in [Keys -> [request: Requests \cup {NoRequest},
                                     target: Authorizations \cup Releases \cup {NoId}]]
           /\ \A k \in Keys : CommandFits(k)'
           /\ \A r \in Releases : Repairable(r)'
<1> DEFINE c == [request |-> q, target |-> t]
<1>1. c \in [request: Requests \cup {NoRequest}, target: Authorizations \cup Releases \cup {NoId}]
      /\ c.request = q /\ c.target = t
  OBVIOUS
<1>2. command' = [command EXCEPT ![q.key] = c]
  BY DEF Record
<1> HIDE DEF c
<1>3. command' \in [Keys -> [request: Requests \cup {NoRequest},
                             target: Authorizations \cup Releases \cup {NoId}]]
  BY <1>1, <1>2 DEF IInv, TypeOK
<1>4. command'[q.key] = c /\ \A k \in Keys : k # q.key => command'[k] = command[k]
  BY <1>2 DEF IInv, TypeOK
<1>5. \A r \in Releases : ~DecisionOf(r, q.key)
  BY DEF Recorded, NoCommand, NoRequest, NoId, DecisionOf
<1>6. ASSUME NEW k \in Keys PROVE CommandFits(k)'
  <2>1. CASE k = q.key
    BY <1>1, <1>4, <2>1 DEF CommandFits, DecisionOf
  <2>2. CASE k # q.key
    BY <1>4, <2>2 DEF CommandFits, DecisionOf, IInv, RowsFit
  <2> QED  BY <2>1, <2>2
<1>7. ASSUME NEW r \in Releases PROVE Repairable(r)'
  <2>1. CASE release[r].decided
    <3>1. PICK k \in Keys : DecisionOf(r, k)
      BY <2>1 DEF IInv, RowsFit, Repairable
    <3>2. k # q.key
      BY <1>5, <3>1
    <3> QED  BY <1>4, <3>1, <3>2 DEF Repairable, DecisionOf
  <2>2. CASE ~release[r].decided /\ release'[r].decided
    BY <1>1, <1>4, <2>2 DEF Repairable, DecisionOf
  <2>3. CASE ~release'[r].decided
    BY <2>3 DEF Repairable
  <2> QED  BY <2>1, <2>2, <2>3
<1> QED  BY <1>3, <1>6, <1>7

LEMMA CommandsStay ==
    ASSUME IInv, command' = command, \A r \in Releases : release'[r].decided = release[r].decided
    PROVE  /\ command' \in [Keys -> [request: Requests \cup {NoRequest},
                                     target: Authorizations \cup Releases \cup {NoId}]]
           /\ \A k \in Keys : CommandFits(k)'
           /\ \A r \in Releases : Repairable(r)'
<1>1. \A k \in Keys : CommandFits(k)'
  BY DEF IInv, RowsFit, CommandFits, DecisionOf
<1>2. \A r \in Releases : Repairable(r)'
  BY DEF IInv, RowsFit, Repairable, DecisionOf
<1> QED  BY <1>1, <1>2 DEF IInv, TypeOK

LEMMA ReleaseWritten ==
    ASSUME IInv, NEW r \in Releases, NEW next \in ReleaseType,
           release' = [release EXCEPT ![r] = next], UNCHANGED <<authorization, draft>>,
           next.version = release[r].version + 1, next.status # NoId, ReleaseFits(next),
           release[r] # NoRelease => next.authorization = release[r].authorization,
           release[r].decided => next.decided /\ next.executor = release[r].executor,
           OpenRelease(next) => \A p \in Releases : p # r /\ OpenRelease(release[p]) =>
                                  release[p].authorization # next.authorization
    PROVE  /\ release' \in [Releases -> ReleaseType] /\ Grow /\ OneActive' /\ OneOpen'
           /\ \A a \in Authorizations : AuthorizationFits(authorization[a])'
           /\ \A p \in Releases : ReleaseFits(release[p])' /\ DraftFits(p)'
<1>1. TypeOK /\ release' \in [Releases -> ReleaseType]
  BY DEF IInv, TypeOK
<1>2. release'[r] = next /\ \A p \in Releases : p # r => release'[p] = release[p]
  BY <1>1 DEF TypeOK
<1>3. \A p \in Releases : release[p].version \in Nat
  BY <1>1, RowTypes
<1>4. next # NoRelease
  BY DEF NoRelease
<1>5. ReleasesGrow
  <2>1. ASSUME NEW p \in Releases
        PROVE  /\ release'[p].version >= release[p].version
               /\ release'[p].version = release[p].version => release'[p] = release[p]
               /\ release[p] # NoRelease =>
                     release'[p] # NoRelease /\ release'[p].authorization = release[p].authorization
               /\ release[p].decided => release'[p].decided /\ release'[p].executor = release[p].executor
    <3>1. CASE p = r
      BY <1>2, <1>3, <1>4, <3>1
    <3>2. CASE p # r
      BY <1>2, <1>3, <3>2
    <3> QED  BY <3>1, <3>2
  <2> QED  BY <2>1 DEF ReleasesGrow
<1>6. Grow
  <2>1. \A a \in Authorizations : authorization[a].version \in Nat
    BY <1>1, RowTypes
  <2> QED  BY <1>5, <2>1 DEF Grow, AuthorizationsGrow, DraftsGrow, Given, Over
<1>7. OneActive' /\ \A a \in Authorizations : AuthorizationFits(authorization[a])'
  BY DEF IInv, OneActive, Active, RowsFit, AuthorizationFits
<1>8. OneOpen'
  <2>1. SUFFICES ASSUME NEW p \in Releases, NEW o \in Releases,
                        OpenRelease(release'[p]), OpenRelease(release'[o]),
                        release'[p].authorization = release'[o].authorization
                 PROVE  p = o
    BY DEF OneOpen, OpenRelease
  <2> QED  BY <1>2, <2>1 DEF IInv, OneOpen
<1>9. ASSUME NEW p \in Releases PROVE ReleaseFits(release[p])'
  <2>1. ReleaseFits(release'[p])
    BY <1>2 DEF IInv, RowsFit
  <2> QED  BY <2>1 DEF ReleaseFits, Given, Over, OpenRelease
<1>10. ASSUME NEW p \in Releases PROVE DraftFits(p)'
  <2>1. DraftFits(p)
    BY DEF IInv, RowsFit
  <2>2. release[p].decided => release[p] # NoRelease
    BY DEF NoRelease
  <2> QED  BY <1>5, <2>1, <2>2 DEF DraftFits, ReleasesGrow, Over
<1> QED  BY <1>1, <1>6, <1>7, <1>8, <1>9, <1>10

LEMMA DraftWritten ==
    ASSUME IInv, NEW r \in Releases, NEW next \in DraftType, next # NoDraft,
           draft' = [draft EXCEPT ![r] = next], UNCHANGED <<authorization, release, command>>,
           release[r].decided, next.executor = release[r].executor, next.status # NoId,
           next.status = "STALE" => Over(release[r].authorization)
    PROVE  draft' \in [Releases -> DraftType] /\ Grow /\ RowsFit' /\ OneActive' /\ OneOpen'
<1>1. TypeOK /\ draft' \in [Releases -> DraftType]
  BY DEF IInv, TypeOK
<1>2. draft'[r] = next /\ \A p \in Releases : p # r => draft'[p] = draft[p]
  BY <1>1 DEF TypeOK
<1>3. Grow
  <2>1. AuthorizationsGrow /\ ReleasesGrow
    BY <1>1, RowTypes DEF AuthorizationsGrow, ReleasesGrow, Given, Over
  <2> QED  BY <1>2, <2>1 DEF Grow, DraftsGrow
<1>4. OneActive' /\ OneOpen' /\ \A a \in Authorizations : AuthorizationFits(authorization[a])'
  BY DEF IInv, OneActive, OneOpen, Active, OpenRelease, RowsFit, AuthorizationFits
<1>5. ASSUME NEW p \in Releases PROVE DraftFits(p)'
  BY <1>2 DEF IInv, RowsFit, DraftFits, Over
<1>6. ASSUME NEW p \in Releases PROVE ReleaseFits(release[p])'
  BY DEF IInv, RowsFit, ReleaseFits, Given, Over, OpenRelease
<1>7. (\A k \in Keys : CommandFits(k)') /\ (\A p \in Releases : Repairable(p)')
  BY CommandsStay
<1> QED  BY <1>1, <1>3, <1>4, <1>5, <1>6, <1>7 DEF RowsFit
-----------------------------------------------------------------------------
LEMMA CreateAuthorizationKeeps ==
    ASSUME IInv, NEW w \in Workers, NEW a \in Authorizations, CreateAuthorization(w, a)
    PROVE  IInv'
<1> DEFINE q == Request(w)
           next == [status |-> "PENDING_CONFIRMATION", version |-> 1, lock |-> q.lock,
                    lockVersion |-> q.lockVersion]
<1>1. TypeOK /\ At(w, "create_authorization")
  BY DEF IInv, CreateAuthorization
<1>2. q \in Requests /\ q.kind = "CREATE_AUTHORIZATION"
  BY <1>1, JobFields DEF At, KindFits, ForAuthorization, Kind, Request
<1>3. q.lock \in Locks /\ q.lockVersion \in LockVersions /\ q.key \in Keys
  BY <1>2, RequestFields DEF Keyed
<1>4. next \in AuthorizationType /\ next.status = "PENDING_CONFIRMATION" /\ next.version = 1
      /\ next.lock = q.lock /\ next.lockVersion = q.lockVersion
  BY <1>3 DEF AuthorizationType, AuthorizationStatuses
<1>5. authorization' = [authorization EXCEPT ![a] = next]
  BY DEF CreateAuthorization
<1> HIDE DEF next
<1>6. authorization[a].version = 0 /\ ~Given(a)
  BY DEF CreateAuthorization, NoAuthorization, Given, NoId
<1>7. AuthorizationFits(next) /\ next.status # NoId
  BY <1>3, <1>4 DEF AuthorizationFits, NoId, Ended
<1>8. UNCHANGED <<lock, release, draft>> /\ ~Recorded(q) /\ Record(q, a) /\ Leave(w)
      /\ NoneActive(q.lock, q.lockVersion)
  BY DEF CreateAuthorization
<1>9. \A b \in Authorizations : b # a /\ Active(authorization[b]) =>
        authorization[b].lock # next.lock \/ authorization[b].lockVersion # next.lockVersion
  BY <1>4, <1>8 DEF NoneActive
<1>10. /\ authorization' \in [Authorizations -> AuthorizationType] /\ Grow /\ OneActive' /\ OneOpen'
       /\ \A b \in Authorizations : AuthorizationFits(authorization[b])'
       /\ \A r \in Releases : ReleaseFits(release[r])' /\ DraftFits(r)'
  <2>1. next.version = authorization[a].version + 1 /\ (Given(a) => next.version = 3)
    BY <1>4, <1>6
  <2>2. UNCHANGED <<release, draft>>
    BY <1>8
  <2> QED  BY <1>4, <1>5, <1>7, <1>9, <2>1, <2>2, AuthorizationWritten
<1>11. /\ command' \in [Keys -> [request: Requests \cup {NoRequest},
                                 target: Authorizations \cup Releases \cup {NoId}]]
       /\ \A k \in Keys : CommandFits(k)'
       /\ \A r \in Releases : Repairable(r)'
  BY <1>2, <1>3, <1>8, CommandRecorded
<1>12. RowsFit'
  BY <1>10, <1>11 DEF RowsFit
<1> QED  BY <1>1, <1>8, <1>10, <1>11, <1>12, Leaves, RowStep DEF TypeOK

(* An active authorization that is confirmed or ended. *)
LEMMA AuthorizationChanged ==
    ASSUME IInv, NEW a \in Authorizations, NEW next, SaveAuthorization(a, next), UNCHANGED <<release, draft>>,
           Active(authorization[a]), NEW s, next = Next1(authorization[a], s),
           s \in Ended \/ (s = "AUTHORIZED" /\ authorization[a].status = "PENDING_CONFIRMATION")
    PROVE  /\ authorization' \in [Authorizations -> AuthorizationType] /\ Grow /\ OneActive' /\ OneOpen'
           /\ \A b \in Authorizations : AuthorizationFits(authorization[b])'
           /\ \A r \in Releases : ReleaseFits(release[r])' /\ DraftFits(r)'
           /\ s \in Ended /\ Given(a) => Over(a)'
<1> DEFINE row == authorization[a]
<1>1. row \in AuthorizationType /\ AuthorizationFits(row) /\ row.version \in Nat /\ TypeOK
  BY RowTypes DEF IInv, RowsFit
<1>2. s \in AuthorizationStatuses
  BY DEF AuthorizationStatuses
<1>3. /\ next \in AuthorizationType /\ next.status = s /\ next.version = row.version + 1
      /\ next.lock = row.lock /\ next.lockVersion = row.lockVersion
  BY <1>1, <1>2, NextAuthorization
<1>4. authorization' = [authorization EXCEPT ![a] = next]
  BY DEF SaveAuthorization
<1>5. row.status \in {"PENDING_CONFIRMATION", "AUTHORIZED"} /\ row.version \in {1, 2}
  BY <1>1 DEF Active, AuthorizationFits
<1>6. AuthorizationFits(next) /\ next.status # NoId
  BY <1>1, <1>3, <1>5 DEF AuthorizationFits, Ended, NoId
<1>7. Given(a) => next.version = 3 /\ s \in Ended
  BY <1>1, <1>3, <1>5 DEF AuthorizationFits, Given
<1>8. \A b \in Authorizations : b # a /\ Active(authorization[b]) =>
        authorization[b].lock # next.lock \/ authorization[b].lockVersion # next.lockVersion
  BY <1>3 DEF IInv, OneActive
<1>9. authorization'[a] = next
  BY <1>1, <1>4 DEF TypeOK
<1>10. /\ authorization' \in [Authorizations -> AuthorizationType] /\ Grow /\ OneActive' /\ OneOpen'
       /\ \A b \in Authorizations : AuthorizationFits(authorization[b])'
       /\ \A r \in Releases : ReleaseFits(release[r])' /\ DraftFits(r)'
  BY <1>3, <1>4, <1>6, <1>7, <1>8, AuthorizationWritten
<1> QED  BY <1>7, <1>9, <1>10 DEF Over

LEMMA ConfirmKeeps ==
    ASSUME IInv, NEW w \in Workers, Confirm(w)
    PROVE  IInv'
<1> DEFINE q == Request(w)  a == q.target  next == job[w].auth
<1>1. TypeOK /\ AuthorityJob(w) /\ At(w, "confirm")
  BY DEF IInv, JobsFit, JobFits, Confirm
<1>2. q \in Requests /\ q.kind = "CONFIRM" /\ next \in AuthorizationType
  BY <1>1, JobFields DEF At, KindFits, Kind, Request
<1>3. a \in Authorizations /\ q.key \in Keys
  BY <1>2, RequestFields DEF Keyed, OfAuthorization
<1>4. UNCHANGED <<lock, release, draft>> /\ ~Recorded(q) /\ Record(q, a) /\ Leave(w)
      /\ SaveAuthorization(a, next)
  BY DEF Confirm
<1>5. next.version = authorization[a].version + 1
  BY <1>1, <1>2, <1>3, <1>4, RowTypes DEF SaveAuthorization, Follows, AuthorizationType
<1>6. authorization[a].status = "PENDING_CONFIRMATION" /\ next = Next1(authorization[a], "AUTHORIZED")
  BY <1>1, <1>5 DEF AuthorityJob, Written
<1>7. /\ authorization' \in [Authorizations -> AuthorizationType] /\ Grow /\ OneActive' /\ OneOpen'
      /\ \A b \in Authorizations : AuthorizationFits(authorization[b])'
      /\ \A r \in Releases : ReleaseFits(release[r])' /\ DraftFits(r)'
  BY <1>3, <1>4, <1>6, AuthorizationChanged DEF Active
<1>8. /\ command' \in [Keys -> [request: Requests \cup {NoRequest},
                                target: Authorizations \cup Releases \cup {NoId}]]
      /\ \A k \in Keys : CommandFits(k)'
      /\ \A r \in Releases : Repairable(r)'
  BY <1>2, <1>3, <1>4, CommandRecorded
<1>9. RowsFit'
  BY <1>7, <1>8 DEF RowsFit
<1> QED  BY <1>1, <1>4, <1>7, <1>8, <1>9, Leaves, RowStep DEF TypeOK

LEMMA WithdrawAuthorizationKeeps ==
    ASSUME IInv, NEW w \in Workers, WithdrawAuthorization(w)
    PROVE  IInv'
<1> DEFINE q == Request(w)  a == q.target  next == job[w].auth
<1>1. TypeOK /\ AuthorityJob(w) /\ At(w, "withdraw_authorization")
  BY DEF IInv, JobsFit, JobFits, WithdrawAuthorization
<1>2. q \in Requests /\ q.kind = "WITHDRAW_AUTHORIZATION" /\ next \in AuthorizationType
  BY <1>1, JobFields DEF At, KindFits, Kind, Request
<1>3. a \in Authorizations
  BY <1>2, RequestFields DEF OfAuthorization
<1>4. UNCHANGED <<lock, release, draft, command>> /\ Leave(w) /\ SaveAuthorization(a, next)
  BY DEF WithdrawAuthorization
<1>5. next.version = authorization[a].version + 1
  BY <1>1, <1>2, <1>3, <1>4, RowTypes DEF SaveAuthorization, Follows, AuthorizationType
<1>6. Active(authorization[a]) /\ next = Next1(authorization[a], "WITHDRAWN")
  BY <1>1, <1>5 DEF AuthorityJob, Written
<1>7. /\ authorization' \in [Authorizations -> AuthorizationType] /\ Grow /\ OneActive' /\ OneOpen'
      /\ \A b \in Authorizations : AuthorizationFits(authorization[b])'
      /\ \A r \in Releases : ReleaseFits(release[r])' /\ DraftFits(r)'
  BY <1>3, <1>4, <1>6, AuthorizationChanged DEF Ended
<1>8. /\ command' \in [Keys -> [request: Requests \cup {NoRequest},
                                target: Authorizations \cup Releases \cup {NoId}]]
      /\ \A k \in Keys : CommandFits(k)'
      /\ \A r \in Releases : Repairable(r)'
  BY <1>4, CommandsStay
<1>9. RowsFit'
  BY <1>7, <1>8 DEF RowsFit
<1> QED  BY <1>1, <1>4, <1>7, <1>8, <1>9, Leaves, RowStep DEF TypeOK

LEMMA EndAuthorizationKeeps ==
    ASSUME IInv, NEW w \in Workers, EndAuthorization(w)
    PROVE  IInv'
<1> DEFINE q == Request(w)  a == AuthorizationOf(w)  next == job[w].auth  rel == job[w].rel  r == q.target
<1>1. TypeOK /\ AuthorityJob(w) /\ At(w, "end_authorization") /\ job[w].pc \in Reading
  BY DEF IInv, JobsFit, JobFits, EndAuthorization, At, Reading
<1>2. /\ q \in Requests /\ q.kind \in {"CONFIRM"} \cup Refreshing /\ q.kind = Kind(w)
      /\ a \in Authorizations /\ next \in AuthorizationType /\ rel \in ReleaseType
  BY <1>1, ReadingFields, JobFields DEF Kind, Request
<1>3. UNCHANGED <<lock, release, draft, command>> /\ SaveAuthorization(a, next)
      /\ (IF Kind(w) = "CONFIRM" THEN Leave(w) ELSE Got(w, next))
  BY DEF EndAuthorization
<1>4. next.version = authorization[a].version + 1 /\ next.status \in Ended
  BY <1>1, <1>2, <1>3, RowTypes DEF SaveAuthorization, Follows, AuthorizationType, AuthorityJob
<1>5. Active(authorization[a]) /\ next = Next1(authorization[a], next.status)
  BY <1>1, <1>4 DEF AuthorityJob, Written
<1>6. /\ authorization' \in [Authorizations -> AuthorizationType] /\ Grow /\ OneActive' /\ OneOpen'
      /\ \A b \in Authorizations : AuthorizationFits(authorization[b])'
      /\ \A p \in Releases : ReleaseFits(release[p])' /\ DraftFits(p)'
      /\ Given(a) => authorization'[a].version = 3
  BY <1>2, <1>3, <1>4, <1>5, AuthorizationChanged DEF Over
<1>7. /\ command' \in [Keys -> [request: Requests \cup {NoRequest},
                                target: Authorizations \cup Releases \cup {NoId}]]
      /\ \A k \in Keys : CommandFits(k)'
      /\ \A p \in Releases : Repairable(p)'
  BY <1>3, CommandsStay
<1>8. RowsFit'
  BY <1>6, <1>7 DEF RowsFit
<1>9. JobsType' /\ Others(w) /\ JobOK(w)' /\ JobFits(w)'
  <2>1. CASE Kind(w) = "CONFIRM"
    BY <1>3, <2>1, Leaves
  <2>2. CASE Kind(w) \in Refreshing
    <3>1. /\ r \in Releases /\ ReleaseRead(rel, r) /\ a = rel.authorization /\ Given(a)
          /\ rel.status \in Open \cup {"RELEASED_FOR_EXECUTION"}
      BY <1>1, <2>2, ReadingFields
    <3>2. ~InForce(rel, next)
      BY <1>4 DEF InForce, Authorized, Ended
    <3>3. Moves(w, "stale_release", q, NoAuthorization, Next1(rel, "STALE"))
      BY <1>1, <1>2, <1>3, <2>2, <3>2, GotCases DEF Refreshing
    <3>4. KindFits("stale_release", q.kind) /\ "stale_release" \in Steps
      BY <1>2, <2>2 DEF KindFits, ForAuthorization, ForRelease, Reading, Staling, Evaluating, Deciding,
                        Validating, Steps
    <3>5. JobsType' /\ Others(w) /\ JobOK(w)'
      BY <1>2, <3>3, <3>4, MovesOK
    <3>6. Next1(rel, "STALE") \in ReleaseType /\ Next1(rel, "STALE").version = rel.version + 1
      BY <1>2, NextRelease DEF ReleaseStatuses
    <3>7. release[r].authorization = a /\ authorization'[a].version = 3
      BY <1>6, <3>1 DEF ReleaseRead
    <3>8. Written(Next1(rel, "STALE"), release[r],
                  /\ release[r].status \in Open \cup {"RELEASED_FOR_EXECUTION"}
                  /\ authorization'[release[r].authorization].version = 3
                  /\ Next1(rel, "STALE") = Next1(release[r], "STALE"))
      BY <1>2, <3>1, <3>6, <3>7, NextOfRead DEF Written, Over
    <3>9. JobFits(w)'
      BY <1>3, <3>3, <3>8 DEF Moves, JobFits, AuthorityJob, ReleaseJob, DraftJob, At, Request, Over, Reading,
                              Evaluating, Validating
    <3> QED  BY <3>5, <3>9
  <2> QED  BY <1>2, <2>1, <2>2
<1> QED  BY <1>1, <1>3, <1>6, <1>7, <1>8, <1>9, RowStep DEF TypeOK
-----------------------------------------------------------------------------
(* What a change makes of a release. *)
SameFields(next, row) ==
    /\ next.version = row.version + 1 /\ next.authorization = row.authorization
    /\ next.authorizationVersion = row.authorizationVersion

LEMMA ExecutorFields ==
    ASSUME NEW row \in ReleaseType, NEW s \in ReleaseStatuses, NEW x \in Executors
    PROVE  /\ [Next1(row, s) EXCEPT !.executor = x] \in ReleaseType
           /\ SameFields([Next1(row, s) EXCEPT !.executor = x], row)
           /\ [Next1(row, s) EXCEPT !.executor = x].status = s
           /\ [Next1(row, s) EXCEPT !.executor = x].checks = row.checks
           /\ [Next1(row, s) EXCEPT !.executor = x].decided = row.decided
<1> DEFINE n == Next1(row, s)  next == [n EXCEPT !.executor = x]
<1>1. /\ n \in ReleaseType /\ SameFields(n, row) /\ n.status = s
      /\ n.checks = row.checks /\ n.decided = row.decided
  BY NextRelease DEF SameFields
<1> HIDE DEF n
<1>2. /\ next \in ReleaseType /\ SameFields(next, row) /\ next.status = s
      /\ next.checks = row.checks /\ next.decided = row.decided
  BY <1>1 DEF ReleaseType, SameFields
<1> QED  BY <1>2 DEF n

LEMMA ChecksFields ==
    ASSUME NEW row \in ReleaseType, NEW s \in ReleaseStatuses, NEW c \in {"PASS", "FAIL"}
    PROVE  /\ [Next1(row, s) EXCEPT !.checks = c] \in ReleaseType
           /\ SameFields([Next1(row, s) EXCEPT !.checks = c], row)
           /\ [Next1(row, s) EXCEPT !.checks = c].status = s
           /\ [Next1(row, s) EXCEPT !.checks = c].checks = c
           /\ [Next1(row, s) EXCEPT !.checks = c].decided = row.decided
<1> DEFINE n == Next1(row, s)  next == [n EXCEPT !.checks = c]
<1>1. /\ n \in ReleaseType /\ SameFields(n, row) /\ n.status = s /\ n.decided = row.decided
  BY NextRelease DEF SameFields
<1> HIDE DEF n
<1>2. /\ next \in ReleaseType /\ SameFields(next, row) /\ next.status = s
      /\ next.checks = c /\ next.decided = row.decided
  BY <1>1 DEF ReleaseType, SameFields
<1> QED  BY <1>2 DEF n

LEMMA DecidesFields ==
    ASSUME NEW row \in ReleaseType
    PROVE  /\ Decides(row) \in ReleaseType /\ SameFields(Decides(row), row)
           /\ Decides(row).status = "RELEASED_FOR_EXECUTION" /\ Decides(row).executor = row.executor
           /\ Decides(row).checks = row.checks /\ Decides(row).decided
<1> DEFINE n == Next1(row, "RELEASED_FOR_EXECUTION")  next == [n EXCEPT !.decided = TRUE]
<1>1. /\ n \in ReleaseType /\ SameFields(n, row) /\ n.status = "RELEASED_FOR_EXECUTION"
      /\ n.executor = row.executor /\ n.checks = row.checks
  BY NextRelease DEF SameFields, ReleaseStatuses
<1> HIDE DEF n
<1>2. /\ next \in ReleaseType /\ SameFields(next, row) /\ next.status = "RELEASED_FOR_EXECUTION"
      /\ next.executor = row.executor /\ next.checks = row.checks /\ next.decided
  BY <1>1 DEF ReleaseType, SameFields
<1> QED  BY <1>2 DEF n, Decides

LEMMA CreateReleaseKeeps ==
    ASSUME IInv, NEW w \in Workers, NEW r \in Releases, CreateRelease(w, r)
    PROVE  IInv'
<1> DEFINE q == Request(w)
           next == [NoRelease EXCEPT !.status = "DRAFT", !.version = 1,
                                     !.authorization = q.authorization, !.authorizationVersion = q.version]
<1>1. TypeOK /\ AuthorityJob(w) /\ At(w, "create_release")
  BY DEF IInv, JobsFit, JobFits, CreateRelease
<1>2. q \in Requests /\ q.kind = "CREATE_RELEASE"
  BY <1>1, JobFields DEF At, KindFits, ForRelease, Kind, Request
<1>3. q.authorization \in Authorizations /\ q.key \in Keys /\ q.version = 2 /\ Given(q.authorization)
  BY <1>1, <1>2, RequestFields DEF Keyed, AuthorityJob
<1>4. /\ next \in ReleaseType /\ next.status = "DRAFT" /\ next.version = 1 /\ ~next.decided
      /\ next.authorization = q.authorization /\ next.authorizationVersion = 2
  <2>1. /\ NoRelease \in ReleaseType /\ ~NoRelease.decided /\ "DRAFT" \in ReleaseStatuses
        /\ 1 \in Nat /\ 2 \in Nat
    BY NoRows DEF NoRelease, ReleaseStatuses, Open
  <2>2. next = [[NoRelease EXCEPT !.status = "DRAFT", !.version = 1]
                  EXCEPT !.authorization = q.authorization, !.authorizationVersion = 2]
    BY <1>3
  <2> DEFINE first == [NoRelease EXCEPT !.status = "DRAFT", !.version = 1]
  <2>3. first \in ReleaseType /\ first.status = "DRAFT" /\ first.version = 1 /\ ~first.decided
    BY <2>1 DEF ReleaseType
  <2> HIDE DEF next, first
  <2>4. next = [first EXCEPT !.authorization = q.authorization, !.authorizationVersion = 2]
    BY <2>2 DEF first
  <2> QED  BY <1>3, <2>1, <2>3, <2>4 DEF ReleaseType
<1>5. release' = [release EXCEPT ![r] = next]
  BY DEF CreateRelease
<1> HIDE DEF next
<1>6. release[r] = NoRelease /\ release[r].version = 0 /\ ~release[r].decided
  BY DEF CreateRelease, NoRelease
<1>7. ReleaseFits(next) /\ next.status # NoId
  BY <1>3, <1>4 DEF ReleaseFits, NoId, OpenRelease
<1>8. UNCHANGED <<lock, authorization, draft>> /\ ~Recorded(q) /\ Record(q, r) /\ Leave(w)
      /\ NoneOpen(q.authorization, q.version)
  BY DEF CreateRelease
<1>9. \A p \in Releases : p # r /\ OpenRelease(release[p]) => release[p].authorization # next.authorization
  <2>1. ASSUME NEW p \in Releases, OpenRelease(release[p]) PROVE release[p].authorizationVersion = 2
    BY <2>1 DEF IInv, RowsFit, ReleaseFits, OpenRelease, Open, NoId
  <2> QED  BY <1>3, <1>4, <1>8, <2>1 DEF NoneOpen
<1>10. /\ release' \in [Releases -> ReleaseType] /\ Grow /\ OneActive' /\ OneOpen'
       /\ \A a \in Authorizations : AuthorizationFits(authorization[a])'
       /\ \A p \in Releases : ReleaseFits(release[p])' /\ DraftFits(p)'
  <2>1. next.version = release[r].version + 1
    BY <1>4, <1>6
  <2>2. UNCHANGED <<authorization, draft>>
    BY <1>8
  <2> QED  BY <1>4, <1>5, <1>6, <1>7, <1>9, <2>1, <2>2, ReleaseWritten
<1>11. \A p \in Releases : release'[p].decided = release[p].decided
  BY <1>1, <1>4, <1>5, <1>6 DEF TypeOK, ReleaseType
<1>12. /\ command' \in [Keys -> [request: Requests \cup {NoRequest},
                                 target: Authorizations \cup Releases \cup {NoId}]]
       /\ \A k \in Keys : CommandFits(k)'
       /\ \A p \in Releases : Repairable(p)'
  BY <1>2, <1>3, <1>8, <1>11, CommandRecorded
<1>13. RowsFit'
  BY <1>10, <1>12 DEF RowsFit
<1> QED  BY <1>1, <1>8, <1>10, <1>12, <1>13, Leaves, RowStep DEF TypeOK

(* A release that is made stale, changed or decided. *)
LEMMA ReleaseChanged ==
    ASSUME IInv, NEW r \in Releases, NEW next \in ReleaseType, SaveRelease(r, next),
           UNCHANGED <<authorization, draft>>,
           SameFields(next, release[r]), release[r].status # NoId, next.status # NoId, ReleaseFits(next),
           release[r].decided => next.decided /\ next.executor = release[r].executor,
           OpenRelease(next) => OpenRelease(release[r])
    PROVE  /\ release' \in [Releases -> ReleaseType] /\ Grow /\ OneActive' /\ OneOpen'
           /\ \A a \in Authorizations : AuthorizationFits(authorization[a])'
           /\ \A p \in Releases : ReleaseFits(release[p])' /\ DraftFits(p)'
           /\ release'[r] = next
           /\ \A p \in Releases : p # r => release'[p] = release[p]
<1>1. release' = [release EXCEPT ![r] = next]
  BY DEF SaveRelease
<1>2. next.version = release[r].version + 1 /\ next.authorization = release[r].authorization
  BY DEF SameFields
<1>3. OpenRelease(next) => \A p \in Releases : p # r /\ OpenRelease(release[p]) =>
                              release[p].authorization # next.authorization
  BY <1>2 DEF IInv, OneOpen
<1>4. /\ release' \in [Releases -> ReleaseType] /\ Grow /\ OneActive' /\ OneOpen'
      /\ \A a \in Authorizations : AuthorizationFits(authorization[a])'
      /\ \A p \in Releases : ReleaseFits(release[p])' /\ DraftFits(p)'
  BY <1>1, <1>2, <1>3, ReleaseWritten
<1> QED  BY <1>1, <1>4 DEF IInv, TypeOK

LEMMA MarkReleaseStaleKeeps ==
    ASSUME IInv, NEW w \in Workers, MarkReleaseStale(w)
    PROVE  IInv'
<1> DEFINE q == Request(w)  r == q.target  rel == job[w].rel  row == release[r]
<1>1. TypeOK /\ ReleaseJob(w) /\ At(w, "stale_release") /\ r \in Releases /\ rel \in ReleaseType
  BY JobFields, OnReleaseTarget DEF IInv, JobsFit, JobFits, MarkReleaseStale, At, OnRelease, Staling
<1>2. SaveRelease(r, rel) /\ Goto(w, "find_stale_draft") /\ UNCHANGED <<lock, authorization, draft, command>>
  BY DEF MarkReleaseStale
<1>3. row \in ReleaseType /\ row.version \in Nat /\ ReleaseFits(row)
  BY <1>1, RowTypes DEF IInv, RowsFit
<1>4. /\ row.status \in Open \cup {"RELEASED_FOR_EXECUTION"} /\ Over(row.authorization)
      /\ rel = Next1(row, "STALE")
  BY <1>1, <1>2, <1>3 DEF ReleaseJob, Written, SaveRelease, Follows, ReleaseType
<1>5. /\ SameFields(rel, row) /\ rel.status = "STALE" /\ rel.checks = row.checks
      /\ rel.executor = row.executor /\ rel.decided = row.decided
  BY <1>3, <1>4, NextRelease DEF ReleaseStatuses, SameFields
<1>6. row.status # NoId /\ rel.status # NoId /\ ~OpenRelease(rel)
  BY <1>4, <1>5 DEF Open, OpenRelease, NoId
<1>7. ReleaseFits(rel)
  BY <1>3, <1>4, <1>5, <1>6 DEF ReleaseFits, SameFields
<1>8. /\ release' \in [Releases -> ReleaseType] /\ Grow /\ OneActive' /\ OneOpen'
      /\ \A a \in Authorizations : AuthorizationFits(authorization[a])'
      /\ \A p \in Releases : ReleaseFits(release[p])' /\ DraftFits(p)'
      /\ release'[r] = rel /\ \A p \in Releases : p # r => release'[p] = release[p]
  BY <1>1, <1>2, <1>5, <1>6, <1>7, ReleaseChanged
<1>9. \A p \in Releases : release'[p].decided = release[p].decided
  BY <1>5, <1>8
<1>10. /\ command' \in [Keys -> [request: Requests \cup {NoRequest},
                                 target: Authorizations \cup Releases \cup {NoId}]]
       /\ \A k \in Keys : CommandFits(k)'
       /\ \A p \in Releases : Repairable(p)'
  BY <1>2, <1>9, CommandsStay
<1>11. RowsFit'
  BY <1>8, <1>10 DEF RowsFit
<1>12. Kind(w) \in Refreshing /\ "find_stale_draft" \in Steps
  BY <1>1, JobFields DEF At, KindFits, Staling, Steps
<1>13. KindFits("find_stale_draft", Kind(w))
  BY <1>12 DEF KindFits, ForAuthorization, ForRelease, Reading, Staling, Evaluating, Deciding, Validating
<1>14. /\ JobsType' /\ Others(w) /\ JobOK(w)' /\ job'[w].pc = "find_stale_draft"
       /\ job'[w].request = job[w].request
  BY <1>1, <1>2, <1>12, <1>13, GoesOn DEF At
<1>15. release'[r] # NoRelease /\ authorization'[release'[r].authorization].version = 3
  BY <1>2, <1>4, <1>5, <1>6, <1>8 DEF NoRelease, SameFields, Over
<1>16. JobFits(w)'
  BY <1>14, <1>15 DEF JobFits, AuthorityJob, ReleaseJob, DraftJob, At, Request, Over, Reading, Evaluating, Validating
<1> QED  BY <1>1, <1>2, <1>8, <1>10, <1>11, <1>14, <1>16, RowStep DEF TypeOK

LEMMA ChangeFits ==
    ASSUME IInv, NEW r \in Releases, NEW rel, NEW kind, Changes(rel, release[r], kind)
    PROVE  /\ rel \in ReleaseType /\ SameFields(rel, release[r]) /\ ReleaseFits(rel)
           /\ release[r].status # NoId /\ rel.status # NoId /\ rel.decided = release[r].decided
           /\ release[r].decided => rel.executor = release[r].executor
           /\ OpenRelease(rel) => OpenRelease(release[r])
<1> DEFINE row == release[r]
<1>1. row \in ReleaseType /\ ReleaseFits(row)
  BY RowTypes DEF IInv, RowsFit
<1>2. /\ "WITHDRAWN" \in ReleaseStatuses /\ "READY_FOR_RELEASE" \in ReleaseStatuses
      /\ "BLOCKED" \in ReleaseStatuses /\ row.status \in ReleaseStatuses
  BY <1>1 DEF ReleaseStatuses, Open, ReleaseType
<1>3. row.status \in Open \cup {"STALE", "WITHDRAWN"}
  BY DEF Changes, OpenRelease
<1>4. row.status # NoId /\ row.status # "RELEASED_FOR_EXECUTION"
  BY <1>3 DEF Open, NoId
<1>5. CASE rel = Next1(row, "WITHDRAWN")
  <2>1. /\ rel \in ReleaseType /\ SameFields(rel, row) /\ rel.status = "WITHDRAWN" /\ rel.checks = row.checks
        /\ rel.executor = row.executor /\ rel.decided = row.decided
    BY <1>1, <1>2, <1>5, NextRelease DEF SameFields
  <2>2. ReleaseFits(rel)
    BY <1>1, <1>4, <2>1 DEF ReleaseFits, SameFields, OpenRelease, Open, NoId, ReleaseType
  <2> QED  BY <1>4, <2>1, <2>2 DEF OpenRelease, Open, NoId
<1>6. CASE OpenRelease(row) /\ \E x \in Executors : rel = [Next1(row, row.status) EXCEPT !.executor = x]
  <2>1. PICK x \in Executors : rel = [Next1(row, row.status) EXCEPT !.executor = x]
    BY <1>6
  <2>2. /\ rel \in ReleaseType /\ SameFields(rel, row) /\ rel.status = row.status /\ rel.checks = row.checks
        /\ rel.decided = row.decided
    BY <1>1, <1>2, <2>1, ExecutorFields
  <2>3. ReleaseFits(rel)
    BY <1>1, <1>4, <1>6, <2>2 DEF ReleaseFits, SameFields, OpenRelease, Open, NoId, ReleaseType
  <2>4. ~row.decided
    BY <1>1, <1>6 DEF ReleaseFits
  <2> QED  BY <1>4, <1>6, <2>2, <2>3, <2>4
<1>7. CASE /\ OpenRelease(row)
           /\ \/ rel = [Next1(row, "READY_FOR_RELEASE") EXCEPT !.checks = "PASS"]
              \/ rel = [Next1(row, "BLOCKED") EXCEPT !.checks = "FAIL"]
  <2>1. /\ rel \in ReleaseType /\ SameFields(rel, row) /\ rel.decided = row.decided
        /\ \/ rel.status = "READY_FOR_RELEASE" /\ rel.checks = "PASS"
           \/ rel.status = "BLOCKED" /\ rel.checks = "FAIL"
    <3>1. CASE rel = [Next1(row, "READY_FOR_RELEASE") EXCEPT !.checks = "PASS"]
      BY <1>1, <1>2, <3>1, ChecksFields
    <3>2. CASE rel = [Next1(row, "BLOCKED") EXCEPT !.checks = "FAIL"]
      BY <1>1, <1>2, <3>2, ChecksFields
    <3> QED  BY <1>7, <3>1, <3>2
  <2>2. ~row.decided
    BY <1>1, <1>7 DEF ReleaseFits
  <2>3. ReleaseFits(rel)
    BY <1>1, <1>4, <2>1, <2>2 DEF ReleaseFits, SameFields, OpenRelease, Open, NoId, ReleaseType
  <2>4. rel.status # NoId
    BY <2>1 DEF NoId
  <2> QED  BY <1>4, <1>7, <2>1, <2>2, <2>3, <2>4
<1> QED  BY <1>5, <1>6, <1>7 DEF Changes

LEMMA SaveChangeKeeps ==
    ASSUME IInv, NEW w \in Workers, SaveChange(w)
    PROVE  IInv'
<1> DEFINE q == Request(w)  r == q.target  rel == job[w].rel  row == release[r]
<1>1. TypeOK /\ ReleaseJob(w) /\ At(w, "save_release") /\ r \in Releases /\ rel \in ReleaseType
  BY JobFields, OnReleaseTarget DEF IInv, JobsFit, JobFits, SaveChange, At, OnRelease
<1>2. SaveRelease(r, rel) /\ Leave(w) /\ UNCHANGED <<lock, authorization, draft, command>>
  BY DEF SaveChange
<1>3. row.version \in Nat
  BY <1>1, RowTypes
<1>4. Changes(rel, row, q.kind)
  BY <1>1, <1>2, <1>3 DEF ReleaseJob, Written, SaveRelease, Follows, ReleaseType
<1>5. /\ SameFields(rel, row) /\ ReleaseFits(rel)
      /\ row.status # NoId /\ rel.status # NoId /\ rel.decided = row.decided
      /\ row.decided => rel.executor = row.executor
      /\ OpenRelease(rel) => OpenRelease(row)
  BY <1>1, <1>4, ChangeFits
<1>6. /\ release' \in [Releases -> ReleaseType] /\ Grow /\ OneActive' /\ OneOpen'
      /\ \A a \in Authorizations : AuthorizationFits(authorization[a])'
      /\ \A p \in Releases : ReleaseFits(release[p])' /\ DraftFits(p)'
      /\ release'[r] = rel /\ \A p \in Releases : p # r => release'[p] = release[p]
  BY <1>1, <1>2, <1>5, ReleaseChanged
<1>7. \A p \in Releases : release'[p].decided = release[p].decided
  BY <1>5, <1>6
<1>8. /\ command' \in [Keys -> [request: Requests \cup {NoRequest},
                                target: Authorizations \cup Releases \cup {NoId}]]
      /\ \A k \in Keys : CommandFits(k)'
      /\ \A p \in Releases : Repairable(p)'
  BY <1>2, <1>7, CommandsStay
<1>9. RowsFit'
  BY <1>6, <1>8 DEF RowsFit
<1> QED  BY <1>1, <1>2, <1>6, <1>8, <1>9, Leaves, RowStep DEF TypeOK

LEMMA RecordDecisionKeeps ==
    ASSUME IInv, NEW w \in Workers, RecordDecision(w)
    PROVE  IInv'
<1> DEFINE q == Request(w)  r == q.target  rel == job[w].rel  row == release[r]
<1>1. TypeOK /\ ReleaseJob(w) /\ At(w, "record_decision") /\ r \in Releases /\ rel \in ReleaseType
  BY JobFields, OnReleaseTarget DEF IInv, JobsFit, JobFits, RecordDecision, At, OnRelease, Deciding
<1>2. q \in Requests /\ q.kind = "DECIDE" /\ "reload_release" \in Steps
  BY <1>1, JobFields DEF At, KindFits, Deciding, Kind, Request, Steps
<1>3. q.key \in Keys
  BY <1>2, RequestFields DEF Keyed
<1>4. Holding(w, "reload_release", NoAuthorization, NoRelease) /\ UNCHANGED <<lock, authorization, draft>>
  BY DEF RecordDecision
<1>5. Moves(w, "reload_release", q, NoAuthorization, NoRelease)
  BY <1>1, <1>2, <1>4, NoRows, HoldingMoves
<1>6. KindFits("reload_release", q.kind)
  BY <1>2 DEF KindFits, ForAuthorization, ForRelease, Reading, Staling, Evaluating, Deciding, Validating
<1>7. JobsType' /\ Others(w) /\ JobOK(w)'
  BY <1>2, <1>5, <1>6, MovesOK
<1>8. release'[r].decided => JobFits(w)'
  BY <1>5 DEF Moves, JobFits, AuthorityJob, ReleaseJob, DraftJob, At, Request, Reading, Evaluating, Validating
<1>9. CASE ~Recorded(q) /\ SaveRelease(r, rel) /\ Record(q, r)
  <2>1. row \in ReleaseType /\ row.version \in Nat /\ ReleaseFits(row)
    BY <1>1, RowTypes DEF IInv, RowsFit
  <2>2. Releasable(row) /\ rel = Decides(row)
    BY <1>1, <1>9, <2>1 DEF ReleaseJob, Written, SaveRelease, Follows, ReleaseType
  <2>3. /\ SameFields(rel, row) /\ rel.status = "RELEASED_FOR_EXECUTION" /\ rel.executor = row.executor
        /\ rel.checks = row.checks /\ rel.decided
    BY <2>1, <2>2, DecidesFields
  <2>4. row.status # NoId /\ rel.status # NoId /\ ~OpenRelease(rel)
    BY <2>2, <2>3 DEF Releasable, OpenRelease, Open, NoId
  <2>5. ReleaseFits(rel)
    BY <2>1, <2>2, <2>3, <2>4 DEF ReleaseFits, SameFields, Releasable
  <2>6. /\ release' \in [Releases -> ReleaseType] /\ Grow /\ OneActive' /\ OneOpen'
        /\ \A a \in Authorizations : AuthorizationFits(authorization[a])'
        /\ \A p \in Releases : ReleaseFits(release[p])' /\ DraftFits(p)'
        /\ release'[r] = rel /\ \A p \in Releases : p # r => release'[p] = release[p]
    BY <1>1, <1>4, <1>9, <2>3, <2>4, <2>5, ReleaseChanged
  <2>7. /\ command' \in [Keys -> [request: Requests \cup {NoRequest},
                                  target: Authorizations \cup Releases \cup {NoId}]]
        /\ \A k \in Keys : CommandFits(k)'
        /\ \A p \in Releases : Repairable(p)'
    <3>1. /\ \A p \in Releases : release[p].decided => release'[p].decided
          /\ \A p \in Releases : release'[p].decided /\ ~release[p].decided => q.kind = "DECIDE" /\ r = p
          /\ q.kind = "DECIDE" => r \in Releases /\ release'[r].decided
      BY <1>1, <1>2, <2>3, <2>6
    <3> QED  BY <1>1, <1>2, <1>3, <1>9, <3>1, CommandRecorded
  <2>8. RowsFit'
    BY <2>6, <2>7 DEF RowsFit
  <2>9. JobFits(w)'
    BY <1>8, <2>3, <2>6
  <2> QED  BY <1>1, <1>4, <1>7, <2>6, <2>7, <2>8, <2>9, RowStep DEF TypeOK
<1>10. CASE Recorded(q) /\ SameContent(q) /\ command[q.key].target = r /\ UNCHANGED <<release, command>>
  <2>1. UNCHANGED <<lock, rows>>
    BY <1>4, <1>10 DEF rows
  <2>2. command[q.key].request \in Requests
    BY <1>3, <1>10 DEF IInv, RowsFit, CommandFits, Recorded
  <2>3. command[q.key].request.kind = "DECIDE"
    <3>1. ASSUME NEW o \in Requests PROVE Content(o).kind = o.kind
      BY <3>1, RequestFields DEF Content, RequestType
    <3>2. Content(command[q.key].request).kind = Content(q).kind
      BY <1>10 DEF SameContent
    <3> QED  BY <1>2, <2>2, <3>1, <3>2
  <2>4. release[r].decided
    BY <1>1, <1>3, <1>10, <2>3 DEF IInv, RowsFit, CommandFits, DecisionOf
  <2>5. JobFits(w)'
    BY <1>8, <1>10, <2>4
  <2> QED  BY <1>7, <2>1, <2>5, JobStep
<1> QED  BY <1>9, <1>10 DEF RecordDecision

LEMMA MarkDraftStaleKeeps ==
    ASSUME IInv, NEW w \in Workers, MarkDraftStale(w)
    PROVE  IInv'
<1> DEFINE r == Request(w).target  next == [draft[r] EXCEPT !.status = "STALE"]
<1>1. TypeOK /\ DraftJob(w) /\ At(w, "stale_draft") /\ r \in Releases
  BY JobFields, OnReleaseTarget DEF IInv, JobsFit, JobFits, MarkDraftStale, At, OnRelease
<1>2. draft' = [draft EXCEPT ![r] = next] /\ Leave(w) /\ UNCHANGED <<lock, authorization, release, command>>
  BY DEF MarkDraftStale
<1>3. draft[r] # NoDraft /\ Over(release[r].authorization) /\ draft[r] \in DraftType
  BY <1>1 DEF DraftJob, At, TypeOK
<1>4. next \in DraftType /\ next.status = "STALE" /\ next.executor = draft[r].executor
  BY <1>3 DEF DraftType
<1>5. release[r].decided /\ draft[r].executor = release[r].executor
  BY <1>1, <1>3 DEF IInv, RowsFit, DraftFits
<1> HIDE DEF next
<1>6. next # NoDraft /\ next.status # NoId
  BY <1>4 DEF NoDraft, NoId
<1>7. draft' \in [Releases -> DraftType] /\ Grow /\ RowsFit' /\ OneActive' /\ OneOpen'
  <2>1. UNCHANGED <<authorization, release, command>>
    BY <1>2
  <2> QED  BY <1>1, <1>2, <1>3, <1>4, <1>5, <1>6, <2>1, DraftWritten
<1> QED  BY <1>1, <1>2, <1>7, Leaves, RowStep DEF TypeOK

LEMMA PrepareDraftKeeps ==
    ASSUME IInv, NEW w \in Workers, PrepareDraft(w)
    PROVE  IInv'
<1> DEFINE r == Request(w).target  x == job[w].rel.executor  next == [status |-> "PREPARED", executor |-> x]
<1>1. TypeOK /\ DraftJob(w) /\ At(w, "prepare_draft") /\ r \in Releases /\ job[w].rel \in ReleaseType
  BY JobFields, OnReleaseTarget DEF IInv, JobsFit, JobFits, PrepareDraft, At, OnRelease, Deciding
<1>2. draft' = [draft EXCEPT ![r] = next] /\ Leave(w) /\ UNCHANGED <<lock, authorization, release, command>>
  BY DEF PrepareDraft
<1>3. release[r].decided /\ x = release[r].executor
  BY <1>1 DEF DraftJob, At, ReleaseRead
<1>4. x \in Executors \cup {NoId}
  BY <1>1 DEF ReleaseType
<1>5. next \in DraftType /\ next.status = "PREPARED" /\ next.executor = x
  BY <1>4 DEF DraftType
<1> HIDE DEF next, x
<1>6. next # NoDraft /\ next.status # NoId /\ next.status # "STALE"
  BY <1>5 DEF NoDraft, NoId
<1>7. draft' \in [Releases -> DraftType] /\ Grow /\ RowsFit' /\ OneActive' /\ OneOpen'
  <2>1. UNCHANGED <<authorization, release, command>>
    BY <1>2
  <2> QED  BY <1>1, <1>2, <1>3, <1>5, <1>6, <2>1, DraftWritten
<1> QED  BY <1>1, <1>2, <1>7, Leaves, RowStep DEF TypeOK
-----------------------------------------------------------------------------
LEMMA NextIInv == IInv /\ [Next]_vars => IInv'
<1> SUFFICES ASSUME IInv, [Next]_vars PROVE IInv'
  OBVIOUS
<1>1. ASSUME NEW l \in Locks, NEW v \in LockVersions, SourceChanges(l, v) PROVE IInv'
  BY <1>1, SourceChangesKeeps
<1>2. ASSUME NEW w \in Workers, NEW q \in Requests, Start(w, q) PROVE IInv'
  BY <1>2, StartKeeps
<1>3. ASSUME NEW w \in Workers,
             ReadSource(w) \/ CheckActive(w) \/ ReadAuthorization(w) \/ CheckOpen(w)
      PROVE  IInv'
  BY <1>3, CreationKeeps, ReviewKeeps
<1>4. ASSUME NEW w \in Workers, NEW a \in Authorizations, CreateAuthorization(w, a) PROVE IInv'
  BY <1>4, CreateAuthorizationKeeps
<1>5. ASSUME NEW w \in Workers, NEW r \in Releases, CreateRelease(w, r) PROVE IInv'
  BY <1>5, CreateReleaseKeeps
<1>6. ASSUME NEW w \in Workers,
             \/ GetAuthorization(w) \/ MatchSource(w) \/ EndAuthorization(w)
             \/ Confirm(w) \/ WithdrawAuthorization(w) \/ Fails(w)
      PROVE  IInv'
  BY <1>6, GetAuthorizationKeeps, MatchSourceKeeps, EndAuthorizationKeeps, ConfirmKeeps,
     WithdrawAuthorizationKeeps, FailsKeeps
<1>7. ASSUME NEW w \in Workers,
             \/ MarkReleaseStale(w) \/ FindStaleDraft(w) \/ MarkDraftStale(w)
             \/ CheckAuthorization(w) \/ CheckSource(w) \/ SaveChange(w)
      PROVE  IInv'
  BY <1>7, MarkReleaseStaleKeeps, FindStaleDraftKeeps, MarkDraftStaleKeeps, CheckAuthorizationKeeps,
     CheckSourceKeeps, SaveChangeKeeps
<1>8. ASSUME NEW w \in Workers,
             \/ RecordDecision(w) \/ ReloadRelease(w) \/ ReplayRelease(w) \/ FindDraft(w)
             \/ PrepareDraft(w) \/ ValidateRelease(w) \/ ValidateAuthorization(w)
      PROVE  IInv'
  BY <1>8, RecordDecisionKeeps, ReloadReleaseKeeps, ReplayReleaseKeeps, FindDraftKeeps, PrepareDraftKeeps,
     ValidateReleaseKeeps, ValidateAuthorizationKeeps
<1>9. CASE UNCHANGED vars
  <2>1. UNCHANGED <<lock, authorization, release, draft, command, job>> /\ UNCHANGED rows
    BY <1>9 DEF vars, rows
  <2>2. TypeOK'
    BY <2>1 DEF IInv, TypeOK, At, Request, Kind
  <2>3. Grow
    BY <2>1, SameRowsGrow DEF IInv
  <2>4. JobsFit'
    BY <2>1, <2>2, <2>3, KeepsAuthorityJob, KeepsReleaseJob, KeepsDraftJob DEF JobsFit, JobFits
  <2> QED  BY <2>1, <2>2, <2>4, SameRowsFit DEF IInv
<1> QED  BY <1>1, <1>2, <1>3, <1>4, <1>5, <1>6, <1>7, <1>8, <1>9 DEF Next

(* IInv holds of every state the service can reach: one active authorization  *)
(* of a lock version (filing_authorizations_active_source_idx), one open      *)
(* release of an authorization (execution_releases_active_authorization_idx), *)
(* a decision and its command in one transaction, no draft but of a decision, *)
(* and what each request may still hold of the rows it has read.              *)
THEOREM Invariant == Spec => []IInv
<1>1. Init => IInv
  BY InitIInv
<1>2. IInv /\ [Next]_vars => IInv'
  BY NextIInv
<1> QED  BY <1>1, <1>2, PTL DEF Spec

(* validateTaskCurrent: the draft it answers to be current is so at that      *)
(* moment, although it has read the draft, the release and the authorization  *)
(* one after the other, whatever ran in between.                              *)
THEOREM ValidatedDraftsAreCurrent == Spec => []ValidatedIsCurrent
<1>1. IInv => ValidatedIsCurrent
  <2>1. SUFFICES ASSUME IInv, NEW w \in Workers, At(w, "validate_authorization"),
                        DraftCurrent(job[w].rel, authorization[job[w].rel.authorization])
                 PROVE  /\ release[Request(w).target].status = "RELEASED_FOR_EXECUTION"
                        /\ Authorized(authorization[release[Request(w).target].authorization])
                        /\ draft[Request(w).target].status = "PREPARED"
    BY DEF ValidatedIsCurrent
  <2> DEFINE r == Request(w).target  rel == job[w].rel
  <2>2. TypeOK /\ r \in Releases /\ ReleaseRead(rel, r) /\ rel.decided /\ draft[r] # NoDraft
    BY <2>1, OnReleaseTarget DEF IInv, JobsFit, JobFits, DraftJob, At, OnRelease, Validating
  <2>3. /\ release[r].authorization = rel.authorization /\ release[r].decided
        /\ rel.authorization \in Authorizations /\ rel.authorizationVersion = 2
        /\ Authorized(authorization[rel.authorization])
        /\ authorization[rel.authorization].version = 2
    BY <2>1, <2>2 DEF ReleaseRead, ReleaseFits, DraftCurrent, InForce
  <2>4. ~Over(release[r].authorization)
    BY <2>3 DEF Over
  <2>5. release[r].status = "RELEASED_FOR_EXECUTION"
    <3>1. ReleaseFits(release[r])
      BY <2>1, <2>2 DEF IInv, RowsFit
    <3> QED  BY <2>3, <2>4, <3>1 DEF ReleaseFits
  <2>6. draft[r].status \in {NoId, "PREPARED", "STALE"} /\ DraftFits(r)
    <3>1. draft[r] \in DraftType
      BY <2>2 DEF TypeOK
    <3> QED  BY <2>1, <2>2, <3>1 DEF IInv, RowsFit, DraftType
  <2>7. draft[r].status = "PREPARED"
    BY <2>2, <2>4, <2>6 DEF DraftFits
  <2> QED  BY <2>3, <2>5, <2>7
<1> QED  BY <1>1, Invariant, PTL
-----------------------------------------------------------------------------
(* What a step does to the rows, whoever takes it. *)
Asked(a, l, v) ==
    /\ l \in Locks /\ v \in LockVersions
    /\ authorization[a] = NoAuthorization /\ NoneActive(l, v)
    /\ authorization' = [authorization EXCEPT ![a] =
         [status |-> "PENDING_CONFIRMATION", version |-> 1, lock |-> l, lockVersion |-> v]]
    /\ UNCHANGED <<release, draft>>
Moved(a, s) ==
    /\ \/ s \in Ended /\ Active(authorization[a])
       \/ s = "AUTHORIZED" /\ authorization[a].status = "PENDING_CONFIRMATION"
    /\ authorization' = [authorization EXCEPT ![a] = Next1(authorization[a], s)]
    /\ UNCHANGED <<release, draft>>
Opened(r, a) ==
    /\ release[r] = NoRelease /\ Given(a) /\ NoneOpen(a, 2)
    /\ release' = [release EXCEPT ![r] = [NoRelease EXCEPT !.status = "DRAFT", !.version = 1,
                                            !.authorization = a, !.authorizationVersion = 2]]
    /\ UNCHANGED <<authorization, draft>>
Became(r, next) ==
    /\ release' = [release EXCEPT ![r] = next]
    /\ UNCHANGED <<authorization, draft>>
Staled(r) ==
    /\ release[r].status \in Open \cup {"RELEASED_FOR_EXECUTION"} /\ Over(release[r].authorization)
    /\ Became(r, Next1(release[r], "STALE"))
Edited(r) == \E next, kind : Changes(next, release[r], kind) /\ Became(r, next)
Decided(r) == Releasable(release[r]) /\ Became(r, Decides(release[r]))
Prepared(r) ==
    /\ release[r].decided /\ draft[r] = NoDraft
    /\ draft' = [draft EXCEPT ![r] = [status |-> "PREPARED", executor |-> release[r].executor]]
    /\ UNCHANGED <<authorization, release>>
Outdated(r) ==
    /\ release[r].decided /\ draft[r] # NoDraft /\ Over(release[r].authorization)
    /\ draft' = [draft EXCEPT ![r].status = "STALE"]
    /\ UNCHANGED <<authorization, release>>
Kept == UNCHANGED <<authorization, release, draft>>

LEMMA AsksEffect ==
    ASSUME IInv, NEW w \in Workers, NEW a \in Authorizations, CreateAuthorization(w, a)
    PROVE  \E l \in Locks, v \in LockVersions : Asked(a, l, v)
<1> DEFINE q == Request(w)
<1>1. q \in Requests /\ q.kind = "CREATE_AUTHORIZATION"
  BY JobFields DEF IInv, CreateAuthorization, At, KindFits, ForAuthorization, Kind, Request
<1>2. q.lock \in Locks /\ q.lockVersion \in LockVersions
  BY <1>1, RequestFields
<1> QED  BY <1>2 DEF CreateAuthorization, Asked

LEMMA MovesEffect ==
    ASSUME IInv, NEW w \in Workers, EndAuthorization(w) \/ WithdrawAuthorization(w) \/ Confirm(w)
    PROVE  \E a \in Authorizations, s \in Ended \cup {"AUTHORIZED"} : Moved(a, s)
<1> DEFINE q == Request(w)  next == job[w].auth
<1>1. TypeOK /\ AuthorityJob(w) /\ next \in AuthorizationType
  BY JobFields DEF IInv, JobsFit, JobFits
<1>2. \A a \in Authorizations : SaveAuthorization(a, next) => next.version = authorization[a].version + 1
  BY <1>1, RowTypes DEF SaveAuthorization, Follows, AuthorizationType
<1>3. CASE EndAuthorization(w)
  <2> DEFINE a == AuthorizationOf(w)
  <2>1. At(w, "end_authorization") /\ a \in Authorizations /\ SaveAuthorization(a, next)
        /\ UNCHANGED <<release, draft>>
    BY <1>3, ReadingFields DEF EndAuthorization, At, Reading
  <2>2. next.status \in Ended /\ Active(authorization[a]) /\ next = Next1(authorization[a], next.status)
    BY <1>1, <1>2, <2>1 DEF AuthorityJob, Written
  <2>3. Moved(a, next.status)
    BY <2>1, <2>2 DEF Moved, SaveAuthorization
  <2> QED  BY <2>1, <2>2, <2>3
<1>4. CASE WithdrawAuthorization(w) \/ Confirm(w)
  <2> DEFINE a == q.target
  <2>1. At(w, "withdraw_authorization") \/ At(w, "confirm")
    BY <1>4 DEF WithdrawAuthorization, Confirm
  <2>2. a \in Authorizations
    BY <1>1, <2>1, JobFields, RequestFields DEF At, KindFits, Kind, Request, OfAuthorization
  <2>3. SaveAuthorization(a, next) /\ UNCHANGED <<release, draft>>
    BY <1>4 DEF WithdrawAuthorization, Confirm
  <2>4. \/ Active(authorization[a]) /\ next = Next1(authorization[a], "WITHDRAWN")
        \/ authorization[a].status = "PENDING_CONFIRMATION" /\ next = Next1(authorization[a], "AUTHORIZED")
    BY <1>1, <1>2, <2>1, <2>2, <2>3 DEF AuthorityJob, Written
  <2>5. Moved(a, "WITHDRAWN") \/ Moved(a, "AUTHORIZED")
    BY <2>3, <2>4 DEF Moved, SaveAuthorization, Ended
  <2> QED  BY <2>2, <2>5 DEF Ended
<1> QED  BY <1>3, <1>4

LEMMA OpensEffect ==
    ASSUME IInv, NEW w \in Workers, NEW r \in Releases, CreateRelease(w, r)
    PROVE  \E a \in Authorizations : Opened(r, a)
<1> DEFINE q == Request(w)
<1>1. q \in Requests /\ q.kind = "CREATE_RELEASE" /\ AuthorityJob(w)
  BY JobFields DEF IInv, JobsFit, JobFits, CreateRelease, At, KindFits, ForRelease, Kind, Request
<1>2. q.authorization \in Authorizations /\ q.version = 2 /\ Given(q.authorization)
  BY <1>1, RequestFields DEF AuthorityJob, CreateRelease
<1>3. Opened(r, q.authorization)
  BY <1>2 DEF CreateRelease, Opened
<1> QED  BY <1>2, <1>3

LEMMA SavesEffect ==
    ASSUME IInv, NEW w \in Workers, MarkReleaseStale(w) \/ SaveChange(w) \/ RecordDecision(w)
    PROVE  /\ Request(w).target \in Releases
           /\ \/ Kept
              \/ Staled(Request(w).target) \/ Edited(Request(w).target)
              \/ At(w, "record_decision") /\ Decided(Request(w).target)
<1> DEFINE r == Request(w).target  rel == job[w].rel  row == release[r]
<1>1. TypeOK /\ ReleaseJob(w) /\ rel \in ReleaseType /\ r \in Releases
  BY JobFields, OnReleaseTarget
     DEF IInv, JobsFit, JobFits, MarkReleaseStale, SaveChange, RecordDecision, At, OnRelease, Staling, Deciding
<1>2. SaveRelease(r, rel) => rel.version = row.version + 1
  BY <1>1, RowTypes DEF SaveRelease, Follows, ReleaseType
<1>3. CASE MarkReleaseStale(w)
  BY <1>1, <1>2, <1>3 DEF MarkReleaseStale, ReleaseJob, Written, SaveRelease, Staled, Became
<1>4. CASE SaveChange(w)
  <2>1. Changes(rel, row, Request(w).kind)
    BY <1>1, <1>2, <1>4 DEF SaveChange, ReleaseJob, Written
  <2>2. Became(r, rel)
    BY <1>4 DEF SaveChange, SaveRelease, Became
  <2> QED  BY <1>1, <2>1, <2>2 DEF Edited
<1>5. CASE RecordDecision(w)
  BY <1>1, <1>2, <1>5 DEF RecordDecision, ReleaseJob, Written, SaveRelease, Decided, Became, Kept
<1> QED  BY <1>1, <1>3, <1>4, <1>5

LEMMA DraftsEffect ==
    ASSUME IInv, NEW w \in Workers, MarkDraftStale(w) \/ PrepareDraft(w)
    PROVE  \E r \in Releases : Prepared(r) \/ Outdated(r)
<1> DEFINE r == Request(w).target
<1>1. TypeOK /\ DraftJob(w) /\ r \in Releases
  BY OnReleaseTarget DEF IInv, JobsFit, JobFits, MarkDraftStale, PrepareDraft, At, OnRelease, Deciding
<1>2. CASE MarkDraftStale(w)
  <2>1. draft[r] # NoDraft /\ Over(release[r].authorization)
    BY <1>1, <1>2 DEF MarkDraftStale, DraftJob, At
  <2>2. release[r].decided
    BY <1>1, <2>1 DEF IInv, RowsFit, DraftFits
  <2> QED  BY <1>1, <1>2, <2>1, <2>2 DEF MarkDraftStale, Outdated
<1>3. CASE PrepareDraft(w)
  <2>1. release[r].decided /\ job[w].rel.executor = release[r].executor
    BY <1>1, <1>3 DEF PrepareDraft, DraftJob, ReleaseRead
  <2> QED  BY <1>1, <1>3, <2>1 DEF PrepareDraft, Prepared
<1> QED  BY <1>2, <1>3

LEMMA Effects ==
    ASSUME IInv, Next
    PROVE  \/ Kept
           \/ \E a \in Authorizations :
                \/ \E l \in Locks, v \in LockVersions : Asked(a, l, v)
                \/ \E s \in Ended \cup {"AUTHORIZED"} : Moved(a, s)
           \/ \E r \in Releases :
                \/ \E a \in Authorizations : Opened(r, a)
                \/ Staled(r) \/ Edited(r) \/ Prepared(r) \/ Outdated(r)
                \/ Decided(r) /\ \E w \in Workers : At(w, "record_decision") /\ Request(w).target = r
<1>1. CASE \E l \in Locks, v \in LockVersions : SourceChanges(l, v)
  BY <1>1 DEF SourceChanges, rows, Kept
<1>2. ASSUME NEW w \in Workers, NEW q \in Requests, Start(w, q) PROVE Kept
  BY <1>2 DEF Start, StartKeyed, StartWithdrawal, StartRefresh, StartAssignment, StartReleaseWithdrawal,
              StartReplay, StartValidation, rows, Kept
<1>3. ASSUME NEW w \in Workers,
             \/ ReadSource(w) \/ CheckActive(w) \/ ReadAuthorization(w) \/ CheckOpen(w)
             \/ GetAuthorization(w) \/ MatchSource(w) \/ FindStaleDraft(w) \/ CheckAuthorization(w)
             \/ CheckSource(w) \/ ReloadRelease(w) \/ ReplayRelease(w) \/ FindDraft(w)
             \/ ValidateRelease(w) \/ ValidateAuthorization(w) \/ Fails(w)
      PROVE  Kept
  BY <1>3 DEF ReadSource, CheckActive, ReadAuthorization, CheckOpen, GetAuthorization, MatchSource,
              FindStaleDraft, CheckAuthorization, CheckSource, ReloadRelease, ReplayRelease, FindDraft,
              ValidateRelease, ValidateAuthorization, Fails, rows, Kept
<1> QED  BY <1>1, <1>2, <1>3, AsksEffect, MovesEffect, OpensEffect, SavesEffect, DraftsEffect DEF Next
-----------------------------------------------------------------------------
(* Releases whose authorization has ended. *)
LEMMA BarredRows ==
    ASSUME IInv, Next, NEW r \in Releases, Barred(r)
    PROVE  release'[r] # NoRelease /\ ~release'[r].decided /\ authorization'[release'[r].authorization].version = 3
<1> DEFINE row == release[r]  a == row.authorization
<1>1. TypeOK /\ row \in ReleaseType /\ ReleaseFits(row) /\ row # NoRelease /\ ~row.decided
  BY RowTypes DEF IInv, RowsFit, Barred
<1>2. a \in Authorizations /\ authorization[a].version = 3 /\ AuthorizationFits(authorization[a])
  BY <1>1 DEF Barred, Over, ReleaseFits, IInv, RowsFit
<1>3. CASE Kept
  BY <1>1, <1>2, <1>3 DEF Kept
<1>4. ASSUME NEW b \in Authorizations, NEW l \in Locks, NEW v \in LockVersions, Asked(b, l, v)
      PROVE  authorization'[a] = authorization[a] /\ release' = release
  <2>1. b # a
    BY <1>2, <1>4 DEF Asked, NoAuthorization
  <2> QED  BY <1>1, <1>2, <1>4, <2>1 DEF Asked, TypeOK
<1>5. ASSUME NEW b \in Authorizations, NEW s \in Ended \cup {"AUTHORIZED"}, Moved(b, s)
      PROVE  authorization'[a] = authorization[a] /\ release' = release
  <2>1. b # a
    BY <1>2, <1>5 DEF Moved, Active, AuthorizationFits
  <2> QED  BY <1>1, <1>2, <1>5, <2>1 DEF Moved, TypeOK
<1>6. ASSUME NEW p \in Releases, NEW b \in Authorizations, Opened(p, b)
      PROVE  release'[r] = row /\ authorization' = authorization
  BY <1>1, <1>6 DEF Opened, TypeOK
<1>7. ASSUME NEW p \in Releases, Staled(p)
      PROVE  /\ release'[r] # NoRelease /\ ~release'[r].decided /\ release'[r].authorization = a
             /\ authorization' = authorization
  <2>1. p # r => release'[r] = row
    BY <1>1, <1>7 DEF Staled, Became, TypeOK
  <2>2. p = r => release'[r] = Next1(row, "STALE")
    BY <1>1, <1>7 DEF Staled, Became, TypeOK
  <2>3. /\ Next1(row, "STALE").authorization = a /\ Next1(row, "STALE").decided = row.decided
        /\ Next1(row, "STALE").status = "STALE"
    BY <1>1, NextRelease DEF ReleaseStatuses
  <2> QED  BY <1>1, <1>7, <2>1, <2>2, <2>3 DEF Staled, Became, NoRelease, NoId
<1>8. ASSUME NEW p \in Releases, Edited(p)
      PROVE  /\ release'[r] # NoRelease /\ ~release'[r].decided /\ release'[r].authorization = a
             /\ authorization' = authorization
  <2>1. PICK next, kind : Changes(next, release[p], kind) /\ Became(p, next)
    BY <1>8 DEF Edited
  <2>2. /\ SameFields(next, release[p]) /\ next.status # NoId /\ next.decided = release[p].decided
    BY <2>1, ChangeFits
  <2>3. p # r => release'[r] = row
    BY <1>1, <2>1 DEF Became, TypeOK
  <2>4. p = r => release'[r] = next
    BY <1>1, <2>1 DEF Became, TypeOK
  <2> QED  BY <1>1, <2>1, <2>2, <2>3, <2>4 DEF Became, SameFields, NoRelease
<1>9. ASSUME NEW p \in Releases, Decided(p), NEW w \in Workers, At(w, "record_decision"), Request(w).target = p
      PROVE  release'[r] = row /\ authorization' = authorization
  <2>1. p # r
    BY <1>9 DEF Barred
  <2> QED  BY <1>1, <1>9, <2>1 DEF Decided, Became, TypeOK
<1>10. ASSUME NEW p \in Releases, Prepared(p) \/ Outdated(p)
       PROVE  release' = release /\ authorization' = authorization
  BY <1>10 DEF Prepared, Outdated
<1> QED  BY <1>1, <1>2, <1>3, <1>4, <1>5, <1>6, <1>7, <1>8, <1>9, <1>10, Effects

LEMMA NewStep ==
    ASSUME TypeOK, NEW w \in Workers
    PROVE  /\ \A s : Goto(w, s) => Others(w) /\ job'[w].pc = s /\ job'[w].request = job[w].request
           /\ \A s, a, r : Holding(w, s, a, r) =>
                Others(w) /\ job'[w].pc = s /\ job'[w].request = job[w].request
           /\ \A q, s, r : Begin(w, q, s, r) => Others(w) /\ job'[w].pc = s
           /\ Leave(w) => Others(w) /\ job'[w].pc = "idle"
<1>1. ASSUME NEW s, Goto(w, s) PROVE Others(w) /\ job'[w].pc = s /\ job'[w].request = job[w].request
  BY <1>1 DEF Goto, Others, TypeOK, JobType
<1>2. ASSUME NEW s, NEW a, NEW r, Holding(w, s, a, r)
      PROVE  Others(w) /\ job'[w].pc = s /\ job'[w].request = job[w].request
  BY <1>2 DEF Holding, Others, TypeOK, JobType
<1>3. ASSUME NEW q, NEW s, NEW r, Begin(w, q, s, r) PROVE Others(w) /\ job'[w].pc = s
  BY <1>3 DEF Begin, Others, TypeOK, Idle
<1>4. Leave(w) => Others(w) /\ job'[w].pc = "idle"
  BY DEF Leave, Others, TypeOK, Idle
<1> QED  BY <1>1, <1>2, <1>3, <1>4

Looks(j) == j.pc \in {"match_source", "record_decision"}

(* Nobody begins to look at an authorization that has ended, or decides.      *)
LEMMA BarredReads ==
    ASSUME IInv, NEW w \in Workers, NEW r \in Releases, Barred(r),
           GetAuthorization(w) \/ MatchSource(w) \/ EndAuthorization(w)
    PROVE  Others(w) /\ (Looks(job'[w]) => job'[w].request.target # r)
<1> DEFINE row == authorization[AuthorizationOf(w)]  auth == job[w].auth  rel == job[w].rel
<1>1. TypeOK /\ job[w].pc \in Reading /\ AuthorityJob(w) /\ auth \in AuthorizationType
  BY JobFields DEF IInv, JobsFit, JobFits, GetAuthorization, MatchSource, EndAuthorization, At, Reading
<1>2. AuthorizationOf(w) \in Authorizations /\ row \in AuthorizationType /\ AuthorizationFits(row)
  BY <1>1, ReadingFields, RowTypes DEF IInv, RowsFit
<1>3. ASSUME NEW x \in AuthorizationType, Got(w, x), ~InForce(rel, x) \/ Request(w).target # r
      PROVE  Others(w) /\ (Looks(job'[w]) => job'[w].request.target # r)
  <2>1. Others(w) /\ job'[w].request = Request(w) /\ job'[w].pc # "match_source"
        /\ (job'[w].pc = "record_decision" => InForce(rel, x))
    BY <1>1, <1>3, GotCases DEF Moves
  <2> QED  BY <1>3, <2>1 DEF Looks
<1>4. Active(row) => Request(w).target # r
  <2>1. SUFFICES ASSUME Active(row), Request(w).target = r PROVE FALSE
    OBVIOUS
  <2>2. Kind(w) # "CONFIRM"
    BY <1>1, <2>1, ReadingFields, FilingAssumption DEF OfAuthorization, Kind, Request
  <2>3. AuthorizationOf(w) = release[r].authorization
    BY <1>1, <2>1, <2>2, ReadingFields DEF ReleaseRead
  <2>4. row.version = 3
    BY <2>3 DEF Barred, Over
  <2> QED  BY <1>2, <2>1, <2>4 DEF Active, AuthorizationFits
<1>5. CASE GetAuthorization(w)
  <2>1. CASE row.status \in Ended /\ Got(w, row)
    BY <1>2, <1>3, <2>1 DEF InForce, Authorized, Ended
  <2>2. CASE Active(row) /\ Holding(w, "match_source", row, rel)
    BY <1>1, <1>4, <2>2, NewStep DEF Request
  <2>3. CASE Active(row) /\ Holding(w, "end_authorization", Next1(row, "EXPIRED"), rel)
    BY <1>1, <2>3, NewStep DEF Looks
  <2> QED  BY <1>5, <2>1, <2>2, <2>3 DEF GetAuthorization
<1>6. CASE MatchSource(w)
  <2>1. Request(w).target # r
    BY <1>6 DEF MatchSource, Barred
  <2>2. CASE Got(w, auth)
    BY <1>1, <1>3, <2>1, <2>2
  <2>3. CASE Holding(w, "end_authorization", Next1(auth, "STALE"), rel)
    BY <1>1, <2>3, NewStep DEF Looks
  <2> QED  BY <1>6, <2>2, <2>3 DEF MatchSource
<1>7. CASE EndAuthorization(w)
  <2>1. CASE Leave(w)
    BY <1>1, <2>1, NewStep DEF Looks
  <2>2. CASE Got(w, auth)
    <3>1. auth.status \in Ended
      BY <1>1, <1>7 DEF AuthorityJob, EndAuthorization
    <3> QED  BY <1>1, <1>3, <2>2, <3>1 DEF InForce, Authorized, Ended
  <2> QED  BY <1>7, <2>1, <2>2 DEF EndAuthorization
<1> QED  BY <1>5, <1>6, <1>7

LEMMA StartLooksNot ==
    ASSUME TypeOK, NEW w \in Workers, NEW q \in Requests, Start(w, q)
    PROVE  Others(w) /\ ~Looks(job'[w])
<1>1. CASE StartWithdrawal(w, q)
  BY <1>1 DEF StartWithdrawal, TypeOK, Others, Looks, Idle
<1>2. CASE \E s \in {"read_source", "get_authorization", "read_authorization", "load_release"} :
             StartKeyed(w, q, s)
  BY <1>2, NewStep DEF StartKeyed, Looks
<1>3. CASE StartRefresh(w, q) \/ StartReplay(w, q) \/ StartValidation(w, q)
  BY <1>3, NewStep DEF StartRefresh, StartReplay, StartValidation, Looks
<1>4. CASE StartAssignment(w, q) \/ StartReleaseWithdrawal(w, q)
  BY <1>4, NewStep DEF StartAssignment, StartReleaseWithdrawal, Looks
<1> QED  BY <1>1, <1>2, <1>3, <1>4 DEF Start

LEMMA OtherLooksNot ==
    ASSUME TypeOK, NEW w \in Workers,
           \/ ReadSource(w) \/ CheckActive(w) \/ \E a \in Authorizations : CreateAuthorization(w, a)
           \/ Confirm(w) \/ WithdrawAuthorization(w)
           \/ ReadAuthorization(w) \/ CheckOpen(w) \/ \E r \in Releases : CreateRelease(w, r)
           \/ MarkReleaseStale(w) \/ FindStaleDraft(w) \/ MarkDraftStale(w)
           \/ CheckAuthorization(w) \/ CheckSource(w) \/ SaveChange(w)
           \/ RecordDecision(w) \/ ReloadRelease(w) \/ ReplayRelease(w) \/ FindDraft(w) \/ PrepareDraft(w)
           \/ ValidateRelease(w) \/ ValidateAuthorization(w) \/ Fails(w)
    PROVE  Others(w) /\ ~Looks(job'[w])
<1>1. CASE \/ \E a \in Authorizations : CreateAuthorization(w, a)
           \/ \E r \in Releases : CreateRelease(w, r)
           \/ Confirm(w) \/ WithdrawAuthorization(w) \/ SaveChange(w) \/ MarkDraftStale(w) \/ PrepareDraft(w)
           \/ Fails(w)
  BY <1>1, NewStep DEF CreateAuthorization, CreateRelease, Confirm, WithdrawAuthorization, SaveChange,
                       MarkDraftStale, PrepareDraft, Fails, Looks
<1>2. CASE \/ ReadSource(w) \/ CheckActive(w) \/ ReadAuthorization(w) \/ CheckOpen(w) \/ MarkReleaseStale(w)
           \/ FindStaleDraft(w) \/ FindDraft(w)
  BY <1>2, NewStep DEF ReadSource, CheckActive, ReadAuthorization, CheckOpen, MarkReleaseStale, FindStaleDraft,
                       FindDraft, Looks
<1>3. CASE \/ CheckAuthorization(w) \/ CheckSource(w) \/ RecordDecision(w) \/ ReloadRelease(w)
           \/ ReplayRelease(w) \/ ValidateRelease(w)
  BY <1>3, NewStep DEF CheckAuthorization, CheckSource, RecordDecision, ReloadRelease, ReplayRelease,
                       ValidateRelease, Looks
<1>4. CASE ValidateAuthorization(w)
  BY <1>4, NewStep DEF ValidateAuthorization, Looks
<1> QED  BY <1>1, <1>2, <1>3, <1>4

LEMMA BarredStep ==
    ASSUME IInv, Next, NEW r \in Releases, Barred(r)
    PROVE  Barred(r)'
<1>1. \/ job' = job
      \/ \E w \in Workers : Others(w) /\ (Looks(job'[w]) => job'[w].request.target # r)
  <2>1. CASE \E l \in Locks, v \in LockVersions : SourceChanges(l, v)
    BY <2>1 DEF SourceChanges
  <2> QED  BY <2>1, BarredReads, StartLooksNot, OtherLooksNot DEF Next, IInv
<1>2. \A v \in Workers : Looks(job'[v]) => job'[v].request.target # r
  BY <1>1 DEF Barred, Others, Looks, At, Request
<1> QED  BY <1>2, BarredRows DEF Barred, Over, Looks, At, Request

(* refreshRelease and release(): once its authorization has ended and no      *)
(* request is past its own look at it, no request, replay or retry decides a  *)
(* release, in any interleaving.                                              *)
THEOREM EndedStaysUndecided == Spec => BarredStaysBarred
<1>1. IInv /\ [Next]_vars => [\A r \in Releases : Barred(r) => Barred(r)']_vars
  BY BarredStep
<1> QED  BY <1>1, Invariant, PTL DEF Spec, BarredStaysBarred
-----------------------------------------------------------------------------
(* The refinement. *)
Views == <<AuthorityView, ReleaseView, draft>>

LEMMA AuthorizationShown ==
    ASSUME NEW row \in AuthorizationType, AuthorizationFits(row)
    PROVE  /\ ShownAuthorization(row).source = <<row.lock, row.lockVersion>>
           /\ \A x : [ShownAuthorization(row) EXCEPT !.status = x] =
                       [status |-> x, source |-> <<row.lock, row.lockVersion>>]
           /\ row.status = NoId => ShownAuthorization(row).status = "NONE"
           /\ row.status = "PENDING_CONFIRMATION" => ShownAuthorization(row).status = "PENDING"
           /\ row.status = "AUTHORIZED" => ShownAuthorization(row).status = "AUTHORIZED"
           /\ row.status \in Ended => ShownAuthorization(row).status \in {"ENDED", "LAPSED"}
           /\ ShownAuthorization(row).status = "ENDED" <=> row.version = 3
           /\ ShownAuthorization(row).status \in {"PENDING", "AUTHORIZED"} <=> Active(row)
<1>1. ShownAuthorization(row) =
        [status |-> ShownAuthorization(row).status, source |-> <<row.lock, row.lockVersion>>]
  BY DEF ShownAuthorization
<1>2. /\ row.status = NoId => ShownAuthorization(row).status = "NONE"
      /\ row.status = "PENDING_CONFIRMATION" => ShownAuthorization(row).status = "PENDING"
      /\ row.status = "AUTHORIZED" => ShownAuthorization(row).status = "AUTHORIZED"
      /\ row.status \in Ended /\ row.version = 3 => ShownAuthorization(row).status = "ENDED"
      /\ row.status \in Ended /\ row.version # 3 => ShownAuthorization(row).status = "LAPSED"
  BY DEF ShownAuthorization, NoId, Ended
<1>3. row.status \in {NoId, "PENDING_CONFIRMATION", "AUTHORIZED"} \cup Ended
  BY DEF AuthorizationType, AuthorizationStatuses
<1>4. row.status \notin Ended => row.version # 3
  BY <1>3 DEF AuthorizationFits, NoAuthorization
<1>5. ShownAuthorization(row).status = "ENDED" <=> row.version = 3
  BY <1>2, <1>3, <1>4
<1>6. ShownAuthorization(row).status \in {"PENDING", "AUTHORIZED"} <=> Active(row)
  BY <1>2, <1>3 DEF Active, NoId, Ended
<1> QED  BY <1>1, <1>2, <1>5, <1>6

LEMMA ReleaseShown ==
    ASSUME NEW rel \in ReleaseType
    PROVE  /\ ShownRelease(rel).of = rel.authorization /\ ShownRelease(rel).executor = rel.executor
           /\ ShownRelease(rel).passed <=> rel.checks = "PASS"
           /\ ShownRelease(rel).decided = rel.decided
           /\ OpenRelease(rel) => ShownRelease(rel).status = "OPEN"
           /\ rel.status = "RELEASED_FOR_EXECUTION" => ShownRelease(rel).status = "RELEASED"
           /\ rel.status \in {NoId, "STALE", "WITHDRAWN"} => ShownRelease(rel).status = rel.status
           /\ ShownRelease(rel).status = "OPEN" => OpenRelease(rel)
<1>1. rel.status \in {NoId, "RELEASED_FOR_EXECUTION", "STALE", "WITHDRAWN"} \cup Open
  BY DEF ReleaseType, ReleaseStatuses
<1>2. /\ ShownRelease(rel).of = rel.authorization /\ ShownRelease(rel).executor = rel.executor
      /\ ShownRelease(rel).decided = rel.decided
  BY DEF ShownRelease
<1>3. ShownRelease(rel).passed <=> rel.checks = "PASS"
  BY DEF ShownRelease
<1>4. /\ OpenRelease(rel) => ShownRelease(rel).status = "OPEN"
      /\ rel.status = "RELEASED_FOR_EXECUTION" => ShownRelease(rel).status = "RELEASED"
      /\ rel.status \in {NoId, "STALE", "WITHDRAWN"} => ShownRelease(rel).status = rel.status
  BY DEF ShownRelease, OpenRelease, Open, NoId
<1>5. ShownRelease(rel).status = "OPEN" => OpenRelease(rel)
  BY <1>1, <1>4 DEF OpenRelease, NoId
<1> QED  BY <1>2, <1>3, <1>4, <1>5

ShownStatuses == {"NONE", "OPEN", "RELEASED", "STALE", "WITHDRAWN"}
ShownType == [status: ShownStatuses, of: Authorizations \cup {NoId}, passed: BOOLEAN,
              executor: Executors \cup {NoId}, decided: BOOLEAN]

LEMMA ShownIsTyped == ASSUME NEW rel \in ReleaseType PROVE ShownRelease(rel) \in ShownType
<1>1. ShownRelease(rel).status \in ShownStatuses
  <2>1. rel.status \in {NoId, "STALE", "WITHDRAWN"} \/ rel.status = "RELEASED_FOR_EXECUTION" \/ OpenRelease(rel)
    BY DEF ReleaseType, ReleaseStatuses, OpenRelease
  <2> QED  BY <2>1, ReleaseShown DEF NoId, ShownStatuses
<1>2. ShownRelease(rel) = [status |-> ShownRelease(rel).status, of |-> rel.authorization,
                           passed |-> rel.checks = "PASS", executor |-> rel.executor, decided |-> rel.decided]
  BY DEF ShownRelease
<1>3. rel.authorization \in Authorizations \cup {NoId} /\ (rel.checks = "PASS") \in BOOLEAN
      /\ rel.executor \in Executors \cup {NoId} /\ rel.decided \in BOOLEAN
  BY DEF ReleaseType
<1> DEFINE x == ShownRelease(rel).status  b == rel.checks = "PASS"
<1> HIDE DEF x, b
<1>4. [status |-> x, of |-> rel.authorization, passed |-> b, executor |-> rel.executor,
       decided |-> rel.decided] \in ShownType
  BY <1>1, <1>3 DEF ShownType, x, b
<1> QED  BY <1>2, <1>4 DEF x, b

LEMMA AuthorityViewWritten ==
    ASSUME TypeOK, NEW a \in Authorizations, NEW row, authorization' = [authorization EXCEPT ![a] = row]
    PROVE  AuthorityView' = [AuthorityView EXCEPT ![a] = ShownAuthorization(row)]
  BY DEF TypeOK, AuthorityView, ShownAuthorization

LEMMA ReleaseViewWritten ==
    ASSUME TypeOK, NEW r \in Releases, NEW row, release' = [release EXCEPT ![r] = row]
    PROVE  ReleaseView' = [ReleaseView EXCEPT ![r] = ShownRelease(row)]
  BY DEF TypeOK, ReleaseView, ShownRelease, OpenRelease

(* Two shown releases with the same fields are one. *)
LEMMA SameShown ==
    ASSUME NEW x \in ShownType, NEW y \in ShownType, x.status = y.status, x.of = y.of,
           x.passed = y.passed, x.executor = y.executor, x.decided = y.decided
    PROVE  x = y
  BY DEF ShownType

LEMMA ViewTypes ==
    ASSUME IInv
    PROVE  /\ TypeOK
           /\ \A a \in Authorizations :
                /\ authorization[a] \in AuthorizationType /\ AuthorizationFits(authorization[a])
                /\ AuthorityView[a] = ShownAuthorization(authorization[a])
           /\ \A r \in Releases :
                /\ release[r] \in ReleaseType /\ ReleaseFits(release[r])
                /\ ReleaseView[r] = ShownRelease(release[r]) /\ ReleaseView[r] \in ShownType
<1>1. /\ TypeOK
      /\ \A a \in Authorizations : authorization[a] \in AuthorizationType /\ AuthorizationFits(authorization[a])
      /\ \A r \in Releases : release[r] \in ReleaseType /\ ReleaseFits(release[r])
  BY RowTypes DEF IInv, RowsFit
<1>2. /\ \A a \in Authorizations : AuthorityView[a] = ShownAuthorization(authorization[a])
      /\ \A r \in Releases : ReleaseView[r] = ShownRelease(release[r])
  BY DEF AuthorityView, ReleaseView
<1> QED  BY <1>1, <1>2, ShownIsTyped

LEMMA SameAuthorityView == ASSUME UNCHANGED authorization PROVE UNCHANGED AuthorityView
  BY DEF AuthorityView, ShownAuthorization

LEMMA SameReleaseView == ASSUME UNCHANGED release PROVE UNCHANGED ReleaseView
  BY DEF ReleaseView, ShownRelease, OpenRelease

LEMMA AskedPromise ==
    ASSUME IInv, NEW a \in Authorizations, NEW l \in Locks, NEW v \in LockVersions, Asked(a, l, v)
    PROVE  Promise!Ask(a, <<l, v>>)
<1> DEFINE row == [status |-> "PENDING_CONFIRMATION", version |-> 1, lock |-> l, lockVersion |-> v]
<1>1. authorization' = [authorization EXCEPT ![a] = row] /\ UNCHANGED <<release, draft>>
  BY DEF Asked
<1>2. ShownAuthorization(row) = [status |-> "PENDING", source |-> <<l, v>>]
  <2>1. row.status = "PENDING_CONFIRMATION" /\ row.lock = l /\ row.lockVersion = v
    OBVIOUS
  <2> HIDE DEF row
  <2> QED  BY <2>1 DEF ShownAuthorization, Ended
<1> HIDE DEF row
<1>3. AuthorityView' = [AuthorityView EXCEPT ![a] = [status |-> "PENDING", source |-> <<l, v>>]]
  BY <1>1, <1>2, ViewTypes, AuthorityViewWritten
<1>4. AuthorityView[a].status = "NONE"
  BY ViewTypes, AuthorizationShown DEF Asked, NoAuthorization
<1>5. \A b \in Authorizations : Promise!IsActive(b) => AuthorityView[b].source # <<l, v>>
  <2>1. SUFFICES ASSUME NEW b \in Authorizations, Promise!IsActive(b)
                 PROVE  AuthorityView[b].source # <<l, v>>
    OBVIOUS
  <2>2. Active(authorization[b])
    BY <2>1, ViewTypes, AuthorizationShown DEF Promise!IsActive
  <2>3. authorization[b].lock # l \/ authorization[b].lockVersion # v
    BY <2>2 DEF Asked, NoneActive
  <2>4. AuthorityView[b].source = <<authorization[b].lock, authorization[b].lockVersion>>
    BY ViewTypes, AuthorizationShown
  <2> QED  BY <2>3, <2>4
<1>6. UNCHANGED <<ReleaseView, draft>>
  BY <1>1, SameReleaseView
<1> QED  BY <1>3, <1>4, <1>5, <1>6 DEF Promise!Ask

LEMMA MovedPromise ==
    ASSUME IInv, NEW a \in Authorizations, NEW s \in Ended \cup {"AUTHORIZED"}, Moved(a, s)
    PROVE  Promise!Authorize(a) \/ Promise!End(a)
<1> DEFINE row == authorization[a]  next == Next1(row, s)  shown == ShownAuthorization(next)
<1>1. row \in AuthorizationType /\ AuthorizationFits(row) /\ TypeOK /\ Active(row)
      /\ AuthorityView[a] = ShownAuthorization(row)
  BY ViewTypes DEF Moved, Active
<1>2. /\ next.status = s /\ next.version = row.version + 1
      /\ next.lock = row.lock /\ next.lockVersion = row.lockVersion
  BY <1>1, NextAuthorization DEF AuthorizationStatuses
<1>3. shown = [AuthorityView[a] EXCEPT !.status = shown.status]
  <2>1. shown = [status |-> shown.status, source |-> <<next.lock, next.lockVersion>>]
    BY DEF ShownAuthorization
  <2>2. [ShownAuthorization(row) EXCEPT !.status = shown.status] =
          [status |-> shown.status, source |-> <<row.lock, row.lockVersion>>]
    BY <1>1, AuthorizationShown
  <2> QED  BY <1>1, <1>2, <2>1, <2>2
<1>4. authorization' = [authorization EXCEPT ![a] = next] /\ UNCHANGED <<release, draft>>
  BY DEF Moved
<1>5. AuthorityView' = [AuthorityView EXCEPT ![a] = shown]
  BY <1>1, <1>4, AuthorityViewWritten
<1>6. UNCHANGED <<ReleaseView, draft>>
  BY <1>4, SameReleaseView
<1>7. CASE s = "AUTHORIZED" /\ row.status = "PENDING_CONFIRMATION"
  <2>1. shown.status = "AUTHORIZED" /\ AuthorityView[a].status = "PENDING"
    BY <1>1, <1>2, <1>7, AuthorizationShown DEF ShownAuthorization, Ended
  <2>2. Promise!Authorize(a)
    BY <1>3, <1>5, <1>6, <2>1 DEF Promise!Authorize
  <2> QED  BY <2>2
<1>8. CASE s \in Ended
  <2>1. /\ AuthorityView[a].status \in {"PENDING", "AUTHORIZED"}
        /\ shown.status = IF AuthorityView[a].status = "PENDING" THEN "LAPSED" ELSE "ENDED"
    <3>1. CASE row.status = "PENDING_CONFIRMATION"
      <4>1. AuthorityView[a].status = "PENDING" /\ next.version # 3
        BY <1>1, <1>2, <3>1, AuthorizationShown DEF AuthorizationFits
      <4> QED  BY <1>2, <1>8, <4>1 DEF ShownAuthorization, Ended
    <3>2. CASE row.status = "AUTHORIZED"
      <4>1. AuthorityView[a].status = "AUTHORIZED" /\ next.version = 3
        BY <1>1, <1>2, <3>2, AuthorizationShown DEF AuthorizationFits
      <4> QED  BY <1>2, <1>8, <4>1 DEF ShownAuthorization, Ended
    <3> QED  BY <1>1, <3>1, <3>2 DEF Active
  <2>2. Promise!End(a)
    BY <1>3, <1>5, <1>6, <2>1 DEF Promise!End, Promise!IsActive
  <2> QED  BY <2>2
<1> QED  BY <1>7, <1>8 DEF Moved, Ended

LEMMA OpenedPromise ==
    ASSUME IInv, NEW r \in Releases, NEW a \in Authorizations, Opened(r, a)
    PROVE  Promise!Open(r, a)
<1> DEFINE row == [NoRelease EXCEPT !.status = "DRAFT", !.version = 1, !.authorization = a,
                                    !.authorizationVersion = 2]
<1>1. release' = [release EXCEPT ![r] = row] /\ UNCHANGED <<authorization, draft>> /\ release[r] = NoRelease
  BY DEF Opened
<1>2. row.status = "DRAFT" /\ row.authorization = a /\ row.checks = "UNKNOWN" /\ row.executor = NoId
      /\ row.decided = FALSE
  BY DEF NoRelease
<1> HIDE DEF row
<1>3. ShownRelease(row) = [status |-> "OPEN", of |-> a, passed |-> FALSE, executor |-> NoId, decided |-> FALSE]
  BY <1>2 DEF ShownRelease, OpenRelease, Open
<1> DEFINE none == Promise!NoRelease  opened == [none EXCEPT !.status = "OPEN", !.of = a]
<1>4. opened = ShownRelease(row)
  <2>1. none \in ShownType /\ ~none.passed /\ none.executor = NoId /\ ~none.decided
    BY DEF Promise!NoRelease, ShownType, ShownStatuses
  <2> HIDE DEF none
  <2>2. /\ opened \in ShownType /\ opened.status = "OPEN" /\ opened.of = a /\ ~opened.passed
        /\ opened.executor = NoId /\ ~opened.decided
    BY <2>1 DEF ShownType, ShownStatuses
  <2>3. /\ ShownRelease(row) \in ShownType /\ ShownRelease(row).status = "OPEN"
        /\ ShownRelease(row).of = a /\ ~ShownRelease(row).passed
        /\ ShownRelease(row).executor = NoId /\ ~ShownRelease(row).decided
    BY <1>3 DEF ShownType, ShownStatuses
  <2> HIDE DEF opened
  <2> QED  BY <2>2, <2>3, SameShown DEF ShownType
<1>5. ReleaseView' = [ReleaseView EXCEPT ![r] = [Promise!NoRelease EXCEPT !.status = "OPEN", !.of = a]]
  BY <1>1, <1>3, <1>4, ViewTypes, ReleaseViewWritten
<1>6. ReleaseView[r] = Promise!NoRelease
  <2>1. ReleaseView[r] = ShownRelease(NoRelease)
    BY <1>1, ViewTypes
  <2> QED  BY <2>1 DEF ShownRelease, NoRelease, Promise!NoRelease, OpenRelease, Open, NoId
<1>7. AuthorityView[a].status \in {"AUTHORIZED", "ENDED"}
  BY ViewTypes, AuthorizationShown DEF Opened, Given
<1>8. \A p \in Releases : Promise!IsOpen(p) => ReleaseView[p].of # a
  <2>1. SUFFICES ASSUME NEW p \in Releases, Promise!IsOpen(p) PROVE ReleaseView[p].of # a
    OBVIOUS
  <2>2. OpenRelease(release[p]) /\ ReleaseView[p].of = release[p].authorization
    BY <2>1, ViewTypes, ReleaseShown DEF Promise!IsOpen
  <2>3. release[p].authorizationVersion = 2
    BY <2>2, ViewTypes DEF ReleaseFits, OpenRelease, Open, NoId
  <2> QED  BY <2>2, <2>3 DEF Opened, NoneOpen
<1>9. UNCHANGED <<AuthorityView, draft>>
  BY <1>1, SameAuthorityView
<1> QED  BY <1>5, <1>6, <1>7, <1>8, <1>9 DEF Promise!Open, Promise!Change

LEMMA ShownChange ==
    ASSUME NEW x \in ShownType, NEW s \in ShownStatuses, NEW e \in Executors, NEW b \in BOOLEAN,
           NEW y \in ShownType, y.of = x.of
    PROVE  /\ y.status = s /\ y.passed = x.passed /\ y.executor = x.executor /\ y.decided = x.decided =>
                y = [x EXCEPT !.status = s]
           /\ y.status = x.status /\ y.passed = x.passed /\ y.executor = e /\ y.decided = x.decided =>
                y = [x EXCEPT !.executor = e]
           /\ y.status = x.status /\ y.passed = b /\ y.executor = x.executor /\ y.decided = x.decided =>
                y = [x EXCEPT !.passed = b]
<1>1. /\ [x EXCEPT !.status = s] \in ShownType /\ [x EXCEPT !.executor = e] \in ShownType
      /\ [x EXCEPT !.passed = b] \in ShownType
  BY DEF ShownType
<1>2. ASSUME y.status = s, y.passed = x.passed, y.executor = x.executor, y.decided = x.decided
      PROVE  y = [x EXCEPT !.status = s]
  BY <1>2 DEF ShownType
<1>3. ASSUME y.status = x.status, y.passed = x.passed, y.executor = e, y.decided = x.decided
      PROVE  y = [x EXCEPT !.executor = e]
  BY <1>3 DEF ShownType
<1>4. ASSUME y.status = x.status, y.passed = b, y.executor = x.executor, y.decided = x.decided
      PROVE  y = [x EXCEPT !.passed = b]
  BY <1>4 DEF ShownType
<1> QED  BY <1>2, <1>3, <1>4

LEMMA ChangedView ==
    ASSUME IInv, NEW r \in Releases, NEW next \in ReleaseType, Became(r, next)
    PROVE  /\ ReleaseView' = [ReleaseView EXCEPT ![r] = ShownRelease(next)]
           /\ ShownRelease(next) \in ShownType /\ UNCHANGED <<AuthorityView, draft>>
  BY ViewTypes, ReleaseViewWritten, SameAuthorityView, ShownIsTyped DEF Became

LEMMA StaledPromise ==
    ASSUME IInv, NEW r \in Releases, Staled(r)
    PROVE  Promise!Lapse(r)
<1> DEFINE row == release[r]  next == Next1(row, "STALE")
<1>1. TypeOK /\ row \in ReleaseType /\ ReleaseFits(row) /\ ReleaseView[r] = ShownRelease(row)
      /\ ReleaseView[r] \in ShownType
  BY ViewTypes
<1>2. /\ next \in ReleaseType /\ next.status = "STALE" /\ next.authorization = row.authorization
      /\ next.checks = row.checks /\ next.executor = row.executor /\ next.decided = row.decided
  BY <1>1, NextRelease DEF ReleaseStatuses
<1>3. row.status \in Open \cup {"RELEASED_FOR_EXECUTION"} /\ Over(row.authorization) /\ Became(r, next)
  BY DEF Staled
<1> HIDE DEF next
<1>4. /\ ReleaseView' = [ReleaseView EXCEPT ![r] = ShownRelease(next)]
      /\ ShownRelease(next) \in ShownType /\ UNCHANGED <<AuthorityView, draft>>
  BY <1>2, <1>3, ChangedView
<1>5. ShownRelease(next) = [ReleaseView[r] EXCEPT !.status = "STALE"]
  <2>1. /\ ShownRelease(next).status = "STALE" /\ ShownRelease(next).of = ReleaseView[r].of
        /\ ShownRelease(next).executor = ReleaseView[r].executor
        /\ ShownRelease(next).decided = ReleaseView[r].decided
    BY <1>1, <1>2, ReleaseShown
  <2>2. ShownRelease(next).passed = ReleaseView[r].passed
    BY <1>1, <1>2 DEF ShownRelease
  <2> QED  BY <1>1, <1>4, <2>1, <2>2 DEF ShownType
<1>6. ReleaseView[r].status \in {"OPEN", "RELEASED"}
  BY <1>1, <1>3, ReleaseShown DEF OpenRelease
<1>7. Promise!IsOver(ReleaseView[r].of)
  <2>1. ReleaseView[r].of = row.authorization /\ row.authorization \in Authorizations
    BY <1>1, <1>3, ReleaseShown DEF ReleaseFits, Open, NoId
  <2> QED  BY <1>3, <2>1, ViewTypes, AuthorizationShown DEF Promise!IsOver, Over
<1> QED  BY <1>4, <1>5, <1>6, <1>7 DEF Promise!Lapse, Promise!Change

LEMMA DecidedPromise ==
    ASSUME IInv, NEW r \in Releases, Decided(r)
    PROVE  Promise!Decide(r)
<1> DEFINE row == release[r]  next == Decides(row)  x == ReleaseView[r]
<1>1. TypeOK /\ row \in ReleaseType /\ x = ShownRelease(row) /\ x \in ShownType
  BY ViewTypes
<1>2. /\ next \in ReleaseType /\ next.status = "RELEASED_FOR_EXECUTION"
      /\ next.authorization = row.authorization /\ next.checks = row.checks
      /\ next.executor = row.executor /\ next.decided
  BY <1>1, DecidesFields DEF SameFields
<1>3. Releasable(row) /\ Became(r, next)
  BY DEF Decided
<1> HIDE DEF next
<1>4. /\ ReleaseView' = [ReleaseView EXCEPT ![r] = ShownRelease(next)]
      /\ ShownRelease(next) \in ShownType /\ UNCHANGED <<AuthorityView, draft>>
  BY <1>2, <1>3, ChangedView
<1>5. x.status = "OPEN" /\ x.passed /\ x.executor \in Executors
  BY <1>1, <1>3, ReleaseShown DEF Releasable, OpenRelease, Open, ReleaseType
<1>6. ShownRelease(next) = [x EXCEPT !.status = "RELEASED", !.decided = TRUE]
  <2>1. /\ ShownRelease(next).status = "RELEASED" /\ ShownRelease(next).of = x.of
        /\ ShownRelease(next).executor = x.executor /\ ShownRelease(next).decided = TRUE
    BY <1>1, <1>2, ReleaseShown DEF ReleaseType
  <2>2. ShownRelease(next).passed = x.passed
    BY <1>1, <1>2 DEF ShownRelease
  <2> DEFINE y == [x EXCEPT !.status = "RELEASED", !.decided = TRUE]
  <2> HIDE DEF x
  <2>3. /\ y \in ShownType /\ y.status = "RELEASED" /\ y.of = x.of /\ y.passed = x.passed
        /\ y.executor = x.executor /\ y.decided = TRUE
    BY <1>1 DEF ShownType, ShownStatuses
  <2> HIDE DEF y
  <2>4. ShownRelease(next) = y
    BY <1>4, <2>1, <2>2, <2>3, SameShown
  <2> QED  BY <2>4 DEF y
<1> QED  BY <1>4, <1>5, <1>6 DEF Promise!Decide, Promise!Change, Promise!IsOpen

LEMMA EditedPromise ==
    ASSUME IInv, NEW r \in Releases, Edited(r)
    PROVE  \/ Promise!Evaluate(r) \/ Promise!Assign(r) \/ Promise!Withdraw(r)
           \/ UNCHANGED Views
<1> DEFINE row == release[r]  x == ReleaseView[r]
<1>1. TypeOK /\ row \in ReleaseType /\ x = ShownRelease(row) /\ x \in ShownType
  BY ViewTypes
<1>2. PICK next, kind : Changes(next, row, kind) /\ Became(r, next)
  BY DEF Edited
<1> DEFINE y == ShownRelease(next)
<1>3. next \in ReleaseType /\ next.authorization = row.authorization /\ next.decided = row.decided
  BY <1>2, ChangeFits DEF SameFields
<1>4. /\ ReleaseView' = [ReleaseView EXCEPT ![r] = y] /\ y \in ShownType
      /\ UNCHANGED <<AuthorityView, draft>>
  BY <1>2, <1>3, ChangedView
<1>5. y.of = x.of /\ y.decided = x.decided /\ y.executor = next.executor /\ x.executor = row.executor
  BY <1>1, <1>3, ReleaseShown
<1>6. (y.passed = (next.checks = "PASS")) /\ (x.passed = (row.checks = "PASS"))
  BY <1>1 DEF ShownRelease
<1>7. "WITHDRAWN" \in ReleaseStatuses /\ "READY_FOR_RELEASE" \in ReleaseStatuses
      /\ "BLOCKED" \in ReleaseStatuses /\ row.status \in ReleaseStatuses
  BY <1>1 DEF ReleaseStatuses, Open, ReleaseType
<1>8. CASE row.status \in Open \cup {"STALE", "WITHDRAWN"} /\ next = Next1(row, "WITHDRAWN")
  <2>1. next.status = "WITHDRAWN" /\ next.checks = row.checks /\ next.executor = row.executor
    BY <1>1, <1>7, <1>8, NextRelease
  <2>2. y.status = "WITHDRAWN" /\ y.passed = x.passed /\ y.executor = x.executor
    BY <1>3, <1>5, <1>6, <2>1, ReleaseShown
  <2>3. CASE row.status = "WITHDRAWN"
    <3>1. x.status = "WITHDRAWN"
      BY <1>1, <2>3, ReleaseShown
    <3>2. x = y
      BY <1>1, <1>4, <1>5, <2>2, <3>1, SameShown
    <3>3. ReleaseView' = ReleaseView
      BY <1>4, <3>2 DEF ReleaseView
    <3> QED  BY <1>4, <3>3 DEF Views
  <2>4. CASE row.status \in Open \cup {"STALE"}
    <3>1. x.status \in {"OPEN", "STALE"}
      BY <1>1, <2>4, ReleaseShown DEF OpenRelease
    <3>2. y = [x EXCEPT !.status = "WITHDRAWN"]
      <4> HIDE DEF x, y
      <4> QED  BY <1>1, <1>4, <1>5, <2>2 DEF ShownType
    <3>3. Promise!Withdraw(r)
      BY <1>4, <3>1, <3>2 DEF Promise!Withdraw, Promise!Change
    <3> QED  BY <3>3
  <2> QED  BY <1>8, <2>3, <2>4
<1>9. CASE OpenRelease(row) /\ \E e \in Executors : next = [Next1(row, row.status) EXCEPT !.executor = e]
  <2>1. PICK e \in Executors : next = [Next1(row, row.status) EXCEPT !.executor = e]
    BY <1>9
  <2>2. next.status = row.status /\ next.checks = row.checks /\ next.executor = e
    <3>1. next.status = row.status /\ next.checks = row.checks
      BY <1>1, <1>7, <2>1, ExecutorFields
    <3>2. Next1(row, row.status) \in ReleaseType
      BY <1>1, <1>7, NextRelease
    <3>3. next.executor = e
      BY <2>1, <3>2 DEF ReleaseType
    <3> QED  BY <3>1, <3>3
  <2>3. x.status = "OPEN" /\ y.status = "OPEN" /\ y.passed = x.passed /\ y.executor = e
    BY <1>1, <1>3, <1>5, <1>6, <1>9, <2>2, ReleaseShown DEF OpenRelease
  <2>4. y = [x EXCEPT !.executor = e]
    <3> HIDE DEF x, y
    <3> QED  BY <1>1, <1>4, <1>5, <2>3 DEF ShownType
  <2>5. Promise!Assign(r)
    BY <1>4, <2>3, <2>4 DEF Promise!Assign, Promise!Change, Promise!IsOpen
  <2> QED  BY <2>5
<1>10. CASE /\ OpenRelease(row)
            /\ \/ next = [Next1(row, "READY_FOR_RELEASE") EXCEPT !.checks = "PASS"]
               \/ next = [Next1(row, "BLOCKED") EXCEPT !.checks = "FAIL"]
  <2>1. next.status \in {"READY_FOR_RELEASE", "BLOCKED"} /\ next.executor = row.executor
    <3>1. CASE next = [Next1(row, "READY_FOR_RELEASE") EXCEPT !.checks = "PASS"]
      <4>1. Next1(row, "READY_FOR_RELEASE") \in ReleaseType
            /\ Next1(row, "READY_FOR_RELEASE").executor = row.executor
            /\ Next1(row, "READY_FOR_RELEASE").status = "READY_FOR_RELEASE"
        BY <1>1, <1>7, NextRelease
      <4> QED  BY <3>1, <4>1 DEF ReleaseType
    <3>2. CASE next = [Next1(row, "BLOCKED") EXCEPT !.checks = "FAIL"]
      <4>1. Next1(row, "BLOCKED") \in ReleaseType /\ Next1(row, "BLOCKED").executor = row.executor
            /\ Next1(row, "BLOCKED").status = "BLOCKED"
        BY <1>1, <1>7, NextRelease
      <4> QED  BY <3>2, <4>1 DEF ReleaseType
    <3> QED  BY <1>10, <3>1, <3>2
  <2>2. x.status = "OPEN" /\ y.status = "OPEN" /\ y.executor = x.executor
    BY <1>1, <1>3, <1>5, <1>10, <2>1, ReleaseShown DEF OpenRelease, Open
  <2>3. y.passed \in BOOLEAN
    BY <1>4 DEF ShownType
  <2>4. y = [x EXCEPT !.passed = y.passed]
    <3> HIDE DEF x, y
    <3> QED  BY <1>1, <1>4, <1>5, <2>2, <2>3 DEF ShownType
  <2>5. Promise!Evaluate(r)
    BY <1>4, <2>2, <2>3, <2>4 DEF Promise!Evaluate, Promise!Change, Promise!IsOpen
  <2> QED  BY <2>5
<1> QED  BY <1>2, <1>8, <1>9, <1>10 DEF Changes

LEMMA PreparedPromise ==
    ASSUME IInv, NEW r \in Releases, Prepared(r)
    PROVE  Promise!Prepare(r)
<1>1. ReleaseView[r].decided /\ ReleaseView[r].executor = release[r].executor
  BY ViewTypes, ReleaseShown DEF Prepared
<1>2. draft[r] = Promise!NoDraft
  BY DEF Prepared, NoDraft, Promise!NoDraft, NoId
<1>3. UNCHANGED <<AuthorityView, ReleaseView>>
  BY SameAuthorityView, SameReleaseView DEF Prepared
<1> QED  BY <1>1, <1>2, <1>3 DEF Prepared, Promise!Prepare

LEMMA OutdatedPromise ==
    ASSUME IInv, NEW r \in Releases, Outdated(r)
    PROVE  Promise!Outdate(r) \/ UNCHANGED Views
<1>1. UNCHANGED <<AuthorityView, ReleaseView>>
  BY SameAuthorityView, SameReleaseView DEF Outdated
<1>2. draft[r] \in DraftType /\ draft[r].status \in {"PREPARED", "STALE"} /\ draft \in [Releases -> DraftType]
  <2>1. draft[r] \in DraftType /\ DraftFits(r) /\ draft \in [Releases -> DraftType]
    BY DEF IInv, TypeOK, RowsFit
  <2> QED  BY <2>1 DEF Outdated, DraftFits, DraftType
<1>3. CASE draft[r].status = "STALE"
  <2>1. [draft[r] EXCEPT !.status = "STALE"] = draft[r]
    BY <1>2, <1>3 DEF DraftType
  <2>2. draft' = draft
    BY <1>2, <2>1 DEF Outdated
  <2> QED  BY <1>1, <2>2 DEF Views
<1>4. CASE draft[r].status = "PREPARED"
  <2>1. ReleaseView[r].of = release[r].authorization /\ release[r].authorization \in Authorizations
    <3>1. release[r].status # NoId
      BY ViewTypes DEF Outdated, ReleaseFits, NoRelease
    <3> QED  BY <3>1, ViewTypes, ReleaseShown DEF ReleaseFits
  <2>2. Promise!IsOver(ReleaseView[r].of)
    BY <2>1, ViewTypes, AuthorizationShown DEF Outdated, Over, Promise!IsOver
  <2>3. Promise!Outdate(r)
    BY <1>1, <1>4, <2>2 DEF Outdated, Promise!Outdate
  <2> QED  BY <2>3
<1> QED  BY <1>2, <1>3, <1>4

LEMMA InitPromise == Init => Promise!Init
<1> SUFFICES ASSUME Init PROVE Promise!Init
  OBVIOUS
<1>1. ShownAuthorization(NoAuthorization) = [status |-> "NONE", source |-> <<NoId, NoId>>]
  BY DEF ShownAuthorization, NoAuthorization, NoId, Ended
<1>2. ShownRelease(NoRelease) = Promise!NoRelease
  BY DEF ShownRelease, NoRelease, Promise!NoRelease, OpenRelease, Open, NoId
<1>3. /\ \A a \in Authorizations : authorization[a] = NoAuthorization
      /\ \A r \in Releases : release[r] = NoRelease
      /\ draft = [r \in Releases |-> NoDraft]
  BY DEF Init
<1>4. AuthorityView = [a \in Authorizations |-> [status |-> "NONE", source |-> <<NoId, NoId>>]]
  BY <1>1, <1>3 DEF AuthorityView
<1>5. ReleaseView = [r \in Releases |-> Promise!NoRelease]
  BY <1>2, <1>3 DEF ReleaseView
<1>6. NoDraft = Promise!NoDraft
  BY DEF NoDraft, Promise!NoDraft, NoId
<1> QED  BY <1>3, <1>4, <1>5, <1>6 DEF Promise!Init

LEMMA NextPromise == IInv /\ [Next]_vars => [Promise!Next]_Views
<1> SUFFICES ASSUME IInv, [Next]_vars PROVE [Promise!Next]_Views
  OBVIOUS
<1>1. CASE UNCHANGED vars \/ Kept
  BY <1>1, SameAuthorityView, SameReleaseView DEF vars, rows, Kept, Views
<1>2. ASSUME NEW a \in Authorizations, NEW l \in Locks, NEW v \in LockVersions, Asked(a, l, v)
      PROVE  Promise!Next
  <2>1. <<l, v>> \in Locks \X LockVersions
    OBVIOUS
  <2> QED  BY <1>2, <2>1, AskedPromise DEF Promise!Next
<1>3. ASSUME NEW a \in Authorizations, NEW s \in Ended \cup {"AUTHORIZED"}, Moved(a, s) PROVE Promise!Next
  BY <1>3, MovedPromise DEF Promise!Next
<1>4. ASSUME NEW r \in Releases, NEW a \in Authorizations, Opened(r, a) PROVE Promise!Next
  BY <1>4, OpenedPromise DEF Promise!Next
<1>5. ASSUME NEW r \in Releases, Staled(r) \/ Decided(r) \/ Prepared(r) PROVE Promise!Next
  BY <1>5, StaledPromise, DecidedPromise, PreparedPromise DEF Promise!Next
<1>6. ASSUME NEW r \in Releases, Edited(r) \/ Outdated(r) PROVE Promise!Next \/ UNCHANGED Views
  BY <1>6, EditedPromise, OutdatedPromise DEF Promise!Next
<1> QED  BY <1>1, <1>2, <1>3, <1>4, <1>5, <1>6, Effects

(* Filing governance, with its stale reads, conflicting versions, replays and *)
(* crashes, implements FilingPromise.                                         *)
THEOREM FilingsKeepThePromise == Spec => PromiseSpec
<1> QED  BY InitPromise, NextPromise, Invariant, PTL DEF Spec, PromiseSpec, Promise!Spec, Views
-----------------------------------------------------------------------------
(* What is promised of the rows, whatever the requests do. *)

(* There is never a second active authorization of a lock version, nor a     *)
(* second open release of an authorization: createAuthorization and          *)
(* createRelease look first and insert later, and the unique indexes         *)
(* filing_authorizations_active_source_idx and                               *)
(* execution_releases_active_authorization_idx, the second of which also names *)
(* the authorization's version, are enough.                                  *)
THEOREM OneAtATime == Spec => [](OneActive /\ OneOpen)
<1>1. IInv => OneActive /\ OneOpen
  BY DEF IInv
<1> QED  BY <1>1, Invariant, PTL

OneCommandEach ==
    \A r \in Releases, k, j \in Keys : DecisionOf(r, k) /\ DecisionOf(r, j) => k = j
DecisionsAgree ==
    /\ \A r \in Releases :
         /\ release[r].decided <=> \E k \in Keys : DecisionOf(r, k)
         /\ release[r].decided => release[r].checks = "PASS" /\ release[r].executor # NoId
         /\ draft[r] # NoDraft => release[r].decided /\ draft[r].executor = release[r].executor
    /\ OneCommandEach

(* What a step adds to the commands. *)
Added(k) ==
    /\ command[k] = NoCommand
    /\ \A j \in Keys \ {k} : command'[j] = command[j]
    /\ \A r \in Releases : DecisionOf(r, k)' => ~release[r].decided

Records(w) ==
    \/ \E a \in Authorizations : CreateAuthorization(w, a)
    \/ \E r \in Releases : CreateRelease(w, r)
    \/ Confirm(w) \/ RecordDecision(w)

LEMMA OnlyRecords ==
    ASSUME [Next]_vars, command' # command
    PROVE  \E w \in Workers : Records(w)
<1>1. ~(UNCHANGED vars) /\ \A l \in Locks, v \in LockVersions : ~SourceChanges(l, v)
  BY DEF SourceChanges, rows, vars
<1>2. ASSUME NEW w \in Workers, NEW q \in Requests, Start(w, q) PROVE FALSE
  BY <1>2 DEF Start, StartKeyed, StartWithdrawal, StartRefresh, StartAssignment,
              StartReleaseWithdrawal, StartReplay, StartValidation, rows
<1>3. ASSUME NEW w \in Workers,
             \/ ReadSource(w) \/ CheckActive(w) \/ ReadAuthorization(w) \/ CheckOpen(w)
             \/ GetAuthorization(w) \/ MatchSource(w) \/ EndAuthorization(w) \/ WithdrawAuthorization(w)
             \/ MarkReleaseStale(w) \/ FindStaleDraft(w) \/ MarkDraftStale(w)
             \/ CheckAuthorization(w) \/ CheckSource(w) \/ SaveChange(w)
             \/ ReloadRelease(w) \/ ReplayRelease(w) \/ FindDraft(w) \/ PrepareDraft(w)
             \/ ValidateRelease(w) \/ ValidateAuthorization(w) \/ Fails(w)
      PROVE  FALSE
  BY <1>3 DEF ReadSource, CheckActive, ReadAuthorization, CheckOpen, GetAuthorization, MatchSource,
              EndAuthorization, WithdrawAuthorization, MarkReleaseStale, FindStaleDraft, MarkDraftStale,
              CheckAuthorization, CheckSource, SaveChange, ReloadRelease, ReplayRelease, FindDraft,
              PrepareDraft, ValidateRelease, ValidateAuthorization, Fails, rows
<1> QED  BY <1>1, <1>2, <1>3 DEF Next, Records

LEMMA CommandsGrow ==
    ASSUME IInv, [Next]_vars, command' # command
    PROVE  \E k \in Keys : Added(k)
<1>1. PICK w \in Workers : Records(w)
  BY OnlyRecords
<1>2. PICK q \in Requests : q = Request(w) /\ job[w].pc # "idle" /\ KindFits(job[w].pc, q.kind)
  BY <1>1, JobFields
  DEF IInv, Records, CreateAuthorization, CreateRelease, Confirm, RecordDecision, At, Kind, Request
<1>3. PICK t : /\ ~Recorded(q) /\ Record(q, t)
               /\ q.kind = "DECIDE" => RecordDecision(w) /\ t = q.target
  BY <1>1, <1>2
  DEF Records, CreateAuthorization, CreateRelease, Confirm, RecordDecision, At, KindFits,
      ForAuthorization, ForRelease
<1>4. q.key \in Keys
  <2>1. q.kind \in Keyed
    BY <1>1, <1>2
    DEF Records, CreateAuthorization, CreateRelease, Confirm, RecordDecision, At, KindFits,
        ForAuthorization, ForRelease, Deciding, Keyed
  <2> QED  BY <2>1, RequestFields
<1>5. /\ command'[q.key].request = q /\ command'[q.key].target = t
      /\ \A j \in Keys \ {q.key} : command'[j] = command[j]
  BY <1>3, <1>4 DEF Record, IInv, TypeOK
<1>6. ASSUME NEW r \in Releases, DecisionOf(r, q.key)' PROVE ~release[r].decided
  <2>1. q.kind = "DECIDE" /\ t = r
    BY <1>5, <1>6 DEF DecisionOf
  <2>2. RecordDecision(w) /\ Request(w).target = r /\ ReleaseJob(w) /\ TypeOK
    BY <1>2, <1>3, <2>1 DEF IInv, JobsFit, JobFits
  <2>3. SaveRelease(r, job[w].rel) /\ At(w, "record_decision")
    BY <1>2, <1>3, <2>2 DEF RecordDecision
  <2>4. job[w].rel.version = release[r].version + 1
    BY <2>2, <2>3, JobFields, RowTypes DEF SaveRelease, Follows, ReleaseType
  <2>5. Releasable(release[r])
    BY <2>2, <2>3, <2>4 DEF ReleaseJob, Written
  <2> QED  BY <2>5 DEF Releasable, IInv, RowsFit, ReleaseFits, OpenRelease, Open
<1>7. Added(q.key)
  BY <1>3, <1>5, <1>6 DEF Added, Recorded
<1> QED  BY <1>4, <1>7

LEMMA OneCommandStep == IInv /\ OneCommandEach /\ [Next]_vars => OneCommandEach'
<1> SUFFICES ASSUME IInv, OneCommandEach, [Next]_vars PROVE OneCommandEach'
  OBVIOUS
<1>1. CASE command' = command
  BY <1>1 DEF OneCommandEach, DecisionOf
<1>2. ASSUME NEW n \in Keys, Added(n) PROVE OneCommandEach'
  <2>1. ASSUME NEW r \in Releases, NEW k \in Keys, k # n, DecisionOf(r, k)' PROVE ~DecisionOf(r, n)'
    <3>1. DecisionOf(r, k)
      BY <1>2, <2>1 DEF Added, DecisionOf
    <3>2. release[r].decided
      BY <3>1 DEF IInv, RowsFit, CommandFits
    <3> QED  BY <1>2, <3>2 DEF Added
  <2>2. ASSUME NEW r \in Releases, NEW k \in Keys, NEW j \in Keys, k # n, j # n,
               DecisionOf(r, k)', DecisionOf(r, j)'
        PROVE  k = j
    BY <1>2, <2>2 DEF Added, DecisionOf, OneCommandEach
  <2> QED  BY <2>1, <2>2 DEF OneCommandEach
<1> QED  BY <1>1, <1>2, CommandsGrow

(* A release is decided by one command and no more, however often release()  *)
(* is called, with its own key or another, and whatever crashed in between;  *)
(* a decision always has its command, so that a replay can repair the draft; *)
(* it rests on passed checks and an executor, and a draft is always of a     *)
(* decision and for the executor that was decided (release, buildTaskDraft). *)
THEOREM DecidedOnce == Spec => []DecisionsAgree
<1>1. Init => OneCommandEach
  BY DEF Init, OneCommandEach, DecisionOf, NoCommand, NoRequest, NoId
<1>2. Spec => []OneCommandEach
  BY <1>1, OneCommandStep, Invariant, PTL DEF Spec
<1>3. IInv /\ OneCommandEach => DecisionsAgree
  BY DEF IInv, RowsFit, CommandFits, Repairable, ReleaseFits, DraftFits, DecisionsAgree
<1> QED  BY <1>2, <1>3, Invariant, PTL

Stands(r) ==
    /\ release[r].decided =>
         /\ release'[r].decided
         /\ release'[r].authorization = release[r].authorization
         /\ release'[r].executor = release[r].executor
    /\ draft[r] # NoDraft => draft'[r] # NoDraft /\ draft'[r].executor = draft[r].executor

LEMMA DecisionStands ==
    ASSUME IInv, [Next]_vars, NEW r \in Releases
    PROVE  Stands(r)
<1>1. /\ TypeOK /\ release[r] \in ReleaseType /\ ReleaseFits(release[r])
      /\ draft[r] \in DraftType
  BY RowTypes DEF IInv, RowsFit, TypeOK
<1>2. CASE UNCHANGED <<release, draft>>
  BY <1>2 DEF Stands
<1>3. ASSUME NEW a \in Authorizations, NEW p \in Releases, Opened(p, a) PROVE Stands(r)
  <2>1. p # r => release'[r] = release[r]
    BY <1>1, <1>3 DEF Opened, TypeOK
  <2> QED  BY <1>3, <2>1 DEF Opened, Stands, NoRelease
<1>4. ASSUME NEW p \in Releases, Staled(p) \/ Edited(p) \/ Decided(p) PROVE Stands(r)
  <2>1. draft' = draft /\ (p # r => release'[r] = release[r])
    BY <1>1, <1>4 DEF Staled, Edited, Decided, Became, TypeOK
  <2>2. CASE p # r
    BY <2>1, <2>2 DEF Stands
  <2>3. CASE p = r /\ Staled(r)
    <3>1. release'[r] = Next1(release[r], "STALE") /\ "STALE" \in ReleaseStatuses
      BY <1>1, <2>3 DEF Staled, Became, TypeOK, ReleaseStatuses
    <3> QED  BY <1>1, <2>1, <3>1, NextRelease DEF Stands
  <2>4. CASE p = r /\ Edited(r)
    <3>1. PICK next, kind : Changes(next, release[r], kind) /\ release'[r] = next
      BY <1>1, <2>4 DEF Edited, Became, TypeOK
    <3> QED  BY <2>1, <3>1, ChangeFits DEF Stands, SameFields
  <2>5. CASE p = r /\ Decided(r)
    <3>1. release'[r] = Decides(release[r])
      BY <1>1, <2>5 DEF Decided, Became, TypeOK
    <3> QED  BY <1>1, <2>1, <3>1, DecidesFields DEF Stands, SameFields
  <2> QED  BY <1>4, <2>2, <2>3, <2>4, <2>5
<1>5. ASSUME NEW p \in Releases, Prepared(p) \/ Outdated(p) PROVE Stands(r)
  <2>1. release' = release /\ (p # r => draft'[r] = draft[r])
    BY <1>1, <1>5 DEF Prepared, Outdated, TypeOK
  <2>2. draft[r] # NoDraft /\ p = r => draft'[r] = [draft[r] EXCEPT !.status = "STALE"]
    BY <1>1, <1>5 DEF Prepared, Outdated, TypeOK
  <2> QED  BY <1>1, <2>1, <2>2 DEF Stands, DraftType, NoDraft, NoId
<1>6. UNCHANGED vars \/ Kept => UNCHANGED <<release, draft>>
  BY DEF vars, rows, Kept
<1>7. ASSUME NEW a \in Authorizations,
             \/ \E l \in Locks, v \in LockVersions : Asked(a, l, v)
             \/ \E t \in Ended \cup {"AUTHORIZED"} : Moved(a, t)
      PROVE  UNCHANGED <<release, draft>>
  BY <1>7 DEF Asked, Moved
<1> QED  BY <1>2, <1>3, <1>4, <1>5, <1>6, <1>7, Effects

DecisionsFinal == [][\A r \in Releases : Stands(r)]_vars

(* A decision is never taken back or changed: a withdrawal or a refresh that *)
(* makes the release STALE leaves what was decided, for which authorization  *)
(* and to which executor, and no repair or validation gives its draft to     *)
(* another (withdrawRelease, refreshRelease, validateTaskCurrent).           *)
THEOREM DecisionsAreFinal == Spec => DecisionsFinal
<1>1. IInv /\ [Next]_vars => [\A r \in Releases : Stands(r)]_vars
  BY DecisionStands
<1> QED  BY <1>1, Invariant, PTL DEF Spec, DecisionsFinal
=============================================================================
