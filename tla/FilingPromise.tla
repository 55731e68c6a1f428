---------------------------- MODULE FilingPromise ----------------------------
(***************************************************************************)
(* What Execution promises of a filing: one active authorization for a     *)
(* preparation lock's version, one open release for an authorization, a    *)
(* decision only on passed checks and with an executor, final once taken,  *)
(* one task draft of what was decided, and nothing voided but for an       *)
(* authorization that has ended.                                           *)
(***************************************************************************)
CONSTANTS Authorizations, Releases, Sources, Executors, NoSource, NoAuthority, NoExecutor

VARIABLES
    authority,  \* authority[a]: the authorization and the exact lock version it is for
    release,    \* release[r]: whether it is open, released or void, and what was decided
    draft       \* draft[r]: the filing execution task draft of release r

NoRelease == [status |-> "NONE", of |-> NoAuthority, passed |-> FALSE,
              executor |-> NoExecutor, decided |-> FALSE]
NoDraft   == [status |-> "NONE", executor |-> NoExecutor]

Init ==
    /\ authority = [a \in Authorizations |-> [status |-> "NONE", source |-> NoSource]]
    /\ release = [r \in Releases |-> NoRelease]
    /\ draft = [r \in Releases |-> NoDraft]

IsActive(a) == authority[a].status \in {"PENDING", "AUTHORIZED"}
IsOver(a)   == authority[a].status = "ENDED"
IsOpen(r)   == release[r].status = "OPEN"

Ask(a, s) ==
    /\ authority[a].status = "NONE"
    /\ \A b \in Authorizations : IsActive(b) => authority[b].source # s
    /\ authority' = [authority EXCEPT ![a] = [status |-> "PENDING", source |-> s]]
    /\ UNCHANGED <<release, draft>>

Authorize(a) ==
    /\ authority[a].status = "PENDING"
    /\ authority' = [authority EXCEPT ![a].status = "AUTHORIZED"]
    /\ UNCHANGED <<release, draft>>

(* Withdrawn, expired or stale, after it was confirmed or before. *)
End(a) ==
    /\ IsActive(a)
    /\ authority' = [authority EXCEPT ![a].status = IF @ = "PENDING" THEN "LAPSED" ELSE "ENDED"]
    /\ UNCHANGED <<release, draft>>

Change(r, fields) == release' = [release EXCEPT ![r] = fields]

Open(r, a) ==
    /\ release[r] = NoRelease
    /\ authority[a].status \in {"AUTHORIZED", "ENDED"}
    /\ \A p \in Releases : IsOpen(p) => release[p].of # a
    /\ Change(r, [NoRelease EXCEPT !.status = "OPEN", !.of = a])
    /\ UNCHANGED <<authority, draft>>

Evaluate(r) ==
    /\ IsOpen(r)
    /\ \E b \in BOOLEAN : Change(r, [release[r] EXCEPT !.passed = b])
    /\ UNCHANGED <<authority, draft>>

Assign(r) ==
    /\ IsOpen(r)
    /\ \E e \in Executors : Change(r, [release[r] EXCEPT !.executor = e])
    /\ UNCHANGED <<authority, draft>>

Decide(r) ==
    /\ IsOpen(r) /\ release[r].passed /\ release[r].executor \in Executors
    /\ Change(r, [release[r] EXCEPT !.status = "RELEASED", !.decided = TRUE])
    /\ UNCHANGED <<authority, draft>>

Lapse(r) ==
    /\ release[r].status \in {"OPEN", "RELEASED"} /\ IsOver(release[r].of)
    /\ Change(r, [release[r] EXCEPT !.status = "STALE"])
    /\ UNCHANGED <<authority, draft>>

Withdraw(r) ==
    /\ release[r].status \in {"OPEN", "STALE"}
    /\ Change(r, [release[r] EXCEPT !.status = "WITHDRAWN"])
    /\ UNCHANGED <<authority, draft>>

Prepare(r) ==
    /\ release[r].decided /\ draft[r] = NoDraft
    /\ draft' = [draft EXCEPT ![r] = [status |-> "PREPARED", executor |-> release[r].executor]]
    /\ UNCHANGED <<authority, release>>

Outdate(r) ==
    /\ draft[r].status = "PREPARED" /\ IsOver(release[r].of)
    /\ draft' = [draft EXCEPT ![r].status = "STALE"]
    /\ UNCHANGED <<authority, release>>

Next ==
    \/ \E a \in Authorizations : Authorize(a) \/ End(a) \/ \E s \in Sources : Ask(a, s)
    \/ \E r \in Releases :
         \/ Evaluate(r) \/ Assign(r) \/ Decide(r) \/ Lapse(r) \/ Withdraw(r)
         \/ Prepare(r) \/ Outdate(r)
         \/ \E a \in Authorizations : Open(r, a)

Spec == Init /\ [][Next]_<<authority, release, draft>>
==============================================================================
