--------------------------- MODULE RequestPipeline ---------------------------
(***************************************************************************)
(* What a request to workflow-api passes through (app.ts): tenantMiddle-   *)
(* ware, rateLimitMiddleware, idempotencyMiddleware, the route's handler,  *)
(* recordIdempotencyResponse.  The first two run without an await and are  *)
(* one step; every statement on idempotency_keys is a step of its own, and *)
(* so is the handler, of which only counts here whether it succeeded and   *)
(* whether it had its effect (WorkflowService says what it does).          *)
(*                                                                         *)
(* A client may send as many requests with one Idempotency-Key as it likes *)
(* and need not wait for an answer: retries after a timeout and double     *)
(* clicks are requests that arrive while another is under way, at the same *)
(* replica or another.  One key belongs to one operation.                  *)
(***************************************************************************)
EXTENDS RateLimiter, FiniteSets

CONSTANTS
  MaxRequests, \* bound: requests ever sent; they are numbered as they arrive
  Replicas,   \* workflow-api processes
  Tenants,
  Keys,       \* values of the Idempotency-Key header
  NoKey,      \* the header is missing
  NoTenant,   \* the x-tenant-id header is missing; admin routes run under "global"
  Limit,      \* Tenants -> requests per window (tenantOverrides, defaultMax)
  MaxTime,    \* bound: the clock stops here
  MaxFaults   \* bound: statements that fail and replicas that crash

ASSUME PipelineAssumption ==
  /\ NoKey \notin Keys /\ NoTenant \notin Tenants
  /\ Limit \in [Tenants -> Nat]
  /\ MaxRequests \in Nat /\ MaxTime \in Nat /\ MaxFaults \in Nat

VARIABLES
  now,       \* milliseconds
  buckets,   \* each replica's Map of buckets
  admitted,  \* history: the requests a replica admitted and when, by tenant
  row,       \* the rows of idempotency_keys
  req,       \* the requests and what their handlers hold
  effects,   \* history: the requests whose operation took effect, by key
  faults     \* faults so far

vars == <<now, buckets, admitted, row, req, effects, faults>>

\* What the pipeline tells apart: requests it lets pass, GETs and those without a
\* key; the five routes that change workflows and record their answer; those on
\* delegations and rules, which do not; the administrative delete, without tenant.
Routes == {"plain", "workflow", "other", "admin"}
Keyed == Routes \ {"plain"}
Recording == {"workflow"}

Requests == 1..MaxRequests
NoRequest == 0

Owners == Tenants \cup {NoTenant}
Slots == Owners \X Keys  \* the primary key `${tenantId}:${key}`

Row == [status : {"ABSENT", "PROCESSING", "COMPLETED"},
        claimedBy : Requests \cup {NoRequest},  \* history: whose INSERT it was
        response  : Requests \cup {NoRequest}]  \* whose answer response_body holds
AbsentRow == [status |-> "ABSENT", claimedBy |-> NoRequest, response |-> NoRequest]

Answers == {"none", "invalid", "refused", "conflict", "replay", "ok", "error", "lost"}
Request == [pc : {"unsent", "select", "insert", "handle", "record", "done"},
            replica : Replicas, owner : Owners, route : Routes,
            key : Keys \cup {NoKey},
            bypass : BOOLEAN,     \* went on although it holds no claim on its key
            answer : Answers, replayOf : Requests \cup {NoRequest}]

Sent(r) == req[r].pc # "unsent"
NextToSend(r) == ~Sent(r) /\ \A q \in Requests : q < r => Sent(q)
InFlight(r) == req[r].pc \in {"select", "insert", "handle", "record"}
Slot(r) == <<req[r].owner, req[r].key>>

TypeOK ==
  /\ now \in Nat
  /\ buckets \in [Replicas -> [Tenants -> Bucket]]
  /\ admitted \in [Replicas -> [Tenants -> SUBSET (Requests \X (0..MaxTime))]]
  /\ row \in [Slots -> Row]
  /\ req \in [Requests -> Request]
  /\ effects \in [Slots -> SUBSET Requests]
  /\ faults \in Nat
  /\ now <= MaxTime

Init ==
  /\ now = 0
  /\ buckets = [p \in Replicas |-> [t \in Tenants |-> NoBucket]]
  /\ admitted = [p \in Replicas |-> [t \in Tenants |-> {}]]
  /\ row = [s \in Slots |-> AbsentRow]
  /\ req \in [Requests -> [pc : {"unsent"}, replica : Replicas, owner : {NoTenant},
                           route : {"plain"}, key : {NoKey}, bypass : {FALSE},
                           answer : {"none"}, replayOf : {NoRequest}]]
  /\ effects = [s \in Slots |-> {}]
  /\ faults = 0

limits == <<now, buckets, admitted>>

Fault == faults < MaxFaults /\ faults' = faults + 1

Goto(r, pc) == req' = [req EXCEPT ![r].pc = pc]
Bypass(r) == req' = [req EXCEPT ![r].pc = "handle", ![r].bypass = TRUE]
Answer(r, a) == req' = [req EXCEPT ![r].pc = "done", ![r].answer = a]

-----------------------------------------------------------------------------
(* onRequest and the first preHandler.                                     *)

\* x-tenant-id is missing where it is required: 400
ArriveInvalid(r) ==
  /\ NextToSend(r)
  /\ Answer(r, "invalid")
  /\ UNCHANGED <<limits, row, effects, faults>>

\* where an admitted request goes
FirstStep(route) == IF route \in Keyed THEN "select" ELSE "handle"

\* admin routes have no tenant, hence no limit
ArriveAdmin(r, k) ==
  /\ NextToSend(r)
  /\ req' = [req EXCEPT ![r].pc = FirstStep("admin"), ![r].route = "admin",
                        ![r].key = k]
  /\ UNCHANGED <<limits, row, effects, faults>>

\* mutant of Arrive: a refusal leaves in the bucket what remains, without Math.max(0, ...)
MutantArriveRemains(r, t, route, k) ==
  LET p == req[r].replica
      ok == Allowed(buckets[p][t], Limit[t], now)
      bucket == NextBucket(buckets[p][t], now)
  IN
  /\ NextToSend(r)
  /\ buckets' = [buckets EXCEPT ![p][t] = IF ok THEN bucket
                                         ELSE [bucket EXCEPT !.count = Limit[t] - @]]
  /\ admitted' = IF ok THEN [admitted EXCEPT ![p][t] = @ \cup {<<r, now>>}] ELSE admitted
  /\ req' = [req EXCEPT ![r].pc = IF ok THEN FirstStep(route) ELSE "done",
                        ![r].owner = t, ![r].route = route, ![r].key = k,
                        ![r].answer = IF ok THEN "none" ELSE "refused"]
  /\ UNCHANGED <<now, row, effects, faults>>

\* mutant of Arrive: one bucket for all tenants
MutantArrive(r, t, route, k) ==
  LET p == req[r].replica
      ok == Allowed(buckets[p][t], Limit[t], now)
  IN
  /\ NextToSend(r)
  /\ buckets' = [buckets EXCEPT ![p] = [u \in Tenants |-> NextBucket(@[t], now)]]
  /\ admitted' = IF ok THEN [admitted EXCEPT ![p][t] = @ \cup {<<r, now>>}] ELSE admitted
  /\ req' = [req EXCEPT ![r].pc = IF ok THEN FirstStep(route) ELSE "done",
                        ![r].owner = t, ![r].route = route, ![r].key = k,
                        ![r].answer = IF ok THEN "none" ELSE "refused"]
  /\ UNCHANGED <<now, row, effects, faults>>

Arrive(r, t, route, k) ==
  LET p == req[r].replica
      ok == Allowed(buckets[p][t], Limit[t], now)
  IN
  /\ NextToSend(r)
  /\ buckets' = [buckets EXCEPT ![p][t] = NextBucket(@, now)]
  /\ admitted' = IF ok THEN [admitted EXCEPT ![p][t] = @ \cup {<<r, now>>}] ELSE admitted
  /\ req' = [req EXCEPT ![r].pc = IF ok THEN FirstStep(route) ELSE "done",
                        ![r].owner = t, ![r].route = route, ![r].key = k,
                        ![r].answer = IF ok THEN "none" ELSE "refused"]
  /\ UNCHANGED <<now, row, effects, faults>>

-----------------------------------------------------------------------------
(* idempotencyMiddleware.  Its catch block logs, and the request goes on.  *)

\* mutant of SelectKey: a claim is answered like a recorded response
MutantSelectKey(r) ==
  LET found == row[Slot(r)] IN
  /\ req[r].pc = "select"
  /\ \/ found.status = "ABSENT" /\ Goto(r, "insert")
     \/ found.status # "ABSENT"
        /\ req' = [req EXCEPT ![r].pc = "done", ![r].answer = "replay",
                              ![r].replayOf = found.claimedBy]
  /\ UNCHANGED <<limits, row, effects, faults>>

SelectKey(r) ==
  LET found == row[Slot(r)] IN
  /\ req[r].pc = "select"
  /\ \/ found.status = "ABSENT" /\ Goto(r, "insert")
     \/ found.status = "PROCESSING" /\ Answer(r, "conflict")
     \/ found.status = "COMPLETED"
        /\ req' = [req EXCEPT ![r].pc = "done", ![r].answer = "replay",
                              ![r].replayOf = found.response]
  /\ UNCHANGED <<limits, row, effects, faults>>

\* mutant of InsertKey: ON CONFLICT DO UPDATE
MutantInsertKey(r) ==
  /\ req[r].pc = "insert"
  /\ row' = [row EXCEPT ![Slot(r)] =
               [AbsentRow EXCEPT !.status = "PROCESSING", !.claimedBy = r]]
  /\ Goto(r, "handle")
  /\ UNCHANGED <<limits, effects, faults>>

InsertKey(r) ==
  /\ req[r].pc = "insert"
  /\ IF row[Slot(r)].status = "ABSENT"
     THEN /\ row' = [row EXCEPT ![Slot(r)] =
                       [AbsentRow EXCEPT !.status = "PROCESSING", !.claimedBy = r]]
          /\ Goto(r, "handle")
     ELSE row' = row /\ Bypass(r)  \* the primary key refuses it
  /\ UNCHANGED <<limits, effects, faults>>

KeyStatementFails(r) ==
  /\ req[r].pc \in {"select", "insert"}
  /\ Fault /\ Bypass(r)
  /\ UNCHANGED <<limits, row, effects>>

-----------------------------------------------------------------------------
(* The route's handler and recordIdempotencyResponse.                      *)

TakesEffect(r) ==
  effects' = IF req[r].route \in Keyed
             THEN [effects EXCEPT ![Slot(r)] = @ \cup {r}] ELSE effects

\* the operation succeeds; some routes record the answer before they give it
Succeed(r) ==
  /\ req[r].pc = "handle"
  /\ TakesEffect(r)
  /\ IF req[r].route \in Recording
     THEN Goto(r, "record") ELSE Answer(r, "ok")
  /\ UNCHANGED <<limits, row, faults>>

\* validation or the service refuses it: nothing has happened
Reject(r) ==
  /\ req[r].pc = "handle"
  /\ Answer(r, "error")
  /\ UNCHANGED <<limits, row, effects, faults>>

\* the service throws after the operation took effect
FailLate(r) ==
  /\ req[r].pc = "handle" /\ req[r].route \in Keyed
  /\ TakesEffect(r) /\ Answer(r, "error") /\ Fault
  /\ UNCHANGED <<limits, row>>

\* mutant of RecordResponse: the answer without the status
MutantRecordResponse(r) ==
  /\ req[r].pc = "record"
  /\ row' = IF row[Slot(r)].status = "ABSENT" THEN row
            ELSE [row EXCEPT ![Slot(r)].response = r]
  /\ Answer(r, "ok")
  /\ UNCHANGED <<limits, effects, faults>>

RecordResponse(r) ==
  /\ req[r].pc = "record"
  /\ row' = IF row[Slot(r)].status = "ABSENT" THEN row
            ELSE [row EXCEPT ![Slot(r)].status = "COMPLETED", ![Slot(r)].response = r]
  /\ Answer(r, "ok")
  /\ UNCHANGED <<limits, effects, faults>>

RecordResponseFails(r) ==
  /\ req[r].pc = "record"
  /\ Answer(r, "ok") /\ Fault
  /\ UNCHANGED <<limits, row, effects>>

-----------------------------------------------------------------------------
(* A replica dies with its requests and its buckets; time passes.          *)

Crash(p) ==
  /\ Fault
  /\ buckets' = [buckets EXCEPT ![p] = [t \in Tenants |-> NoBucket]]
  /\ admitted' = [admitted EXCEPT ![p] = [t \in Tenants |-> {}]]
  /\ req' = [r \in Requests |->
               IF InFlight(r) /\ req[r].replica = p
               THEN [req[r] EXCEPT !.pc = "done", !.answer = "lost"] ELSE req[r]]
  /\ UNCHANGED <<now, row, effects>>

Tick ==
  /\ now < MaxTime /\ now' = now + 1
  /\ UNCHANGED <<buckets, admitted, row, req, effects, faults>>

Send(r) ==
  \/ ArriveInvalid(r)
  \/ \E t \in Tenants : Arrive(r, t, "plain", NoKey)
  \/ \E k \in Keys :
       \/ ArriveAdmin(r, k)
       \/ \E t \in Tenants, route \in {"workflow", "other"} : Arrive(r, t, route, k)

\* what the process and the database do by themselves once a request is admitted
Progress(r) ==
  \/ SelectKey(r) \/ InsertKey(r) \/ Succeed(r) \/ Reject(r) \/ RecordResponse(r)

Fail(r) == KeyStatementFails(r) \/ FailLate(r) \/ RecordResponseFails(r)

Next ==
  \/ \E r \in Requests : Send(r) \/ Progress(r) \/ Fail(r)
  \/ \E p \in Replicas : Crash(p)
  \/ Tick

Spec == Init /\ [][Next]_vars

-----------------------------------------------------------------------------
(* What the pipeline promises.                                             *)

Replayed(r) == req[r].answer = "replay"
Bypassed(s) == {r \in effects[s] : req[r].bypass}

\* A replayed answer is that of a request with the same tenant and key whose
\* operation took effect: no client is told of a success that never was.
ReplayIsTruthful ==
  \A r \in Requests : Replayed(r) => req[r].replayOf \in effects[Slot(r)]

\* One key, one execution: of the requests that did not go past the key table
\* because a statement failed or another INSERT came first, at most one executes.
ExecutedOnce ==
  \A s \in Slots : Cardinality(effects[s] \ Bypassed(s)) <= 1

\* of a history of admissions, those in the WindowMs up to and including time x
UpTo(history, x) == {a \in history : a[2] <= x /\ x - a[2] < WindowMs}

AdmittedUpTo(p, t, x) == Cardinality(UpTo(admitted[p][t], x))

\* However the requests fall into windows, a replica admits no more of a tenant's
\* in any stretch of WindowMs than the end of one window and the start of the next.
StraddleBound ==
  \A p \in Replicas, t \in Tenants, x \in 0..MaxTime :
    AdmittedUpTo(p, t, x) <= Straddle(Limit[t])

\* A "sliding-window token bucket" that enforces the quota (README.md:90, and
\* docs/FEATURES.md:224 the same) admits no more than that in any stretch of WindowMs.
\* It does not hold: the windows are fixed, and a burst may straddle two of them.
QuotaPerWindow ==
  \A p \in Replicas, t \in Tenants, x \in 0..MaxTime :
    AdmittedUpTo(p, t, x) <= Quota(Limit[t])

\* Noisy neighbours: a tenant is refused only when it has itself used up its quota
\* within the last WindowMs, whatever the others do.
RefusedForItself ==
  [][\A r \in Requests :
       req'[r].answer = "refused" /\ req[r].answer # "refused" =>
         AdmittedUpTo(req[r].replica, req'[r].owner, now) >= Quota(Limit[req'[r].owner])]_vars

\* Why a claim can stay a claim for good, every retry being answered 409: the
\* operation failed, the replica died, or the answer was not recorded.
Abandoned(r) ==
  \/ req[r].answer \in {"error", "lost"}
  \/ req[r].answer = "ok" /\ (req[r].route \notin Recording \/ faults > 0)

\* A key is locked by a request that is under way, or for one of those reasons: an
\* operation that succeeded and could record its answer leaves the key COMPLETED.
NoLostClaim ==
  \A s \in Slots : row[s].status = "PROCESSING" =>
    \E r \in Requests :
      row[s].claimedBy = r /\ Slot(r) = s /\ (InFlight(r) \/ Abandoned(r))

\* A key executes its operation once (docs/FEATURES.md).  It does not hold: two
\* requests that both find no row execute both.
NoReexecution == \A s \in Slots : Cardinality(effects[s]) <= 1
=============================================================================
