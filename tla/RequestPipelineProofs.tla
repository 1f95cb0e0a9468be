----------------------- MODULE RequestPipelineProofs ------------------------
(***************************************************************************)
(* Machine-checked proofs about RequestPipeline, for any number of         *)
(* requests, replicas, tenants and keys and every bound: what idempotency  *)
(* keys promise to clients, why a key that is locked is locked, and what   *)
(* the fixed windows of the rate limiter amount to in any stretch of time. *)
(***************************************************************************)
EXTENDS RequestPipeline, FiniteSetTheorems, TLAPS

-----------------------------------------------------------------------------
(* Type correctness.                                                       *)

\* A request counts in its bucket, whatever the limit.
LEMMA NextBucketType ==
  ASSUME NEW b \in Bucket, NEW t \in Nat
  PROVE  NextBucket(b, t) \in Bucket
<1>1. CASE Expired(b, t)
  BY <1>1, WindowAssumption DEF NextBucket, Bucket
<1>2. CASE ~Expired(b, t)
  BY <1>2 DEF NextBucket, Bucket
<1> QED
  BY <1>1, <1>2

LEMMA NoBucketType == NoBucket \in Bucket
BY DEF NoBucket, Bucket

\* what is not about a request
SharedOK ==
  /\ now \in 0..MaxTime
  /\ buckets \in [Replicas -> [Tenants -> Bucket]]
  /\ admitted \in [Replicas -> [Tenants -> SUBSET (Requests \X (0..MaxTime))]]
  /\ row \in [Slots -> Row] /\ effects \in [Slots -> SUBSET Requests]
  /\ faults \in Nat

LEMMA TypeParts == TypeOK <=> SharedOK /\ req \in [Requests -> Request]
BY PipelineAssumption DEF TypeOK, SharedOK, PipelineAssumption

\* Requests of a keyed route have a key, and so a row of the table is theirs.
Shape ==
  \A r \in Requests :
    /\ req[r].route \in Keyed => req[r].key \in Keys /\ Sent(r)
    /\ req[r].pc \in {"select", "insert", "record"} => req[r].route \in Keyed
    /\ req[r].pc = "record" => req[r].route \in Recording
    /\ Replayed(r) => req[r].route \in Keyed /\ req[r].pc = "done"

LEMMA SlotType ==
  ASSUME TypeOK, Shape, NEW r \in Requests, req[r].route \in Keyed
  PROVE  Slot(r) \in Slots
BY DEF TypeOK, Shape, Slot, Slots, Request

\* r's request becomes q, the others stay
Only(r, q) == req'[r] = q /\ \A p \in Requests \ {r} : req'[p] = req[p]

LEMMA RequestUpdate ==
  ASSUME TypeOK, NEW r \in Requests, NEW q \in Request, req' = [req EXCEPT ![r] = q]
  PROVE  req' \in [Requests -> Request] /\ Only(r, q)
BY DEF TypeOK, Only

LEMMA GotoType ==
  ASSUME TypeOK, NEW r \in Requests,
         NEW pc \in {"select", "insert", "handle", "record", "done"}, Goto(r, pc)
  PROVE  /\ req' \in [Requests -> Request]
         /\ Only(r, [req[r] EXCEPT !.pc = pc])
<1>1. [req[r] EXCEPT !.pc = pc] \in Request
  BY DEF TypeOK, Request
<1>2. req' = [req EXCEPT ![r] = [req[r] EXCEPT !.pc = pc]]
  BY DEF Goto
<1> QED
  BY <1>1, <1>2, RequestUpdate

LEMMA BypassType ==
  ASSUME TypeOK, NEW r \in Requests, Bypass(r)
  PROVE  /\ req' \in [Requests -> Request]
         /\ Only(r, [req[r] EXCEPT !.pc = "handle", !.bypass = TRUE])
<1>1. [req[r] EXCEPT !.pc = "handle", !.bypass = TRUE] \in Request
  BY DEF TypeOK, Request
<1>2. req' = [req EXCEPT ![r] = [req[r] EXCEPT !.pc = "handle", !.bypass = TRUE]]
  BY DEF Bypass, TypeOK
<1> QED
  BY <1>1, <1>2, RequestUpdate

LEMMA AnswerType ==
  ASSUME TypeOK, NEW r \in Requests, NEW a \in Answers, Answer(r, a)
  PROVE  /\ req' \in [Requests -> Request]
         /\ Only(r, [req[r] EXCEPT !.pc = "done", !.answer = a])
<1>1. [req[r] EXCEPT !.pc = "done", !.answer = a] \in Request
  BY DEF TypeOK, Request
<1>2. req' = [req EXCEPT ![r] = [req[r] EXCEPT !.pc = "done", !.answer = a]]
  BY DEF Answer, TypeOK
<1> QED
  BY <1>1, <1>2, RequestUpdate

\* A new request has a key if its route asks for one.
NewRequest(r) ==
  /\ req[r].pc = "unsent"
  /\ \A p \in Requests \ {r} : req'[p] = req[p]
  /\ req'[r].pc \in {"select", "handle", "done"}
  /\ req'[r].pc = "select" => req'[r].route \in Keyed
  /\ req'[r].pc = "handle" => req'[r].route \notin Keyed
  /\ req'[r].route \in Keyed => req'[r].key \in Keys
  /\ req'[r].answer # "replay"
  /\ UNCHANGED <<row, effects, faults>>

LEMMA ArriveStep ==
  ASSUME TypeOK, Shape, NEW r \in Requests, NEW t \in Tenants, NEW route \in Routes,
         NEW k \in Keys \cup {NoKey}, route \in Keyed => k \in Keys, Arrive(r, t, route, k)
  PROVE  SharedOK' /\ req' \in [Requests -> Request] /\ NewRequest(r)
<1> DEFINE p == req[r].replica
           ok == Allowed(buckets[p][t], Limit[t], now)
           q == [req[r] EXCEPT !.pc = IF ok THEN FirstStep(route) ELSE "done",
                               !.owner = t, !.route = route, !.key = k,
                               !.answer = IF ok THEN "none" ELSE "refused"]
<1>0. SharedOK /\ req \in [Requests -> Request]
  BY TypeParts
<1>1. req[r] \in Request /\ p \in Replicas /\ now \in 0..MaxTime /\ now \in Nat
  BY <1>0, PipelineAssumption DEF SharedOK, Request, PipelineAssumption
<1>2. NextBucket(buckets[p][t], now) \in Bucket
  BY <1>0, <1>1, NextBucketType DEF SharedOK
<1>3. FirstStep(route) \in {"select", "handle"} /\ (FirstStep(route) = "select" <=> route \in Keyed)
  BY DEF FirstStep
<1>4. /\ req[r].pc = "unsent"
      /\ buckets' = [buckets EXCEPT ![p] = [buckets[p] EXCEPT ![t] = NextBucket(buckets[p][t], now)]]
      /\ admitted' = IF ok THEN [admitted EXCEPT ![p][t] = @ \cup {<<r, now>>}] ELSE admitted
      /\ UNCHANGED <<now, row, effects, faults>>
  BY DEF Arrive, NextToSend, Sent
<1>5. req' = [req EXCEPT ![r] = q]
  BY <1>0 DEF Arrive
<1> HIDE DEF ok
<1>6. /\ q \in Request
      /\ q.pc \in {"select", "handle", "done"} /\ (q.pc = "select" => q.route \in Keyed)
      /\ (q.pc = "handle" => q.route \notin Keyed)
      /\ q.route = route /\ q.key = k /\ q.answer # "replay"
  BY <1>1, <1>3 DEF Request, Owners, Answers
<1> HIDE DEF q
<1>7. req' \in [Requests -> Request] /\ Only(r, q)
  BY <1>5, <1>6, RequestUpdate
<1>8. NewRequest(r)
  BY <1>4, <1>6, <1>7 DEF NewRequest, Only
<1>9. buckets' \in [Replicas -> [Tenants -> Bucket]]
  BY <1>0, <1>1, <1>2, <1>4 DEF SharedOK
<1>10. admitted' \in [Replicas -> [Tenants -> SUBSET (Requests \X (0..MaxTime))]]
  <2>1. CASE ~ok
    BY <1>0, <1>4, <2>1 DEF SharedOK
  <2>2. CASE ok
    <3>1. admitted[p][t] \cup {<<r, now>>} \in SUBSET (Requests \X (0..MaxTime))
      BY <1>0, <1>1 DEF SharedOK
    <3>2. admitted' = [admitted EXCEPT ![p] = [admitted[p] EXCEPT ![t] =
                         admitted[p][t] \cup {<<r, now>>}]]
      BY <1>4, <2>2
    <3> QED
      BY <1>0, <1>1, <3>1, <3>2 DEF SharedOK
  <2> QED
    BY <2>1, <2>2
<1> QED
  BY <1>0, <1>4, <1>7, <1>8, <1>9, <1>10 DEF SharedOK

LEMMA SendStep ==
  ASSUME TypeOK, Shape, NEW r \in Requests, Send(r)
  PROVE  SharedOK' /\ req' \in [Requests -> Request] /\ NewRequest(r)
<1>0. SharedOK /\ req \in [Requests -> Request] /\ req[r] \in Request
  BY TypeParts
<1>1. CASE ArriveInvalid(r)
  <2>1. Only(r, [req[r] EXCEPT !.pc = "done", !.answer = "invalid"]) /\ req' \in [Requests -> Request]
    BY <1>1, AnswerType DEF ArriveInvalid, Answers
  <2>2. /\ req[r].pc = "unsent" /\ req'[r].pc = "done" /\ req'[r].answer = "invalid"
        /\ req'[r].route = req[r].route /\ req'[r].key = req[r].key
        /\ \A p \in Requests \ {r} : req'[p] = req[p]
    BY <1>0, <1>1, <2>1 DEF Only, ArriveInvalid, NextToSend, Sent, Request
  <2>3. UNCHANGED <<now, buckets, admitted, row, effects, faults>>
    BY <1>1 DEF ArriveInvalid, limits
  <2> QED
    BY <1>0, <2>1, <2>2, <2>3 DEF SharedOK, NewRequest, Shape, Sent
<1>2. ASSUME NEW k \in Keys, ArriveAdmin(r, k)
      PROVE  SharedOK' /\ req' \in [Requests -> Request] /\ NewRequest(r)
  <2> DEFINE q == [req[r] EXCEPT !.pc = "select", !.route = "admin", !.key = k]
  <2>1. FirstStep("admin") = "select" /\ "admin" \in Keyed
    BY DEF FirstStep, Keyed, Routes
  <2>2. req' = [req EXCEPT ![r] = q] /\ req[r].pc = "unsent"
    BY <1>0, <1>2, <2>1 DEF ArriveAdmin, NextToSend, Sent
  <2>3. UNCHANGED <<now, buckets, admitted, row, effects, faults>>
    BY <1>2 DEF ArriveAdmin, limits
  <2>4. /\ q \in Request /\ q.pc = "select" /\ q.route = "admin" /\ q.key = k
        /\ q.answer = req[r].answer
    BY <1>0 DEF Request, Routes
  <2> HIDE DEF q
  <2>5. req' \in [Requests -> Request] /\ Only(r, q)
    BY <2>2, <2>4, RequestUpdate
  <2>6. req[r].answer # "replay"
    BY <2>2 DEF Shape, Replayed, Sent
  <2> QED
    BY <1>0, <2>1, <2>2, <2>3, <2>4, <2>5, <2>6 DEF SharedOK, NewRequest, Only
<1>3. ASSUME NEW t \in Tenants, Arrive(r, t, "plain", NoKey)
      PROVE  SharedOK' /\ req' \in [Requests -> Request] /\ NewRequest(r)
  BY <1>3, ArriveStep DEF Routes, Keyed
<1>4. ASSUME NEW t \in Tenants, NEW route \in {"workflow", "other"}, NEW k \in Keys,
             Arrive(r, t, route, k)
      PROVE  SharedOK' /\ req' \in [Requests -> Request] /\ NewRequest(r)
  BY <1>4, ArriveStep DEF Routes
<1> QED
  BY <1>1, <1>2, <1>3, <1>4 DEF Send

\* How a request may move in a step that writes neither table.
Moves(r) ==
  /\ req'[r].owner = req[r].owner /\ req'[r].key = req[r].key /\ req'[r].route = req[r].route
  /\ \/ /\ req[r].pc \in {"select", "insert"} /\ req'[r].pc \in {"insert", "handle", "done"}
        /\ req'[r].pc = "handle" => req'[r].bypass
        /\ req'[r].answer = "replay" =>
             req'[r].pc = "done" /\ req'[r].replayOf \in effects[Slot(r)]
     \/ /\ req[r].pc \in {"handle", "record"} /\ req'[r].pc = "done"
        /\ req'[r].bypass = req[r].bypass /\ req'[r].answer # "replay" /\ Abandoned(r)'

Quiet(r) == req'[r] = req[r] \/ NewRequest(r) \/ Moves(r)

\* The same with the tables as they were.
QuietStep ==
  /\ row' = row /\ effects' = effects /\ faults <= faults'
  /\ \A r \in Requests : Quiet(r)

LEMMA OnlyQuiet ==
  ASSUME NEW r \in Requests, NEW q, Only(r, q), Moves(r)
  PROVE  \A p \in Requests : Quiet(p)
BY DEF Only, Quiet

\* statements on idempotency_keys that write nothing
LEMMA SelectKeyStep ==
  ASSUME TypeOK, Shape, NEW r \in Requests, SelectKey(r),
         row[Slot(r)].status = "COMPLETED" => row[Slot(r)].response \in effects[Slot(r)]
  PROVE  SharedOK' /\ req' \in [Requests -> Request] /\ QuietStep
<1>0. SharedOK /\ req \in [Requests -> Request] /\ req[r] \in Request
  BY TypeParts
<1>1. req[r].pc = "select" /\ UNCHANGED <<now, buckets, admitted, row, effects, faults>>
  BY DEF SelectKey, limits
<1>2. SharedOK' /\ row' = row /\ effects' = effects /\ faults <= faults'
  BY <1>0, <1>1 DEF SharedOK
<1>3. req[r].answer # "replay"
  BY <1>1 DEF Shape, Replayed
<1>4. CASE Goto(r, "insert")
  <2>1. req' \in [Requests -> Request] /\ Only(r, [req[r] EXCEPT !.pc = "insert"])
    BY <1>4, GotoType
  <2>2. Moves(r)
    BY <1>0, <1>1, <1>3, <2>1 DEF Moves, Only, Request
  <2> QED
    BY <1>2, <2>1, <2>2, OnlyQuiet DEF QuietStep
<1>5. CASE Answer(r, "conflict")
  <2>1. req' \in [Requests -> Request]
        /\ Only(r, [req[r] EXCEPT !.pc = "done", !.answer = "conflict"])
    BY <1>5, AnswerType DEF Answers
  <2>2. Moves(r)
    BY <1>0, <1>1, <2>1 DEF Moves, Only, Request
  <2> QED
    BY <1>2, <2>1, <2>2, OnlyQuiet DEF QuietStep
<1>6. CASE /\ row[Slot(r)].status = "COMPLETED"
           /\ req' = [req EXCEPT ![r].pc = "done", ![r].answer = "replay",
                                 ![r].replayOf = row[Slot(r)].response]
  <2> DEFINE q == [req[r] EXCEPT !.pc = "done", !.answer = "replay",
                                 !.replayOf = row[Slot(r)].response]
  <2>1. row[Slot(r)] \in Row
    BY <1>0, <1>1, SlotType DEF Shape, SharedOK
  <2>2. /\ q \in Request /\ q.pc = "done" /\ q.replayOf = row[Slot(r)].response
        /\ q.owner = req[r].owner /\ q.key = req[r].key /\ q.route = req[r].route
    BY <1>0, <2>1 DEF Request, Row, Answers
  <2>3. req' = [req EXCEPT ![r] = q]
    BY <1>0, <1>6
  <2> HIDE DEF q
  <2>4. req' \in [Requests -> Request] /\ Only(r, q)
    BY <2>2, <2>3, RequestUpdate
  <2>5. Moves(r)
    BY <1>1, <1>6, <2>2, <2>4 DEF Moves, Only
  <2> QED
    BY <1>2, <2>4, <2>5, OnlyQuiet DEF QuietStep
<1> QED
  BY <1>4, <1>5, <1>6 DEF SelectKey

LEMMA InsertRefused ==
  ASSUME TypeOK, Shape, NEW r \in Requests, req[r].pc \in {"select", "insert"}, Bypass(r),
         UNCHANGED <<now, buckets, admitted, row, effects>>, faults' \in Nat, faults <= faults'
  PROVE  SharedOK' /\ req' \in [Requests -> Request] /\ QuietStep
<1>0. SharedOK /\ req \in [Requests -> Request] /\ req[r] \in Request
  BY TypeParts
<1>1. SharedOK'
  BY <1>0 DEF SharedOK
<1>2. req[r].answer # "replay"
  BY DEF Shape, Replayed
<1>3. /\ req' \in [Requests -> Request]
      /\ Only(r, [req[r] EXCEPT !.pc = "handle", !.bypass = TRUE])
  BY BypassType
<1>4. Moves(r)
  <2>1. req'[r].bypass = TRUE
    BY <1>0, <1>3 DEF Only, Request
  <2>2. /\ req'[r].pc = "handle" /\ req'[r].answer = req[r].answer
        /\ req'[r].owner = req[r].owner /\ req'[r].key = req[r].key
        /\ req'[r].route = req[r].route
    BY <1>0, <1>3 DEF Only, Request
  <2> QED
    BY <1>2, <2>1, <2>2 DEF Moves
<1> QED
  BY <1>1, <1>3, <1>4, OnlyQuiet DEF QuietStep

\* A request is answered, and nothing is written.
LEMMA AnswerQuiet ==
  ASSUME TypeOK, NEW r \in Requests, req[r].pc \in {"handle", "record"},
         NEW a \in Answers \ {"replay"}, Answer(r, a),
         a \in {"error", "lost"} \/ (a = "ok" /\ (req[r].route \notin Recording \/ faults' > 0)),
         UNCHANGED <<now, buckets, admitted, row, effects>>, faults' \in Nat, faults <= faults'
  PROVE  SharedOK' /\ req' \in [Requests -> Request] /\ QuietStep
<1>0. SharedOK /\ req \in [Requests -> Request] /\ req[r] \in Request
  BY TypeParts
<1>1. SharedOK'
  BY <1>0 DEF SharedOK
<1>2. req' \in [Requests -> Request] /\ Only(r, [req[r] EXCEPT !.pc = "done", !.answer = a])
  BY AnswerType
<1>3. /\ req'[r].pc = "done" /\ req'[r].answer = a /\ req'[r].bypass = req[r].bypass
      /\ req'[r].owner = req[r].owner /\ req'[r].key = req[r].key
      /\ req'[r].route = req[r].route
  BY <1>0, <1>2 DEF Only, Request
<1>4. Moves(r)
  BY <1>3 DEF Moves, Abandoned
<1> QED
  BY <1>1, <1>2, <1>4, OnlyQuiet DEF QuietStep

\* The requests of a replica that dies are lost.
LEMMA CrashStep ==
  ASSUME TypeOK, Shape, NEW p \in Replicas, Crash(p)
  PROVE  SharedOK' /\ req' \in [Requests -> Request] /\ QuietStep
<1>0. SharedOK /\ req \in [Requests -> Request]
  BY TypeParts
<1>1. /\ buckets' \in [Replicas -> [Tenants -> Bucket]]
      /\ admitted' \in [Replicas -> [Tenants -> SUBSET (Requests \X (0..MaxTime))]]
  BY <1>0, NoBucketType DEF Crash, SharedOK
<1>2. faults' \in Nat /\ faults <= faults' /\ UNCHANGED <<now, row, effects>>
  <2>1. Fault /\ UNCHANGED <<now, row, effects>>
    BY Zenon DEF Crash
  <2> QED
    BY <1>0, <2>1 DEF Fault, SharedOK
<1>3. SharedOK'
  BY <1>0, <1>1, <1>2 DEF SharedOK
<1>4. ASSUME NEW r \in Requests
      PROVE  req'[r] \in Request /\ Quiet(r)
  <2>1. req[r] \in Request
    BY <1>0
  <2>2. CASE InFlight(r) /\ req[r].replica = p
    <3>1. req'[r] = [req[r] EXCEPT !.pc = "done", !.answer = "lost"]
      BY <2>2 DEF Crash
    <3>2. /\ req'[r] \in Request /\ req'[r].pc = "done" /\ req'[r].answer = "lost"
          /\ req'[r].bypass = req[r].bypass
          /\ req'[r].owner = req[r].owner /\ req'[r].key = req[r].key
          /\ req'[r].route = req[r].route
      BY <2>1, <3>1 DEF Request, Answers
    <3> QED
      BY <2>2, <3>2 DEF Quiet, Moves, InFlight, Abandoned
  <2>3. CASE ~(InFlight(r) /\ req[r].replica = p)
    <3>1. req'[r] = req[r]
      BY <2>3 DEF Crash
    <3> QED
      BY <2>1, <3>1 DEF Quiet
  <2> QED
    BY <2>2, <2>3
<1>5. req' \in [Requests -> Request]
  <2>1. req' = [r \in Requests |-> req'[r]]
    BY DEF Crash
  <2> QED
    BY <1>4, <2>1
<1> QED
  BY <1>2, <1>3, <1>4, <1>5 DEF QuietStep

-----------------------------------------------------------------------------
(* The steps that write a table.                                           *)

\* the request has claimed its key
Claims(r) ==
  /\ req[r].pc = "insert" /\ Only(r, [req[r] EXCEPT !.pc = "handle"])
  /\ row[Slot(r)].status = "ABSENT"
  /\ row'[Slot(r)].status = "PROCESSING" /\ row'[Slot(r)].claimedBy = r
  /\ \A s \in Slots \ {Slot(r)} : row'[s] = row[s]
  /\ effects' = effects /\ faults' = faults

\* its operation takes effect
Executes(r) ==
  /\ req[r].pc = "handle" /\ req[r].route \in Keyed
  /\ req'[r].pc \in {"record", "done"} /\ req'[r].answer # "replay"
  /\ req'[r].pc = "record" => req[r].route \in Recording
  /\ req'[r].pc = "done" => Abandoned(r)'
  /\ req'[r].owner = req[r].owner /\ req'[r].key = req[r].key
  /\ req'[r].route = req[r].route /\ req'[r].bypass = req[r].bypass
  /\ \A p \in Requests \ {r} : req'[p] = req[p]
  /\ effects' = [effects EXCEPT ![Slot(r)] = @ \cup {r}]
  /\ row' = row /\ faults <= faults'

\* its answer is recorded
Records(r) ==
  /\ req[r].pc = "record" /\ Only(r, [req[r] EXCEPT !.pc = "done", !.answer = "ok"])
  /\ \/ row[Slot(r)].status = "ABSENT" /\ row' = row
     \/ /\ row[Slot(r)].status # "ABSENT"
        /\ row'[Slot(r)].status = "COMPLETED" /\ row'[Slot(r)].response = r
        /\ row'[Slot(r)].claimedBy = row[Slot(r)].claimedBy
        /\ \A s \in Slots \ {Slot(r)} : row'[s] = row[s]
  /\ effects' = effects /\ faults' = faults

LEMMA InsertKeyStep ==
  ASSUME TypeOK, Shape, NEW r \in Requests, InsertKey(r)
  PROVE  SharedOK' /\ req' \in [Requests -> Request] /\ (QuietStep \/ Claims(r))
<1>0. SharedOK /\ req \in [Requests -> Request] /\ Slot(r) \in Slots
  BY TypeParts, SlotType DEF InsertKey, Shape
<1>1. req[r].pc = "insert" /\ UNCHANGED <<now, buckets, admitted, effects, faults>>
  BY DEF InsertKey, limits
<1>2. CASE row' = row /\ Bypass(r)
  <2>1. faults' \in Nat /\ faults <= faults'
    BY <1>0, <1>1 DEF SharedOK
  <2> QED
    BY <1>1, <1>2, <2>1, InsertRefused
<1>3. CASE /\ row[Slot(r)].status = "ABSENT" /\ Goto(r, "handle")
           /\ row' = [row EXCEPT ![Slot(r)] =
                        [AbsentRow EXCEPT !.status = "PROCESSING", !.claimedBy = r]]
  <2>1. req' \in [Requests -> Request] /\ Only(r, [req[r] EXCEPT !.pc = "handle"])
    BY <1>3, GotoType
  <2> DEFINE new == [AbsentRow EXCEPT !.status = "PROCESSING", !.claimedBy = r]
  <2>2. AbsentRow \in Row
    BY DEF AbsentRow, Row
  <2>3. new \in Row /\ new.status = "PROCESSING" /\ new.claimedBy = r
    BY <2>2 DEF Row
  <2>4. row' = [row EXCEPT ![Slot(r)] = new]
    BY <1>3
  <2> HIDE DEF new
  <2>5. /\ row' \in [Slots -> Row] /\ row'[Slot(r)] = new
        /\ \A s \in Slots \ {Slot(r)} : row'[s] = row[s]
    BY <1>0, <2>3, <2>4 DEF SharedOK
  <2> QED
    BY <1>0, <1>1, <1>3, <2>1, <2>3, <2>5 DEF SharedOK, Claims
<1> QED
  BY <1>2, <1>3 DEF InsertKey

LEMMA RecordResponseStep ==
  ASSUME TypeOK, Shape, NEW r \in Requests, RecordResponse(r)
  PROVE  SharedOK' /\ req' \in [Requests -> Request] /\ Records(r)
<1>0. SharedOK /\ req \in [Requests -> Request] /\ Slot(r) \in Slots /\ row[Slot(r)] \in Row
  BY TypeParts, SlotType DEF RecordResponse, Shape, SharedOK
<1>1. req[r].pc = "record" /\ UNCHANGED <<now, buckets, admitted, effects, faults>>
  BY DEF RecordResponse, limits
<1>2. /\ req' \in [Requests -> Request]
      /\ Only(r, [req[r] EXCEPT !.pc = "done", !.answer = "ok"])
  BY AnswerType DEF RecordResponse, Answers
<1>3. CASE row[Slot(r)].status = "ABSENT"
  BY <1>0, <1>1, <1>2, <1>3 DEF RecordResponse, SharedOK, Records
<1>4. CASE row[Slot(r)].status # "ABSENT"
  <2> DEFINE new == [row[Slot(r)] EXCEPT !.status = "COMPLETED", !.response = r]
  <2>1. /\ new \in Row /\ new.status = "COMPLETED" /\ new.response = r
        /\ new.claimedBy = row[Slot(r)].claimedBy
    BY <1>0 DEF Row
  <2>2. row' = [row EXCEPT ![Slot(r)] = new]
    BY <1>0, <1>4 DEF RecordResponse, SharedOK
  <2> HIDE DEF new
  <2>3. /\ row' \in [Slots -> Row] /\ row'[Slot(r)] = new
        /\ \A s \in Slots \ {Slot(r)} : row'[s] = row[s]
    BY <1>0, <2>1, <2>2 DEF SharedOK
  <2> QED
    BY <1>0, <1>1, <1>2, <1>4, <2>1, <2>3 DEF SharedOK, Records
<1> QED
  BY <1>3, <1>4

LEMMA SucceedStep ==
  ASSUME TypeOK, Shape, NEW r \in Requests, Succeed(r)
  PROVE  SharedOK' /\ req' \in [Requests -> Request] /\ (QuietStep \/ Executes(r))
<1>0. SharedOK /\ req \in [Requests -> Request] /\ req[r] \in Request
  BY TypeParts
<1>1. req[r].pc = "handle" /\ UNCHANGED <<now, buckets, admitted, row, faults>>
  BY DEF Succeed, limits
<1>2. faults' \in Nat /\ faults <= faults'
  BY <1>0, <1>1 DEF SharedOK
<1>3. CASE req[r].route \notin Keyed
  <2>1. effects' = effects
    BY <1>3 DEF Succeed, TakesEffect
  <2>2. req[r].route \notin Recording
    BY <1>3 DEF Recording, Keyed, Routes
  <2>3. Answer(r, "ok")
    BY <2>2 DEF Succeed
  <2> QED
    BY <1>1, <1>2, <2>1, <2>2, <2>3, AnswerQuiet DEF Answers
<1>4. CASE req[r].route \in Keyed
  <2>1. Slot(r) \in Slots /\ effects' = [effects EXCEPT ![Slot(r)] = @ \cup {r}]
    BY <1>4, SlotType DEF Succeed, TakesEffect
  <2>2. effects' \in [Slots -> SUBSET Requests] /\ SharedOK'
    BY <1>0, <1>1, <2>1 DEF SharedOK
  <2>3. req[r].answer # "replay"
    BY <1>1 DEF Shape, Replayed
  <2>4. CASE req[r].route \in Recording
    <3>1. req' \in [Requests -> Request] /\ Only(r, [req[r] EXCEPT !.pc = "record"])
      BY <2>4, GotoType DEF Succeed
    <3>2. /\ req'[r].pc = "record" /\ req'[r].answer = req[r].answer
          /\ req'[r].bypass = req[r].bypass
          /\ req'[r].owner = req[r].owner /\ req'[r].key = req[r].key
          /\ req'[r].route = req[r].route
      BY <1>0, <3>1 DEF Only, Request
    <3> QED
      BY <1>1, <1>2, <1>4, <2>1, <2>2, <2>3, <2>4, <3>1, <3>2 DEF Executes, Only
  <2>5. CASE req[r].route \notin Recording
    <3>1. req' \in [Requests -> Request]
          /\ Only(r, [req[r] EXCEPT !.pc = "done", !.answer = "ok"])
      BY <2>5, AnswerType DEF Succeed, Answers
    <3>2. /\ req'[r].pc = "done" /\ req'[r].answer = "ok"
          /\ req'[r].bypass = req[r].bypass
          /\ req'[r].owner = req[r].owner /\ req'[r].key = req[r].key
          /\ req'[r].route = req[r].route
      BY <1>0, <3>1 DEF Only, Request
    <3> QED
      BY <1>1, <1>2, <1>4, <2>1, <2>2, <2>5, <3>1, <3>2 DEF Executes, Only, Abandoned
  <2> QED
    BY <2>4, <2>5
<1> QED
  BY <1>3, <1>4

LEMMA FailLateStep ==
  ASSUME TypeOK, Shape, NEW r \in Requests, FailLate(r)
  PROVE  SharedOK' /\ req' \in [Requests -> Request] /\ Executes(r)
<1>0. SharedOK /\ req \in [Requests -> Request] /\ req[r] \in Request
  BY TypeParts
<1>1. /\ req[r].pc = "handle" /\ req[r].route \in Keyed
      /\ UNCHANGED <<now, buckets, admitted, row>>
  BY DEF FailLate, limits
<1>2. faults' \in Nat /\ faults <= faults'
  BY <1>0 DEF FailLate, Fault, SharedOK
<1>3. Slot(r) \in Slots /\ effects' = [effects EXCEPT ![Slot(r)] = @ \cup {r}]
  BY <1>1, SlotType DEF FailLate, TakesEffect
<1>4. effects' \in [Slots -> SUBSET Requests] /\ SharedOK'
  BY <1>0, <1>1, <1>2, <1>3 DEF SharedOK
<1>5. req' \in [Requests -> Request]
      /\ Only(r, [req[r] EXCEPT !.pc = "done", !.answer = "error"])
  BY AnswerType DEF FailLate, Answers
<1>6. /\ req'[r].pc = "done" /\ req'[r].answer = "error" /\ req'[r].bypass = req[r].bypass
      /\ req'[r].owner = req[r].owner /\ req'[r].key = req[r].key
      /\ req'[r].route = req[r].route
  BY <1>0, <1>5 DEF Only, Request
<1> QED
  BY <1>1, <1>2, <1>3, <1>4, <1>5, <1>6 DEF Executes, Only, Abandoned

\* What response_body holds is the answer of a request that took effect.
Recorded ==
  \A s \in Slots : row[s].status = "COMPLETED" => row[s].response \in effects[s]

\* Every step is one of these.
LEMMA PipelineStep ==
  ASSUME TypeOK, Shape, Recorded, [Next]_vars
  PROVE  /\ SharedOK' /\ req' \in [Requests -> Request]
         /\ QuietStep \/ \E r \in Requests : Claims(r) \/ Executes(r) \/ Records(r)
<1>0. SharedOK /\ req \in [Requests -> Request] /\ faults \in Nat /\ faults <= faults
  BY TypeParts DEF SharedOK
<1>1. CASE UNCHANGED vars
  BY <1>0, <1>1 DEF vars, SharedOK, QuietStep, Quiet
<1>2. ASSUME NEW r \in Requests, Send(r)
      PROVE  SharedOK' /\ req' \in [Requests -> Request] /\ QuietStep
  <2>1. SharedOK' /\ req' \in [Requests -> Request] /\ NewRequest(r)
    BY <1>2, SendStep
  <2> QED
    BY <1>0, <2>1 DEF NewRequest, QuietStep, Quiet
<1>3. ASSUME NEW r \in Requests, SelectKey(r)
      PROVE  SharedOK' /\ req' \in [Requests -> Request] /\ QuietStep
  <2>1. Slot(r) \in Slots
    BY <1>3, SlotType DEF SelectKey, Shape
  <2> QED
    BY <1>3, <2>1, SelectKeyStep DEF Recorded
<1>4. ASSUME NEW r \in Requests, KeyStatementFails(r)
      PROVE  SharedOK' /\ req' \in [Requests -> Request] /\ QuietStep
  <2>1. /\ req[r].pc \in {"select", "insert"} /\ Bypass(r)
        /\ UNCHANGED <<now, buckets, admitted, row, effects>>
    BY <1>4 DEF KeyStatementFails, limits
  <2>2. faults' \in Nat /\ faults <= faults'
    BY <1>0, <1>4 DEF KeyStatementFails, Fault
  <2> QED
    BY <2>1, <2>2, InsertRefused
<1>5. ASSUME NEW r \in Requests, Reject(r)
      PROVE  SharedOK' /\ req' \in [Requests -> Request] /\ QuietStep
  <2>1. /\ req[r].pc = "handle" /\ Answer(r, "error")
        /\ UNCHANGED <<now, buckets, admitted, row, effects, faults>>
    BY <1>5 DEF Reject, limits
  <2> QED
    BY <1>0, <2>1, AnswerQuiet DEF Answers
<1>6. ASSUME NEW r \in Requests, RecordResponseFails(r)
      PROVE  SharedOK' /\ req' \in [Requests -> Request] /\ QuietStep
  <2>1. /\ req[r].pc = "record" /\ Answer(r, "ok")
        /\ UNCHANGED <<now, buckets, admitted, row, effects>>
    BY <1>6 DEF RecordResponseFails, limits
  <2>2. faults' \in Nat /\ faults <= faults' /\ faults' > 0
    BY <1>0, <1>6 DEF RecordResponseFails, Fault
  <2> QED
    BY <2>1, <2>2, AnswerQuiet DEF Answers
<1>7. CASE Tick
  <2>1. now' \in 0..MaxTime
    BY <1>0, <1>7, PipelineAssumption DEF Tick, SharedOK, PipelineAssumption
  <2>2. UNCHANGED <<buckets, admitted, row, req, effects, faults>>
    BY <1>7 DEF Tick
  <2> QED
    BY <1>0, <2>1, <2>2 DEF SharedOK, QuietStep, Quiet
<1>8. ASSUME NEW r \in Requests, Progress(r) \/ Fail(r)
      PROVE  /\ SharedOK' /\ req' \in [Requests -> Request]
             /\ QuietStep \/ Claims(r) \/ Executes(r) \/ Records(r)
  BY <1>3, <1>4, <1>5, <1>6, <1>8, InsertKeyStep, SucceedStep, FailLateStep, RecordResponseStep
  DEF Progress, Fail
<1> QED
  BY <1>1, <1>2, <1>7, <1>8, CrashStep DEF Next

-----------------------------------------------------------------------------
(* What makes the promises inductive.                                      *)

\* A row belongs to the request whose INSERT it was: it is under way, or there is
\* a reason why it left the row PROCESSING.
Claimed ==
  \A s \in Slots :
    /\ row[s].status = "ABSENT" => row[s].claimedBy = NoRequest
    /\ row[s].status = "PROCESSING" => row[s].claimedBy \in Requests
    /\ \A r \in Requests : row[s].claimedBy = r =>
         /\ Slot(r) = s /\ req[r].route \in Keyed
         /\ req[r].pc \in {"handle", "record", "done"}
         /\ row[s].status = "PROCESSING" /\ req[r].pc = "done" => Abandoned(r)

\* A request that has executed, or may, without having gone past the key table
\* holds the claim on its key.
Through(r) == req[r].bypass = FALSE
Holding ==
  \A r \in Requests :
    /\ req[r].pc \in {"handle", "record"} /\ req[r].route \in Keyed /\ Through(r)
         => row[Slot(r)].claimedBy = r
    /\ req[r].pc = "record" => r \in effects[Slot(r)]
    /\ \A s \in Slots : r \in effects[s] =>
         /\ Slot(r) = s /\ req[r].pc \in {"record", "done"}
         /\ Through(r) => row[s].claimedBy = r

PipelineInv ==
  /\ TypeOK /\ Shape /\ Recorded /\ Claimed /\ Holding /\ ReplayIsTruthful

LEMMA SlotStays ==
  ASSUME NEW r, req'[r].owner = req[r].owner, req'[r].key = req[r].key
  PROVE  Slot(r)' = Slot(r)
BY DEF Slot

LEMMA QuietKeepsShape ==
  ASSUME TypeOK, Shape, QuietStep
  PROVE  Shape'
<1> SUFFICES ASSUME NEW r \in Requests
             PROVE  /\ req'[r].route \in Keyed => req'[r].key \in Keys /\ req'[r].pc # "unsent"
                    /\ req'[r].pc \in {"select", "insert", "record"} => req'[r].route \in Keyed
                    /\ req'[r].pc = "record" => req'[r].route \in Recording
                    /\ req'[r].answer = "replay" => req'[r].route \in Keyed /\ req'[r].pc = "done"
  BY DEF Shape, Sent, Replayed
<1>1. /\ req[r].route \in Keyed => req[r].key \in Keys /\ req[r].pc # "unsent"
      /\ req[r].pc \in {"select", "insert", "record"} => req[r].route \in Keyed
      /\ req[r].pc = "record" => req[r].route \in Recording
      /\ req[r].answer = "replay" => req[r].route \in Keyed /\ req[r].pc = "done"
  BY DEF Shape, Sent, Replayed
<1>2. CASE req'[r] = req[r]
  BY <1>1, <1>2
<1>3. CASE NewRequest(r)
  BY <1>1, <1>3 DEF NewRequest
<1>4. CASE Moves(r)
  BY <1>1, <1>4 DEF Moves
<1> QED
  BY <1>2, <1>3, <1>4 DEF QuietStep, Quiet

LEMMA AbandonedStays ==
  ASSUME TypeOK, NEW r \in Requests, req'[r] = req[r], faults <= faults', faults' \in Nat,
         Abandoned(r)
  PROVE  Abandoned(r)'
BY DEF Abandoned, TypeOK

\* The five parts of the invariant through a step that writes neither table.
LEMMA QuietKeepsInv ==
  ASSUME PipelineInv, TypeOK', QuietStep
  PROVE  PipelineInv'
<1>0. /\ TypeOK /\ Shape /\ Recorded /\ Claimed /\ Holding /\ ReplayIsTruthful
      /\ row' = row /\ effects' = effects /\ faults <= faults' /\ faults' \in Nat
      /\ \A r \in Requests : Quiet(r)
  BY DEF PipelineInv, QuietStep, TypeOK
<1>1. Shape'
  BY <1>0, QuietKeepsShape
<1>2. Recorded'
  BY <1>0 DEF Recorded
<1>3. \A r \in Requests : req[r].pc # "unsent" =>
        Slot(r)' = Slot(r) /\ req'[r].route = req[r].route
  BY <1>0, SlotStays DEF Quiet, NewRequest, Moves
<1>4. \A r \in Requests : req[r].pc \in {"record", "done"} =>
        /\ req'[r].bypass = req[r].bypass
        /\ req'[r] = req[r] \/ (req'[r].pc = "done" /\ Abandoned(r)')
  BY <1>0 DEF Quiet, NewRequest, Moves
<1>5. Claimed'
  <2> SUFFICES ASSUME NEW s \in Slots
               PROVE  /\ row[s].status = "ABSENT" => row[s].claimedBy = NoRequest
                      /\ row[s].status = "PROCESSING" => row[s].claimedBy \in Requests
                      /\ \A r \in Requests : row[s].claimedBy = r =>
                           /\ Slot(r)' = s /\ req'[r].route \in Keyed
                           /\ req'[r].pc \in {"handle", "record", "done"}
                           /\ row[s].status = "PROCESSING" /\ req'[r].pc = "done" => Abandoned(r)'
    BY <1>0 DEF Claimed
  <2>1. ASSUME NEW r \in Requests, row[s].claimedBy = r
        PROVE  /\ Slot(r)' = s /\ req'[r].route \in Keyed
               /\ req'[r].pc \in {"handle", "record", "done"}
               /\ row[s].status = "PROCESSING" /\ req'[r].pc = "done" => Abandoned(r)'
    <3>1. /\ Slot(r) = s /\ req[r].route \in Keyed
          /\ req[r].pc \in {"handle", "record", "done"}
          /\ row[s].status = "PROCESSING" /\ req[r].pc = "done" => Abandoned(r)
      BY <1>0, <2>1 DEF Claimed
    <3>2. Slot(r)' = s /\ req'[r].route \in Keyed
      BY <1>3, <3>1
    <3>3. CASE req'[r] = req[r]
      BY <1>0, <3>1, <3>2, <3>3, AbandonedStays
    <3>4. CASE Moves(r)
      BY <3>1, <3>2, <3>4 DEF Moves
    <3> QED
      BY <1>0, <3>1, <3>3, <3>4 DEF Quiet, NewRequest
  <2> QED
    BY <1>0, <2>1 DEF Claimed
<1>6. Holding'
  <2> SUFFICES ASSUME NEW r \in Requests
               PROVE  /\ (/\ req'[r].pc \in {"handle", "record"} /\ req'[r].route \in Keyed
                          /\ req'[r].bypass = FALSE)
                           => row[Slot(r)'].claimedBy = r
                      /\ req'[r].pc = "record" => r \in effects[Slot(r)']
                      /\ \A s \in Slots : r \in effects[s] =>
                           /\ Slot(r)' = s /\ req'[r].pc \in {"record", "done"}
                           /\ req'[r].bypass = FALSE => row[s].claimedBy = r
    BY <1>0 DEF Holding, Through
  <2>1. ASSUME NEW s \in Slots, r \in effects[s]
        PROVE  /\ Slot(r)' = s /\ req'[r].pc \in {"record", "done"}
               /\ req'[r].bypass = FALSE => row[s].claimedBy = r
    <3>1. /\ Slot(r) = s /\ req[r].pc \in {"record", "done"}
          /\ req[r].bypass = FALSE => row[s].claimedBy = r
      BY <1>0, <2>1 DEF Holding, Through
    <3> QED
      BY <1>3, <1>4, <3>1
  <2>2. CASE req'[r] = req[r]
    BY <1>0, <2>1, <2>2, SlotStays DEF Holding, Through
  <2>3. CASE NewRequest(r)
    BY <2>1, <2>3 DEF NewRequest
  <2>4. CASE Moves(r)
    BY <2>1, <2>4 DEF Moves
  <2> QED
    BY <1>0, <2>2, <2>3, <2>4 DEF Quiet
<1>7. ReplayIsTruthful'
  <2> SUFFICES ASSUME NEW r \in Requests, req'[r].answer = "replay"
               PROVE  req'[r].replayOf \in effects[Slot(r)']
    BY <1>0 DEF ReplayIsTruthful, Replayed
  <2>1. CASE req'[r] = req[r]
    BY <1>0, <2>1, SlotStays DEF ReplayIsTruthful, Replayed
  <2>2. CASE Moves(r)
    BY <2>2, SlotStays DEF Moves
  <2> QED
    BY <1>0, <2>1, <2>2 DEF Quiet, NewRequest
<1> QED
  BY <1>1, <1>2, <1>5, <1>6, <1>7 DEF PipelineInv

\* A request that is not r, through a step of r.
LEMMA OthersStay ==
  ASSUME TypeOK, NEW r \in Requests, NEW p \in Requests, req'[p] = req[p],
         faults <= faults', faults' \in Nat
  PROVE  /\ Slot(p)' = Slot(p)
         /\ Abandoned(p) => Abandoned(p)'
BY AbandonedStays, SlotStays

\* The shape of the requests through a step of r that keeps its route and key.
LEMMA OneShape ==
  ASSUME Shape, NEW r \in Requests, \A p \in Requests \ {r} : req'[p] = req[p],
         req[r].route \in Keyed, req'[r].route = req[r].route, req'[r].key = req[r].key,
         req'[r].pc \notin {"unsent"},
         req'[r].pc = "record" => req[r].route \in Recording,
         req'[r].answer # "replay"
  PROVE  Shape'
<1> SUFFICES ASSUME NEW p \in Requests
             PROVE  /\ req'[p].route \in Keyed => req'[p].key \in Keys /\ req'[p].pc # "unsent"
                    /\ req'[p].pc \in {"select", "insert", "record"} => req'[p].route \in Keyed
                    /\ req'[p].pc = "record" => req'[p].route \in Recording
                    /\ req'[p].answer = "replay" => req'[p].route \in Keyed /\ req'[p].pc = "done"
  BY DEF Shape, Sent, Replayed
<1>1. CASE p = r
  BY <1>1 DEF Shape
<1>2. CASE p # r
  BY <1>2 DEF Shape, Sent, Replayed
<1> QED
  BY <1>1, <1>2

\* The INSERT: the row had no owner, and r's way past the key table is over.
LEMMA ClaimKeepsInv ==
  ASSUME PipelineInv, TypeOK', NEW r \in Requests, Claims(r)
  PROVE  PipelineInv'
<1>0. /\ TypeOK /\ Shape /\ Recorded /\ Claimed /\ Holding /\ ReplayIsTruthful
      /\ effects' = effects /\ faults' = faults /\ faults' \in Nat /\ faults <= faults'
      /\ row[Slot(r)].status = "ABSENT"
      /\ row'[Slot(r)].status = "PROCESSING" /\ row'[Slot(r)].claimedBy = r
      /\ \A s \in Slots \ {Slot(r)} : row'[s] = row[s]
      /\ \A p \in Requests \ {r} : req'[p] = req[p]
  BY DEF PipelineInv, Claims, Only, TypeOK
<1>1. /\ req[r].pc = "insert" /\ req'[r].pc = "handle"
      /\ req'[r].owner = req[r].owner /\ req'[r].key = req[r].key
      /\ req'[r].route = req[r].route /\ req'[r].bypass = req[r].bypass
      /\ req'[r].answer = req[r].answer /\ req'[r].replayOf = req[r].replayOf
  BY <1>0 DEF Claims, Only, TypeOK, Request
<1>2. req[r].route \in Keyed /\ Slot(r) \in Slots /\ req[r].answer # "replay"
  BY <1>0, <1>1, SlotType DEF Shape, Replayed
<1>3. \A p \in Requests : Slot(p)' = Slot(p)
  BY <1>0, <1>1, SlotStays
<1>4. \A p \in Requests \ {r} : Abandoned(p) => Abandoned(p)'
  BY <1>0, AbandonedStays
<1>5. \A p \in Requests : row[Slot(r)].claimedBy # p
  BY <1>0, <1>2 DEF Claimed, Requests, NoRequest
<1>6. Shape'
  BY <1>0, <1>1, <1>2, OneShape
<1>7. Recorded'
  <2> SUFFICES ASSUME NEW s \in Slots, row'[s].status = "COMPLETED"
               PROVE  row'[s].response \in effects[s]
    BY <1>0 DEF Recorded
  <2> QED
    BY <1>0 DEF Recorded
<1>8. Claimed'
  <2> SUFFICES ASSUME NEW s \in Slots
               PROVE  /\ row'[s].status = "ABSENT" => row'[s].claimedBy = NoRequest
                      /\ row'[s].status = "PROCESSING" => row'[s].claimedBy \in Requests
                      /\ \A p \in Requests : row'[s].claimedBy = p =>
                           /\ Slot(p)' = s /\ req'[p].route \in Keyed
                           /\ req'[p].pc \in {"handle", "record", "done"}
                           /\ row'[s].status = "PROCESSING" /\ req'[p].pc = "done" => Abandoned(p)'
    BY DEF Claimed
  <2>1. CASE s = Slot(r)
    BY <1>0, <1>1, <1>2, <1>3, <2>1
  <2>2. CASE s # Slot(r)
    <3>1. row'[s] = row[s]
      BY <1>0, <2>2
    <3>2. \A p \in Requests : row[s].claimedBy = p => p # r
      BY <1>0, <1>1, <2>2 DEF Claimed
    <3>3. ASSUME NEW p \in Requests, row[s].claimedBy = p
          PROVE  /\ Slot(p)' = s /\ req'[p].route \in Keyed
                 /\ req'[p].pc \in {"handle", "record", "done"}
                 /\ row[s].status = "PROCESSING" /\ req'[p].pc = "done" => Abandoned(p)'
      <4>1. p # r /\ req'[p] = req[p]
        BY <1>0, <3>2, <3>3
      <4> QED
        BY <1>0, <1>3, <1>4, <3>3, <4>1 DEF Claimed
    <3> QED
      BY <1>0, <3>1, <3>3 DEF Claimed
  <2> QED
    BY <2>1, <2>2
<1>9. Holding'
  <2> SUFFICES ASSUME NEW p \in Requests
               PROVE  /\ (/\ req'[p].pc \in {"handle", "record"} /\ req'[p].route \in Keyed
                          /\ req'[p].bypass = FALSE)
                           => row'[Slot(p)'].claimedBy = p
                      /\ req'[p].pc = "record" => p \in effects[Slot(p)']
                      /\ \A s \in Slots : p \in effects[s] =>
                           /\ Slot(p)' = s /\ req'[p].pc \in {"record", "done"}
                           /\ req'[p].bypass = FALSE => row'[s].claimedBy = p
    BY <1>0 DEF Holding, Through
  <2>1. CASE p = r
    BY <1>0, <1>1, <1>2, <1>3, <2>1 DEF Holding
  <2>2. CASE p # r
    <3>1. req'[p] = req[p] /\ Slot(p)' = Slot(p)
      BY <1>0, <1>3, <2>2
    <3>2. req[p].route \in Keyed => Slot(p) \in Slots
      BY <1>0, SlotType
    <3>3. \A s \in Slots : row[s].claimedBy = p => row'[s].claimedBy = p
      BY <1>0, <1>5
    <3> QED
      BY <1>0, <3>1, <3>2, <3>3 DEF Holding, Through
  <2> QED
    BY <2>1, <2>2
<1>10. ReplayIsTruthful'
  <2> SUFFICES ASSUME NEW p \in Requests, req'[p].answer = "replay"
               PROVE  req'[p].replayOf \in effects[Slot(p)']
    BY <1>0 DEF ReplayIsTruthful, Replayed
  <2> QED
    BY <1>0, <1>1, <1>2, <1>3 DEF ReplayIsTruthful, Replayed
<1> QED
  BY <1>6, <1>7, <1>8, <1>9, <1>10 DEF PipelineInv

\* The operation takes effect: r holds the claim, or went past the key table.
LEMMA ExecuteKeepsInv ==
  ASSUME PipelineInv, TypeOK', NEW r \in Requests, Executes(r)
  PROVE  PipelineInv'
<1>0. /\ TypeOK /\ Shape /\ Recorded /\ Claimed /\ Holding /\ ReplayIsTruthful
      /\ row' = row /\ faults' \in Nat /\ faults <= faults'
      /\ \A p \in Requests \ {r} : req'[p] = req[p]
  BY DEF PipelineInv, Executes, TypeOK
<1>1. /\ req[r].pc = "handle" /\ req[r].route \in Keyed
      /\ req'[r].pc \in {"record", "done"} /\ req'[r].answer # "replay"
      /\ req'[r].pc = "record" => req[r].route \in Recording
      /\ req'[r].pc = "done" => Abandoned(r)'
      /\ req'[r].owner = req[r].owner /\ req'[r].key = req[r].key
      /\ req'[r].route = req[r].route /\ req'[r].bypass = req[r].bypass
  BY DEF Executes
<1>2. Slot(r) \in Slots
  BY <1>0, <1>1, SlotType
<1>3. /\ effects'[Slot(r)] = effects[Slot(r)] \cup {r}
      /\ \A s \in Slots \ {Slot(r)} : effects'[s] = effects[s]
      /\ \A s \in Slots : effects[s] \subseteq effects'[s]
  BY <1>0, <1>2 DEF Executes, TypeOK
<1>4. \A p \in Requests : Slot(p)' = Slot(p)
  BY <1>0, <1>1, SlotStays
<1>5. \A p \in Requests \ {r} : Abandoned(p) => Abandoned(p)'
  BY <1>0, AbandonedStays
<1>6. Shape'
  BY <1>0, <1>1, OneShape
<1>7. Recorded'
  BY <1>0, <1>3 DEF Recorded
<1>8. Claimed'
  <2> SUFFICES ASSUME NEW s \in Slots, NEW p \in Requests, row[s].claimedBy = p
               PROVE  /\ Slot(p)' = s /\ req'[p].route \in Keyed
                      /\ req'[p].pc \in {"handle", "record", "done"}
                      /\ row[s].status = "PROCESSING" /\ req'[p].pc = "done" => Abandoned(p)'
    BY <1>0 DEF Claimed
  <2>1. CASE p = r
    BY <1>0, <1>1, <1>4, <2>1 DEF Claimed
  <2>2. CASE p # r
    BY <1>0, <1>4, <1>5, <2>2 DEF Claimed
  <2> QED
    BY <2>1, <2>2
<1>9. Holding'
  <2> SUFFICES ASSUME NEW p \in Requests
               PROVE  /\ (/\ req'[p].pc \in {"handle", "record"} /\ req'[p].route \in Keyed
                          /\ req'[p].bypass = FALSE)
                           => row[Slot(p)'].claimedBy = p
                      /\ req'[p].pc = "record" => p \in effects'[Slot(p)']
                      /\ \A s \in Slots : p \in effects'[s] =>
                           /\ Slot(p)' = s /\ req'[p].pc \in {"record", "done"}
                           /\ req'[p].bypass = FALSE => row[s].claimedBy = p
    BY <1>0 DEF Holding, Through
  <2>1. CASE p = r
    <3>1. req[r].bypass = FALSE => row[Slot(r)].claimedBy = r
      BY <1>0, <1>1 DEF Holding, Through
    <3>2. \A s \in Slots : r \in effects'[s] => s = Slot(r)
      BY <1>0, <1>3 DEF Holding
    <3> QED
      BY <1>1, <1>3, <1>4, <2>1, <3>1, <3>2
  <2>2. CASE p # r
    <3>1. req'[p] = req[p] /\ Slot(p)' = Slot(p)
      BY <1>0, <1>4, <2>2
    <3>2. req[p].pc = "record" => Slot(p) \in Slots
      BY <1>0, SlotType DEF Shape
    <3>3. \A s \in Slots : p \in effects'[s] => p \in effects[s]
      BY <1>3, <2>2
    <3> QED
      BY <1>0, <1>3, <3>1, <3>2, <3>3 DEF Holding, Through
  <2> QED
    BY <2>1, <2>2
<1>10. ReplayIsTruthful'
  <2> SUFFICES ASSUME NEW p \in Requests, req'[p].answer = "replay"
               PROVE  req'[p].replayOf \in effects'[Slot(p)']
    BY DEF ReplayIsTruthful, Replayed
  <2>1. req'[p] = req[p] /\ Slot(p)' = Slot(p)
    BY <1>0, <1>1, <1>4
  <2>2. Slot(p) \in Slots
    BY <1>0, <2>1, SlotType DEF Shape, Replayed
  <2> QED
    BY <1>0, <1>3, <2>1, <2>2 DEF ReplayIsTruthful, Replayed
<1> QED
  BY <1>6, <1>7, <1>8, <1>9, <1>10 DEF PipelineInv

\* The answer is recorded, by the request that claimed the key or another.
LEMMA RecordKeepsInv ==
  ASSUME PipelineInv, TypeOK', NEW r \in Requests, Records(r)
  PROVE  PipelineInv'
<1>0. /\ TypeOK /\ Shape /\ Recorded /\ Claimed /\ Holding /\ ReplayIsTruthful
      /\ effects' = effects /\ faults' \in Nat /\ faults <= faults'
      /\ \A p \in Requests \ {r} : req'[p] = req[p]
  BY DEF PipelineInv, Records, Only, TypeOK
<1>1. /\ req[r].pc = "record" /\ req'[r].pc = "done" /\ req'[r].answer = "ok"
      /\ req'[r].owner = req[r].owner /\ req'[r].key = req[r].key
      /\ req'[r].route = req[r].route /\ req'[r].bypass = req[r].bypass
  BY <1>0 DEF Records, Only, TypeOK, Request
<1>2. req[r].route \in Keyed /\ Slot(r) \in Slots /\ r \in effects[Slot(r)]
  BY <1>0, <1>1, SlotType DEF Shape, Holding
<1>3. \A p \in Requests : Slot(p)' = Slot(p)
  BY <1>0, <1>1, SlotStays
<1>4. \A p \in Requests \ {r} : Abandoned(p) => Abandoned(p)'
  BY <1>0, AbandonedStays
<1>5. /\ \A s \in Slots \ {Slot(r)} : row'[s] = row[s]
      /\ row'[Slot(r)].claimedBy = row[Slot(r)].claimedBy
      /\ row'[Slot(r)].status = "ABSENT" => row[Slot(r)].status = "ABSENT"
      /\ row'[Slot(r)].status # "PROCESSING"
      /\ row'[Slot(r)].status = "COMPLETED" => row'[Slot(r)].response \in effects[Slot(r)]
  BY <1>0, <1>2 DEF Records, Recorded
<1>6. Shape'
  BY <1>0, <1>1, <1>2, OneShape
<1>7. Recorded'
  <2> SUFFICES ASSUME NEW s \in Slots, row'[s].status = "COMPLETED"
               PROVE  row'[s].response \in effects[s]
    BY <1>0 DEF Recorded
  <2> QED
    BY <1>0, <1>5 DEF Recorded
<1>8. Claimed'
  <2> SUFFICES ASSUME NEW s \in Slots
               PROVE  /\ row'[s].status = "ABSENT" => row'[s].claimedBy = NoRequest
                      /\ row'[s].status = "PROCESSING" => row'[s].claimedBy \in Requests
                      /\ \A p \in Requests : row'[s].claimedBy = p =>
                           /\ Slot(p)' = s /\ req'[p].route \in Keyed
                           /\ req'[p].pc \in {"handle", "record", "done"}
                           /\ row'[s].status = "PROCESSING" /\ req'[p].pc = "done" => Abandoned(p)'
    BY DEF Claimed
  <2>1. /\ row'[s].claimedBy = row[s].claimedBy
        /\ row'[s].status = "PROCESSING" => s # Slot(r) /\ row[s].status = "PROCESSING"
        /\ row'[s].status = "ABSENT" => row[s].status = "ABSENT"
    BY <1>5
  <2>2. ASSUME NEW p \in Requests, row[s].claimedBy = p
        PROVE  /\ Slot(p)' = s /\ req'[p].route \in Keyed
               /\ req'[p].pc \in {"handle", "record", "done"}
               /\ row'[s].status = "PROCESSING" /\ req'[p].pc = "done" => Abandoned(p)'
    <3>1. CASE p = r
      BY <1>0, <1>1, <1>3, <2>1, <2>2, <3>1 DEF Claimed
    <3>2. CASE p # r
      BY <1>0, <1>3, <1>4, <2>1, <2>2, <3>2 DEF Claimed
    <3> QED
      BY <3>1, <3>2
  <2> QED
    BY <1>0, <2>1, <2>2 DEF Claimed
<1>9. Holding'
  <2> SUFFICES ASSUME NEW p \in Requests
               PROVE  /\ (/\ req'[p].pc \in {"handle", "record"} /\ req'[p].route \in Keyed
                          /\ req'[p].bypass = FALSE)
                           => row'[Slot(p)'].claimedBy = p
                      /\ req'[p].pc = "record" => p \in effects[Slot(p)']
                      /\ \A s \in Slots : p \in effects[s] =>
                           /\ Slot(p)' = s /\ req'[p].pc \in {"record", "done"}
                           /\ req'[p].bypass = FALSE => row'[s].claimedBy = p
    BY <1>0 DEF Holding, Through
  <2>1. \A s \in Slots : row'[s].claimedBy = row[s].claimedBy
    BY <1>5
  <2>2. CASE p = r
    BY <1>0, <1>1, <1>3, <2>1, <2>2 DEF Holding, Through
  <2>3. CASE p # r
    <3>1. req'[p] = req[p] /\ Slot(p)' = Slot(p)
      BY <1>0, <1>3, <2>3
    <3>2. req[p].route \in Keyed => Slot(p) \in Slots
      BY <1>0, SlotType
    <3> QED
      BY <1>0, <2>1, <3>1, <3>2 DEF Holding, Through
  <2> QED
    BY <2>2, <2>3
<1>10. ReplayIsTruthful'
  <2> SUFFICES ASSUME NEW p \in Requests, req'[p].answer = "replay"
               PROVE  req'[p].replayOf \in effects[Slot(p)']
    BY <1>0 DEF ReplayIsTruthful, Replayed
  <2> QED
    BY <1>0, <1>1, <1>3 DEF ReplayIsTruthful, Replayed
<1> QED
  BY <1>6, <1>7, <1>8, <1>9, <1>10 DEF PipelineInv

LEMMA PipelineInvariant == Spec => []PipelineInv
<1>1. Init => PipelineInv
  <2> SUFFICES ASSUME Init PROVE PipelineInv
    OBVIOUS
  <2>1. ASSUME NEW r \in Requests
        PROVE  /\ req[r] \in Request /\ req[r].pc = "unsent" /\ req[r].route = "plain"
               /\ req[r].answer = "none"
    BY DEF Init, Request, Owners, Routes, Answers
  <2>2. req \in [Requests -> Request]
    BY <2>1 DEF Init
  <2>3. /\ \A s \in Slots : row[s] = AbsentRow /\ effects[s] = {}
        /\ AbsentRow \in Row /\ AbsentRow.status = "ABSENT" /\ AbsentRow.claimedBy = NoRequest
    BY DEF Init, AbsentRow, Row
  <2>4. SharedOK
    <3>1. row \in [Slots -> Row] /\ effects \in [Slots -> SUBSET Requests]
      BY <2>3 DEF Init
    <3>2. buckets \in [Replicas -> [Tenants -> Bucket]]
      BY NoBucketType DEF Init
    <3>3. now \in 0..MaxTime /\ faults \in Nat
      BY PipelineAssumption DEF Init, PipelineAssumption
    <3>4. admitted \in [Replicas -> [Tenants -> SUBSET (Requests \X (0..MaxTime))]]
      BY DEF Init
    <3> QED
      BY <3>1, <3>2, <3>3, <3>4 DEF SharedOK
  <2>5. TypeOK
    BY <2>2, <2>4, TypeParts
  <2>6. Shape
    BY <2>1 DEF Shape, Sent, Replayed, Keyed
  <2>7. Recorded /\ Claimed
    BY <2>3 DEF Recorded, Claimed, Requests, NoRequest
  <2>8. Holding /\ ReplayIsTruthful
    BY <2>1, <2>3 DEF Holding, ReplayIsTruthful, Replayed
  <2> QED
    BY <2>5, <2>6, <2>7, <2>8 DEF PipelineInv
<1>2. PipelineInv /\ [Next]_vars => PipelineInv'
  <2> SUFFICES ASSUME PipelineInv, [Next]_vars PROVE PipelineInv'
    OBVIOUS
  <2>1. /\ SharedOK' /\ req' \in [Requests -> Request]
        /\ QuietStep \/ \E r \in Requests : Claims(r) \/ Executes(r) \/ Records(r)
    BY PipelineStep DEF PipelineInv
  <2>2. TypeOK'
    BY <2>1 DEF TypeOK, SharedOK
  <2> QED
    BY <2>1, <2>2, QuietKeepsInv, ClaimKeepsInv, ExecuteKeepsInv, RecordKeepsInv
<1> QED
  BY <1>1, <1>2, PTL DEF Spec

-----------------------------------------------------------------------------
(* The promises.                                                           *)

\* The clock, the buckets, the key table and the requests stay well typed.
THEOREM PipelineTypeCorrect == Spec => []TypeOK
<1>1. PipelineInv => TypeOK
  BY DEF PipelineInv
<1> QED
  BY <1>1, PipelineInvariant, PTL

\* However many requests carry a key, fail half way, race or die: an answer that is
\* replayed is that of a request of the same tenant whose operation took effect.
THEOREM ReplaysAreTruthful == Spec => []ReplayIsTruthful
<1>1. PipelineInv => ReplayIsTruthful
  BY DEF PipelineInv
<1> QED
  BY <1>1, PipelineInvariant, PTL

\* Of the requests with one key that did not go past the key table, at most one
\* executes its operation: the one whose INSERT made the row.
THEOREM ClaimantExecutesOnce == Spec => []ExecutedOnce
<1>1. PipelineInv => ExecutedOnce
  <2> SUFFICES ASSUME PipelineInv, NEW s \in Slots
               PROVE  Cardinality(effects[s] \ Bypassed(s)) <= 1
    BY DEF ExecutedOnce
  <2>1. \A r \in effects[s] \ Bypassed(s) : r = row[s].claimedBy
    <3> SUFFICES ASSUME NEW r \in effects[s], r \notin Bypassed(s)
                 PROVE  r = row[s].claimedBy
      OBVIOUS
    <3>1. r \in Requests /\ req[r].bypass \in BOOLEAN
      BY DEF PipelineInv, TypeOK, Request
    <3>2. req[r].bypass = FALSE
      BY <3>1, Zenon DEF Bypassed
    <3> QED
      BY <3>1, <3>2 DEF PipelineInv, Holding, Through
  <2>2. effects[s] \ Bypassed(s) \subseteq {row[s].claimedBy}
    BY <2>1
  <2>3. IsFiniteSet({row[s].claimedBy}) /\ Cardinality({row[s].claimedBy}) = 1
    BY FS_Singleton
  <2> QED
    BY <2>2, <2>3, FS_Subset, FS_CardinalityType
<1> QED
  BY <1>1, PipelineInvariant, PTL

\* A key that is locked is locked by the request whose INSERT made the row, because
\* it is under way, failed, was lost, or could not record its answer.
THEOREM NoClaimIsLost == Spec => []NoLostClaim
<1>1. PipelineInv => NoLostClaim
  <2> SUFFICES ASSUME PipelineInv, NEW s \in Slots, row[s].status = "PROCESSING"
               PROVE  \E r \in Requests :
                        row[s].claimedBy = r /\ Slot(r) = s /\ (InFlight(r) \/ Abandoned(r))
    BY DEF NoLostClaim
  <2> DEFINE r == row[s].claimedBy
  <2>1. /\ r \in Requests /\ Slot(r) = s /\ req[r].pc \in {"handle", "record", "done"}
        /\ req[r].pc = "done" => Abandoned(r)
    BY DEF PipelineInv, Claimed
  <2>2. InFlight(r) \/ Abandoned(r)
    BY <2>1 DEF InFlight
  <2> QED
    BY <2>1, <2>2
<1> QED
  BY <1>1, PipelineInvariant, PTL

-----------------------------------------------------------------------------
(* The rate limiter.  A replica's history of a tenant's admissions is told *)
(* apart at the start of its last window.                                  *)

Start(bucket) == bucket.resetTime - WindowMs

\* admitted in the last window
Current(history, bucket) == {a \in history : a[2] >= Start(bucket)}

\* admitted before it, but less than WindowMs before
Late(history, bucket) ==
  {a \in history : a[2] < Start(bucket) /\ Start(bucket) - a[2] < WindowMs}

AtMost(n, limit) == IF n <= Quota(limit) THEN n ELSE Quota(limit)

\* The last window has admitted what its count and the limit say, the first at its
\* start; the WindowMs before it do not hold a whole quota, for the window before that
\* one had its first admission earlier.
Metered(history, bucket, limit, t) ==
  /\ IsFiniteSet(history)
  /\ \A a \in history : a[2] \in Nat /\ a[2] <= t /\ a[2] < bucket.resetTime
  /\ bucket.resetTime # 0 =>
       /\ Start(bucket) \in 0..t /\ bucket.count >= 1
       /\ Cardinality(Current(history, bucket)) = AtMost(bucket.count, limit)
       /\ \E a \in history : a[2] = Start(bucket)
       /\ Cardinality(Late(history, bucket)) <= Quota(limit) - 1
  /\ \A x \in Nat : Cardinality(UpTo(history, x)) <= Straddle(limit)

LEMMA QuotaPositive ==
  ASSUME NEW limit \in Nat
  PROVE  /\ Quota(limit) \in Nat /\ 1 <= Quota(limit) /\ limit <= Quota(limit)
         /\ Straddle(limit) = 2 * Quota(limit) - 1 /\ Straddle(limit) \in Nat
BY DEF Quota, Straddle

LEMMA NothingAdmitted ==
  ASSUME NEW limit \in Nat, NEW t \in Nat
  PROVE  Metered({}, NoBucket, limit, t)
<1>1. \A x \in Nat : UpTo({}, x) = {}
  BY DEF UpTo
<1>2. /\ IsFiniteSet({}) /\ \A x \in Nat : Cardinality(UpTo({}, x)) <= Straddle(limit)
  <2>1. IsFiniteSet({}) /\ Cardinality({}) = 0
    BY FS_EmptySet
  <2>2. Straddle(limit) \in Nat
    BY QuotaPositive
  <2> QED
    BY <1>1, <2>1, <2>2
<1> QED
  BY <1>2 DEF Metered, NoBucket

\* parts of a finite history are finite
LEMMA PartsFinite ==
  ASSUME NEW history, NEW bucket, IsFiniteSet(history)
  PROVE  /\ IsFiniteSet(Current(history, bucket)) /\ Cardinality(Current(history, bucket)) \in Nat
         /\ IsFiniteSet(Late(history, bucket)) /\ Cardinality(Late(history, bucket)) \in Nat
         /\ \A x : IsFiniteSet(UpTo(history, x)) /\ Cardinality(UpTo(history, x)) \in Nat
<1>1. /\ Current(history, bucket) \in SUBSET history /\ Late(history, bucket) \in SUBSET history
      /\ \A x : UpTo(history, x) \in SUBSET history
  BY DEF Current, Late, UpTo
<1> QED
  BY <1>1, FS_Subset, FS_CardinalityType

\* Time passes.
LEMMA MeteredLater ==
  ASSUME NEW history, NEW bucket \in Bucket, NEW limit, NEW t \in Nat, NEW u \in Nat, t <= u,
         Metered(history, bucket, limit, t)
  PROVE  Metered(history, bucket, limit, u)
<1>1. Start(bucket) \in 0..t => Start(bucket) \in 0..u
  BY WindowAssumption DEF Start, Bucket
<1>2. \A a \in history : a[2] \in Nat /\ a[2] <= u /\ a[2] < bucket.resetTime
  BY DEF Metered, Bucket
<1> QED
  BY <1>1, <1>2 DEF Metered

\* Who is refused is refused for a quota admitted in the WindowMs before.
LEMMA RefusedAfterQuota ==
  ASSUME NEW history, NEW bucket \in Bucket, NEW limit \in Nat, NEW t \in Nat,
         Metered(history, bucket, limit, t), ~Allowed(bucket, limit, t)
  PROVE  /\ Metered(history, NextBucket(bucket, t), limit, t)
         /\ Cardinality(UpTo(history, t)) >= Quota(limit)
<1> DEFINE next == NextBucket(bucket, t)
<1>1. /\ t < bucket.resetTime /\ bucket.count + 1 > limit
      /\ bucket.resetTime \in Nat /\ bucket.count \in Nat
  BY DEF Allowed, Expired, Bucket
<1>2. next.resetTime = bucket.resetTime /\ next.count = bucket.count + 1
  BY <1>1 DEF NextBucket, Expired, Bucket
<1>3. /\ Start(next) = Start(bucket) /\ Current(history, next) = Current(history, bucket)
      /\ Late(history, next) = Late(history, bucket)
  BY <1>2 DEF Start, Current, Late
<1>4. /\ Start(bucket) \in 0..t /\ bucket.count >= 1
      /\ Cardinality(Current(history, bucket)) = AtMost(bucket.count, limit)
  BY <1>1 DEF Metered
<1>5. AtMost(bucket.count, limit) = Quota(limit) /\ AtMost(next.count, limit) = Quota(limit)
  BY <1>1, <1>2, <1>4 DEF AtMost, Quota
<1> HIDE DEF next
<1>6. Metered(history, next, limit, t)
  BY <1>1, <1>2, <1>3, <1>4, <1>5 DEF Metered
<1>7. Current(history, bucket) \in SUBSET UpTo(history, t)
  <2> SUFFICES ASSUME NEW a \in history, a[2] >= Start(bucket)
               PROVE  a[2] <= t /\ t - a[2] < WindowMs
    BY DEF Current, UpTo
  <2>1. a[2] \in Nat /\ a[2] <= t
    BY DEF Metered
  <2> QED
    BY <1>1, <2>1, WindowAssumption DEF Start
<1>8. Cardinality(UpTo(history, t)) >= Quota(limit)
  BY <1>4, <1>5, <1>7, FS_Subset, PartsFinite, QuotaPositive DEF Metered
<1> QED
  BY <1>6, <1>8 DEF next

\* A request is admitted.
LEMMA MeteredAdmits ==
  ASSUME NEW history, NEW bucket \in Bucket, NEW limit \in Nat, NEW t \in Nat,
         Metered(history, bucket, limit, t), Allowed(bucket, limit, t),
         NEW a, a \notin history, a[2] = t
  PROVE  Metered(history \cup {a}, NextBucket(bucket, t), limit, t)
<1> DEFINE next == NextBucket(bucket, t)
           all == history \cup {a}
<1>1. IsFiniteSet(history) /\ IsFiniteSet(all)
  BY FS_AddElement DEF Metered
<1>2. next \in Bucket
  BY NextBucketType
<1>0. next = NextBucket(bucket, t) /\ all = history \cup {a}
  OBVIOUS
<1>3. /\ next.resetTime # 0 /\ Start(next) \in 0..t /\ next.count >= 1 /\ t < next.resetTime
      /\ Cardinality(Current(all, next)) = AtMost(next.count, limit)
      /\ \E b \in all : b[2] = Start(next)
      /\ Cardinality(Late(all, next)) <= Quota(limit) - 1
  <2>1. CASE Expired(bucket, t)
    <3> HIDE DEF next
    <3>1. /\ next.resetTime # 0 /\ Start(next) = t /\ next.count = 1 /\ Current(all, next) = {a}
          /\ Cardinality(Late(all, next)) <= Quota(limit) - 1
      <4>1. next.resetTime = t + WindowMs /\ next.count = 1
        BY <1>0, <2>1 DEF NextBucket
      <4>2. next.resetTime # 0 /\ Start(next) = t
        BY <4>1, WindowAssumption DEF Start
      <4>3. Late(all, next) \in SUBSET history
        BY <4>2 DEF Late
      <4>4. CASE bucket.resetTime = 0
        <5>1. history = {}
          BY <4>4 DEF Metered
        <5>2. Current(all, next) = {a} /\ Late(all, next) = {}
          BY <4>2, <5>1 DEF Current, Late
        <5>3. Cardinality(Late(all, next)) <= Quota(limit) - 1
          <6>1. Cardinality(Late(all, next)) = 0
            BY <5>2, FS_EmptySet
          <6>2. Quota(limit) \in Nat /\ 1 <= Quota(limit)
            BY QuotaPositive
          <6> QED
            BY <6>1, <6>2
        <5> QED
          BY <4>1, <4>2, <4>3, <5>2, <5>3
      <4>5. CASE bucket.resetTime # 0
        <5>1. /\ bucket.resetTime \in Nat /\ bucket.resetTime <= t /\ Start(bucket) \in Nat
              /\ \A b \in history : b[2] \in Nat /\ b[2] < t
          <6>1. bucket.resetTime \in Nat /\ bucket.resetTime <= t
            BY <2>1 DEF Expired, Bucket
          <6>2. Start(bucket) \in 0..t
            BY <4>5 DEF Metered
          <6>3. \A b \in history : b[2] \in Nat /\ b[2] < bucket.resetTime
            BY DEF Metered
          <6> QED
            BY <6>1, <6>2, <6>3
        <5>2. PICK first \in history : first[2] = Start(bucket)
          BY <4>5 DEF Metered
        <5>3. Late(all, next) \in SUBSET (Current(history, bucket) \ {first})
          <6> SUFFICES ASSUME NEW b \in history, b[2] < t, t - b[2] < WindowMs
                       PROVE  b[2] >= Start(bucket) /\ b # first
            BY <4>2 DEF Late, Current
          <6>1. b[2] > Start(bucket)
            BY <5>1, WindowAssumption DEF Start
          <6> QED
            BY <5>1, <5>2, <6>1
        <5>4. first \in Current(history, bucket)
          BY <5>1, <5>2 DEF Current
        <5>5. /\ IsFiniteSet(Current(history, bucket)) /\ Cardinality(Current(history, bucket)) \in Nat
              /\ Cardinality(Current(history, bucket)) <= Quota(limit)
          BY <4>5, PartsFinite, QuotaPositive DEF Metered, AtMost, Bucket
        <5>6. /\ IsFiniteSet(Current(history, bucket) \ {first})
              /\ Cardinality(Current(history, bucket) \ {first}) = Cardinality(Current(history, bucket)) - 1
          BY <5>4, <5>5, FS_RemoveElement
        <5>7. IsFiniteSet(Late(all, next)) /\ Cardinality(Late(all, next)) \in Nat
          BY <5>3, <5>6, FS_Subset, FS_CardinalityType
        <5>8. Cardinality(Late(all, next)) <= Cardinality(Current(history, bucket) \ {first})
          BY <5>3, <5>6, FS_Subset
        <5>9. Cardinality(Late(all, next)) <= Quota(limit) - 1
          BY <5>5, <5>6, <5>7, <5>8, QuotaPositive
        <5>10. Current(all, next) \subseteq {a}
          <6> SUFFICES ASSUME NEW b \in history, b[2] >= t PROVE FALSE
            BY <4>2 DEF Current
          <6> QED
            BY <5>1
        <5>11. a \in Current(all, next)
          BY <4>2 DEF Current
        <5> QED
          BY <4>1, <4>2, <4>3, <5>9, <5>10, <5>11
      <4> QED
        BY <4>4, <4>5
    <3>2. t < next.resetTime
      BY <1>2, <3>1, WindowAssumption DEF Start, Bucket
    <3>3. Cardinality(Current(all, next)) = AtMost(next.count, limit)
      <4>1. Cardinality({a}) = 1
        BY FS_Singleton
      <4>2. Quota(limit) \in Nat /\ 1 <= Quota(limit)
        BY QuotaPositive
      <4> QED
        BY <3>1, <4>1, <4>2 DEF AtMost
    <3>4. a \in all /\ Start(next) \in 0..t /\ next.count >= 1
      BY <3>1
    <3> QED
      BY <3>1, <3>2, <3>3, <3>4
  <2>2. CASE ~Expired(bucket, t)
    <3>1. /\ t < bucket.resetTime /\ bucket.count + 1 <= limit /\ bucket.resetTime # 0
          /\ bucket.resetTime \in Nat /\ bucket.count \in Nat
      BY <2>2 DEF Allowed, Expired, Bucket
    <3>2. next.resetTime = bucket.resetTime /\ next.count = bucket.count + 1
      BY <2>2 DEF NextBucket, Bucket
    <3>3. /\ Start(bucket) \in 0..t /\ bucket.count >= 1
          /\ Cardinality(Current(history, bucket)) = AtMost(bucket.count, limit)
          /\ \E b \in history : b[2] = Start(bucket)
          /\ Cardinality(Late(history, bucket)) <= Quota(limit) - 1
      BY <3>1 DEF Metered
    <3>4. Start(next) = Start(bucket)
      BY <3>2 DEF Start
    <3> HIDE DEF next
    <3>5. /\ Current(all, next) = Current(history, bucket) \cup {a}
          /\ a \notin Current(history, bucket)
      BY <3>3, <3>4 DEF Current
    <3>6. Late(all, next) = Late(history, bucket)
      BY <3>3, <3>4 DEF Late
    <3>7. Cardinality(Current(all, next)) = Cardinality(Current(history, bucket)) + 1
      BY <1>1, <3>5, PartsFinite, FS_AddElement
    <3>8. Cardinality(Current(all, next)) = AtMost(next.count, limit)
      BY <3>1, <3>2, <3>3, <3>7, QuotaPositive DEF AtMost
    <3> QED
      BY <3>1, <3>2, <3>3, <3>4, <3>6, <3>8
  <2> QED
    BY <2>1, <2>2
<1> HIDE DEF next
<1>4. ASSUME NEW x \in Nat
      PROVE  Cardinality(UpTo(all, x)) <= Straddle(limit)
  <2>1. CASE x < t
    <3>1. UpTo(all, x) = UpTo(history, x)
      BY <2>1 DEF UpTo
    <3> QED
      BY <3>1 DEF Metered
  <2>2. CASE x >= t
    <3> DEFINE both == Current(all, next) \cup Late(all, next)
    <3>1. UpTo(all, x) \in SUBSET both
      <4> SUFFICES ASSUME NEW b \in all, x - b[2] < WindowMs, b[2] < Start(next)
                   PROVE  Start(next) - b[2] < WindowMs
        <5>1. \A b \in all : b[2] \in Nat
          BY DEF Metered
        <5> QED
          BY <1>3, <5>1 DEF UpTo, Current, Late
      <4>1. b[2] \in Nat
        BY DEF Metered
      <4> QED
        BY <1>3, <2>2, <4>1, WindowAssumption
    <3>2. /\ IsFiniteSet(Current(all, next)) /\ Cardinality(Current(all, next)) \in Nat
          /\ IsFiniteSet(Late(all, next)) /\ Cardinality(Late(all, next)) \in Nat
      BY <1>1, PartsFinite
    <3>3. /\ IsFiniteSet(both)
          /\ Cardinality(both) = Cardinality(Current(all, next)) + Cardinality(Late(all, next))
                                  - Cardinality(Current(all, next) \cap Late(all, next))
      BY <3>2, FS_Union
    <3>4. Cardinality(Current(all, next) \cap Late(all, next)) \in Nat
      BY <3>2, FS_Intersection, FS_CardinalityType
    <3>5. Cardinality(Current(all, next)) <= Quota(limit)
      BY <1>2, <1>3, QuotaPositive DEF AtMost, Bucket
    <3>6. Cardinality(both) <= Straddle(limit)
      BY <1>3, <3>2, <3>3, <3>4, <3>5, QuotaPositive
    <3>7. Cardinality(UpTo(all, x)) <= Cardinality(both) /\ Cardinality(UpTo(all, x)) \in Nat
      BY <3>1, <3>3, FS_Subset, FS_CardinalityType
    <3>8. Cardinality(both) \in Nat
      BY <3>3, FS_CardinalityType
    <3> QED
      BY <3>6, <3>7, <3>8, QuotaPositive
  <2> QED
    BY <2>1, <2>2
<1>5. \A b \in all : b[2] \in Nat /\ b[2] <= t /\ b[2] < next.resetTime
  <2>1. \A b \in all : b[2] \in Nat /\ b[2] <= t
    BY DEF Metered
  <2> QED
    BY <1>2, <1>3, <2>1 DEF Bucket
<1> QED
  BY <1>1, <1>3, <1>4, <1>5 DEF Metered, next

\* The bucket of every replica and tenant is metered, and what was admitted was sent.
WindowInv ==
  /\ \A p \in Replicas, t \in Tenants : Metered(admitted[p][t], buckets[p][t], Limit[t], now)
  /\ \A p \in Replicas, t \in Tenants : \A a \in admitted[p][t] : Sent(a[1])

LEMMA WindowInit == Init => WindowInv
<1> SUFFICES ASSUME Init PROVE WindowInv
  OBVIOUS
<1>1. \A p \in Replicas, t \in Tenants :
        admitted[p][t] = {} /\ buckets[p][t] = NoBucket /\ Limit[t] \in Nat
  BY PipelineAssumption DEF Init, PipelineAssumption
<1>2. now = 0 /\ now \in Nat
  BY DEF Init
<1>3. \A limit \in Nat : Metered({}, NoBucket, limit, now)
  BY <1>2, NothingAdmitted
<1>4. ASSUME NEW p \in Replicas, NEW t \in Tenants
      PROVE  Metered(admitted[p][t], buckets[p][t], Limit[t], now)
  BY <1>1, <1>3, Zenon
<1> QED
  BY <1>1, <1>4 DEF WindowInv

\* Requests that were sent stay sent.
LEMMA SentStaysSent ==
  ASSUME PipelineInv, [Next]_vars, NEW q \in Requests, Sent(q)
  PROVE  Sent(q)'
<1>1. QuietStep \/ \E r \in Requests : Claims(r) \/ Executes(r) \/ Records(r)
  BY PipelineStep DEF PipelineInv
<1>2. req \in [Requests -> Request] /\ req[q] \in Request
  BY DEF PipelineInv, TypeOK
<1>3. CASE QuietStep
  <2>1. Quiet(q)
    BY <1>3 DEF QuietStep
  <2> QED
    BY <2>1 DEF Quiet, NewRequest, Moves, Sent
<1>4. ASSUME NEW r \in Requests, Claims(r) \/ Executes(r) \/ Records(r)
      PROVE  Sent(q)'
  <2>1. CASE q # r
    <3>1. req'[q] = req[q]
      BY <1>4, <2>1 DEF Claims, Executes, Records, Only
    <3> QED
      BY <3>1 DEF Sent
  <2>2. CASE q = r
    <3>1. req'[q].pc \in {"handle", "record", "done"}
      BY <1>2, <1>4, <2>2 DEF Claims, Executes, Records, Only, Request
    <3> QED
      BY <3>1 DEF Sent
  <2> QED
    BY <2>1, <2>2
<1> QED
  BY <1>1, <1>3, <1>4

\* Only an arrival refuses, and only an arrival, a crash and the clock touch the limits.
NoneRefused ==
  \A q \in Requests : req'[q].answer = "refused" => req[q].answer = "refused"

Arrives(r) ==
  \E t \in Tenants, route \in Routes, k \in Keys \cup {NoKey} : Arrive(r, t, route, k)

LEMMA NoneRefusedBy ==
  ASSUME TypeOK, NEW r \in Requests,
         \/ \E pc \in {"select", "insert", "handle", "record", "done"} : Goto(r, pc)
         \/ Bypass(r)
         \/ \E a \in Answers \ {"refused"} : Answer(r, a)
  PROVE  NoneRefused
<1>1. req \in [Requests -> Request] /\ req[r] \in Request
  BY DEF TypeOK
<1>2. ASSUME NEW q, Only(r, q), q.answer = "refused" => req[r].answer = "refused"
      PROVE  NoneRefused
  BY <1>2 DEF Only, NoneRefused
<1>3. ASSUME NEW pc \in {"select", "insert", "handle", "record", "done"}, Goto(r, pc)
      PROVE  NoneRefused
  <2>1. [req[r] EXCEPT !.pc = pc].answer = req[r].answer
    BY <1>1 DEF Request
  <2> QED
    BY <1>2, <1>3, <2>1, GotoType
<1>4. CASE Bypass(r)
  <2>1. [req[r] EXCEPT !.pc = "handle", !.bypass = TRUE].answer = req[r].answer
    BY <1>1 DEF Request
  <2> QED
    BY <1>2, <1>4, <2>1, BypassType
<1>5. ASSUME NEW a \in Answers \ {"refused"}, Answer(r, a)
      PROVE  NoneRefused
  <2>1. [req[r] EXCEPT !.pc = "done", !.answer = a].answer = a
    BY <1>1 DEF Request
  <2> QED
    BY <1>2, <1>5, <2>1, AnswerType
<1> QED
  BY <1>3, <1>4, <1>5

LEMMA LimitsStep ==
  ASSUME TypeOK, [Next]_vars
  PROVE  \/ \E r \in Requests : Arrives(r)
         \/ /\ NoneRefused
            /\ UNCHANGED limits \/ Tick \/ \E p \in Replicas : Crash(p)
<1>0. req \in [Requests -> Request]
  BY DEF TypeOK
<1>1. CASE UNCHANGED vars
  BY <1>1 DEF vars, limits, NoneRefused
<1>2. CASE Tick
  BY <1>2 DEF Tick, NoneRefused
<1>3. ASSUME NEW p \in Replicas, Crash(p)
      PROVE  NoneRefused
  <2> SUFFICES ASSUME NEW q \in Requests, req'[q].answer = "refused"
               PROVE  req[q].answer = "refused"
    BY DEF NoneRefused
  <2>1. req[q] \in Request
    BY <1>0
  <2>2. \/ req'[q] = [req[q] EXCEPT !.pc = "done", !.answer = "lost"]
        \/ req'[q] = req[q]
    BY <1>3, Zenon DEF Crash
  <2> QED
    BY <2>1, <2>2 DEF Request
<1>4. ASSUME NEW r \in Requests, Send(r)
      PROVE  Arrives(r) \/ (NoneRefused /\ UNCHANGED limits)
  <2>1. CASE ArriveInvalid(r)
    BY <2>1, NoneRefusedBy DEF ArriveInvalid, Answers
  <2>2. ASSUME NEW k \in Keys, ArriveAdmin(r, k)
        PROVE  NoneRefused /\ UNCHANGED limits
    <3>1. \A q \in Requests : req'[q].answer = req[q].answer
      BY <1>0, <2>2 DEF ArriveAdmin, Request
    <3> QED
      BY <2>2, <3>1 DEF ArriveAdmin, NoneRefused
  <2>3. ASSUME NEW t \in Tenants, Arrive(r, t, "plain", NoKey)
        PROVE  Arrives(r)
    BY <2>3 DEF Arrives, Routes
  <2>4. ASSUME NEW t \in Tenants, NEW route \in {"workflow", "other"}, NEW k \in Keys,
               Arrive(r, t, route, k)
        PROVE  Arrives(r)
    BY <2>4 DEF Arrives, Routes
  <2> QED
    BY <1>4, <2>1, <2>2, <2>3, <2>4 DEF Send
<1>5. ASSUME NEW r \in Requests, Progress(r) \/ Fail(r)
      PROVE  NoneRefused /\ UNCHANGED limits
  <2>1. CASE SelectKey(r)
    <3>1. CASE req' = [req EXCEPT ![r].pc = "done", ![r].answer = "replay",
                                  ![r].replayOf = row[Slot(r)].response]
      <4>1. \A q \in Requests : q # r => req'[q] = req[q]
        BY <1>0, <3>1
      <4>2. req'[r].answer = "replay"
        BY <1>0, <3>1 DEF Request
      <4> QED
        BY <2>1, <4>1, <4>2 DEF SelectKey, NoneRefused
    <3>2. CASE Goto(r, "insert") \/ Answer(r, "conflict")
      BY <2>1, <3>2, NoneRefusedBy DEF SelectKey, Answers
    <3> QED
      BY <2>1, <3>1, <3>2 DEF SelectKey
  <2>2. CASE InsertKey(r) \/ KeyStatementFails(r)
    BY <2>2, NoneRefusedBy DEF InsertKey, KeyStatementFails
  <2>3. CASE Succeed(r) \/ Reject(r) \/ FailLate(r)
    BY <2>3, NoneRefusedBy DEF Succeed, Reject, FailLate, Answers
  <2>4. CASE RecordResponse(r) \/ RecordResponseFails(r)
    BY <2>4, NoneRefusedBy DEF RecordResponse, RecordResponseFails, Answers
  <2> QED
    BY <1>5, <2>1, <2>2, <2>3, <2>4 DEF Progress, Fail
<1> QED
  BY <1>1, <1>2, <1>3, <1>4, <1>5 DEF Next

\* A call of checkRateLimit, whatever it answers.
LEMMA ArriveMeters ==
  ASSUME TypeOK, WindowInv, NEW r \in Requests, Arrives(r)
  PROVE  /\ now' = now /\ Sent(r)'
         /\ \A p \in Replicas, t \in Tenants :
              /\ Metered(admitted'[p][t], buckets'[p][t], Limit[t], now)
              /\ \A a \in admitted'[p][t] : a \in admitted[p][t] \/ a[1] = r
         /\ req'[r].answer = "refused" =>
              /\ req'[r].owner \in Tenants
              /\ AdmittedUpTo(req[r].replica, req'[r].owner, now) >= Quota(Limit[req'[r].owner])
         /\ \A q \in Requests \ {r} : req'[q] = req[q]
<1>1. PICK t \in Tenants, route \in Routes, k \in Keys \cup {NoKey} : Arrive(r, t, route, k)
  BY DEF Arrives
<1> DEFINE p == req[r].replica
           history == admitted[p][t]
           bucket == buckets[p][t]
           ok == Allowed(bucket, Limit[t], now)
<1>2. /\ req \in [Requests -> Request] /\ p \in Replicas /\ now \in Nat /\ Limit[t] \in Nat
      /\ buckets \in [Replicas -> [Tenants -> Bucket]] /\ bucket \in Bucket
      /\ admitted \in [Replicas -> [Tenants -> SUBSET (Requests \X (0..MaxTime))]]
  BY PipelineAssumption DEF TypeOK, Request, PipelineAssumption
<1>3. /\ now' = now /\ ~Sent(r)
      /\ buckets' = [buckets EXCEPT ![p] = [buckets[p] EXCEPT ![t] = NextBucket(bucket, now)]]
      /\ admitted' = IF ok THEN [admitted EXCEPT ![p] = [admitted[p] EXCEPT ![t] =
                                                           history \cup {<<r, now>>}]]
                    ELSE admitted
  BY <1>1 DEF Arrive, NextToSend
<1>4. /\ req'[r].owner = t /\ (req'[r].answer = "refused" => ~ok) /\ Sent(r)'
      /\ \A q \in Requests \ {r} : req'[q] = req[q]
  <2>1. req' = [req EXCEPT ![r] = [req[r] EXCEPT !.pc = IF ok THEN FirstStep(route) ELSE "done",
                  !.owner = t, !.route = route, !.key = k,
                  !.answer = IF ok THEN "none" ELSE "refused"]]
    BY <1>1, <1>2 DEF Arrive
  <2>2. FirstStep(route) \in {"select", "handle"}
    BY DEF FirstStep
  <2> HIDE DEF ok
  <2> QED
    BY <1>2, <2>1, <2>2 DEF Request, Sent
<1>5. Metered(history, bucket, Limit[t], now)
  BY <1>2 DEF WindowInv
<1>6. <<r, now>> \notin history
  BY <1>2, <1>3 DEF WindowInv
<1>7. /\ buckets'[p][t] = NextBucket(bucket, now)
      /\ \A q \in Replicas, u \in Tenants : q # p \/ u # t => buckets'[q][u] = buckets[q][u]
  BY <1>2, <1>3
<1>8. /\ admitted'[p][t] = IF ok THEN history \cup {<<r, now>>} ELSE history
      /\ \A q \in Replicas, u \in Tenants : q # p \/ u # t => admitted'[q][u] = admitted[q][u]
  <2> HIDE DEF ok
  <2> QED
    BY <1>2, <1>3
<1>9. Metered(admitted'[p][t], buckets'[p][t], Limit[t], now)
  <2>1. CASE ok
    <3>1. Metered(history \cup {<<r, now>>}, NextBucket(bucket, now), Limit[t], now)
      BY <1>2, <1>5, <1>6, <2>1, MeteredAdmits
    <3> QED
      BY <1>7, <1>8, <2>1, <3>1
  <2>2. CASE ~ok
    <3>1. Metered(history, NextBucket(bucket, now), Limit[t], now)
      BY <1>2, <1>5, <2>2, RefusedAfterQuota
    <3> QED
      BY <1>7, <1>8, <2>2, <3>1
  <2> QED
    BY <2>1, <2>2
<1>10. ASSUME NEW q \in Replicas, NEW u \in Tenants
       PROVE  /\ Metered(admitted'[q][u], buckets'[q][u], Limit[u], now)
              /\ \A a \in admitted'[q][u] : a \in admitted[q][u] \/ a[1] = r
  <2>1. CASE q = p /\ u = t
    <3>1. \A a \in admitted'[p][t] : a \in history \/ a = <<r, now>>
      BY <1>8
    <3> QED
      BY <1>9, <2>1, <3>1
  <2>2. CASE q # p \/ u # t
    BY <1>7, <1>8, <2>2 DEF WindowInv
  <2> QED
    BY <2>1, <2>2
<1>11. ASSUME ~ok
       PROVE  AdmittedUpTo(p, t, now) >= Quota(Limit[t])
  BY <1>2, <1>5, <1>11, RefusedAfterQuota DEF AdmittedUpTo
<1> HIDE DEF ok
<1> QED
  BY <1>3, <1>4, <1>10, <1>11

LEMMA WindowStep ==
  ASSUME PipelineInv, WindowInv, [Next]_vars
  PROVE  WindowInv'
<1>1. TypeOK /\ TypeOK' /\ now \in Nat /\ now' \in Nat
  <2>1. TypeOK
    BY DEF PipelineInv
  <2>2. SharedOK' /\ req' \in [Requests -> Request]
    BY PipelineStep DEF PipelineInv
  <2>3. TypeOK'
    BY <2>2 DEF TypeOK, SharedOK
  <2> QED
    BY <2>1, <2>3 DEF TypeOK
<1>2. ASSUME NEW q \in Requests, Sent(q)
      PROVE  Sent(q)'
  BY <1>2, SentStaysSent
<1>3. \A p \in Replicas, t \in Tenants :
        /\ admitted[p][t] \subseteq Requests \X (0..MaxTime) /\ buckets[p][t] \in Bucket
        /\ Limit[t] \in Nat
  BY <1>1, PipelineAssumption DEF TypeOK, PipelineAssumption
<1>4. CASE UNCHANGED limits
  BY <1>2, <1>3, <1>4 DEF WindowInv, limits
<1>5. CASE Tick
  <2>1. now <= now' /\ UNCHANGED <<buckets, admitted>>
    BY <1>1, <1>5 DEF Tick
  <2>2. ASSUME NEW p \in Replicas, NEW t \in Tenants
        PROVE  Metered(admitted[p][t], buckets[p][t], Limit[t], now')
    <3>1. Metered(admitted[p][t], buckets[p][t], Limit[t], now) /\ buckets[p][t] \in Bucket
      BY <1>3 DEF WindowInv
    <3> QED
      BY <1>1, <2>1, <3>1, MeteredLater
  <2> QED
    BY <1>2, <1>3, <2>1, <2>2 DEF WindowInv
<1>6. ASSUME NEW p \in Replicas, Crash(p)
      PROVE  WindowInv'
  <2>1. /\ now' = now
        /\ \A q \in Replicas, t \in Tenants :
             IF q = p THEN admitted'[q][t] = {} /\ buckets'[q][t] = NoBucket
             ELSE admitted'[q][t] = admitted[q][t] /\ buckets'[q][t] = buckets[q][t]
    BY <1>1, <1>6 DEF Crash, TypeOK
  <2>2. \A limit \in Nat : Metered({}, NoBucket, limit, now)
    BY <1>1, NothingAdmitted
  <2>3. ASSUME NEW q \in Replicas, NEW t \in Tenants
        PROVE  /\ Metered(admitted'[q][t], buckets'[q][t], Limit[t], now')
               /\ \A a \in admitted'[q][t] : Sent(a[1])'
    <3>1. CASE q = p
      BY <1>3, <2>1, <2>2, <3>1, Zenon
    <3>2. CASE q # p
      BY <1>2, <1>3, <2>1, <3>2 DEF WindowInv
    <3> QED
      BY <3>1, <3>2
  <2> QED
    BY <2>3 DEF WindowInv
<1>7. ASSUME NEW r \in Requests, Arrives(r)
      PROVE  WindowInv'
  <2>1. /\ now' = now
        /\ \A p \in Replicas, t \in Tenants :
              /\ Metered(admitted'[p][t], buckets'[p][t], Limit[t], now)
              /\ \A a \in admitted'[p][t] : a \in admitted[p][t] \/ a[1] = r
    BY <1>1, <1>7, ArriveMeters
  <2>2. Sent(r)'
    BY <1>1, <1>7, ArriveMeters
  <2> QED
    BY <1>2, <1>3, <2>1, <2>2 DEF WindowInv
<1> QED
  BY <1>1, <1>4, <1>5, <1>6, <1>7, LimitsStep

LEMMA WindowInvariant == Spec => [](PipelineInv /\ WindowInv)
<1>1. PipelineInv /\ WindowInv /\ [Next]_vars => WindowInv'
  BY WindowStep
<1> QED
  BY <1>1, WindowInit, PipelineInvariant, PTL DEF Spec

\* What the fixed windows of checkRateLimit amount to: however the requests of a tenant fall
\* into them, a replica admits no more in any stretch of WindowMs than all but the first of
\* one window and all of the next.  That the quota itself bounds it, as the documents have
\* it of a sliding window, is QuotaPerWindow, and does not hold.
THEOREM WindowsAreBounded == Spec => []StraddleBound
<1>1. WindowInv => StraddleBound
  <2> SUFFICES ASSUME WindowInv, NEW p \in Replicas, NEW t \in Tenants, NEW x \in 0..MaxTime
               PROVE  Cardinality(UpTo(admitted[p][t], x)) <= Straddle(Limit[t])
    BY DEF StraddleBound, AdmittedUpTo
  <2>1. x \in Nat
    BY PipelineAssumption DEF PipelineAssumption
  <2> QED
    BY <2>1 DEF WindowInv, Metered
<1> QED
  BY <1>1, WindowInvariant, PTL

\* A tenant is refused only when it has itself used up its quota at that replica within
\* the last WindowMs, whatever the other tenants do.
THEOREM NoNoisyNeighbour == Spec => RefusedForItself
<1> DEFINE Step ==
      \A r \in Requests :
        req'[r].answer = "refused" /\ req[r].answer # "refused" =>
          AdmittedUpTo(req[r].replica, req'[r].owner, now) >= Quota(Limit[req'[r].owner])
<1>1. PipelineInv /\ WindowInv /\ [Next]_vars => Step
  <2> SUFFICES ASSUME PipelineInv, WindowInv, [Next]_vars, NEW r \in Requests,
                      req'[r].answer = "refused", req[r].answer # "refused"
               PROVE  AdmittedUpTo(req[r].replica, req'[r].owner, now)
                        >= Quota(Limit[req'[r].owner])
    OBVIOUS
  <2>1. TypeOK
    BY DEF PipelineInv
  <2>2. ~NoneRefused
    BY DEF NoneRefused
  <2>3. PICK q \in Requests : Arrives(q)
    BY <2>1, <2>2, LimitsStep
  <2>4. q = r
    BY <2>1, <2>3, ArriveMeters
  <2> QED
    BY <2>1, <2>3, <2>4, ArriveMeters
<1> QED
  BY <1>1, WindowInvariant, PTL DEF RefusedForItself, Spec
=============================================================================
