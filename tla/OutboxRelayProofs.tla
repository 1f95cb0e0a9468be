------------------------- MODULE OutboxRelayProofs -------------------------
(***************************************************************************)
(* Machine-checked proofs about OutboxRelay, for every set of replicas,    *)
(* every number of events and every bound.                                 *)
(***************************************************************************)
EXTENDS OutboxRelay, FiniteSetTheorems, SequenceTheorems, TLAPS

-----------------------------------------------------------------------------
(* Type correctness.                                                       *)

PassType == [pc : {"idle", "next", "sent", "failed"}, todo : Seq(Record)]

\* A batch holds ids of unpublished rows, and at least one if there are any.
LEMMA BatchType ==
  ASSUME RelayAssumption, Unpublished # {}, NEW ids \in Batches
  PROVE  \E size \in Nat \ {0} : ids \in [1..size -> Unpublished]
<1> DEFINE size == IF Cardinality(Unpublished) < BatchSize
                   THEN Cardinality(Unpublished) ELSE BatchSize
<1>1. IsFiniteSet(Events)
  BY FS_Interval DEF Events, RelayAssumption
<1>2. IsFiniteSet(Unpublished)
  BY <1>1, FS_Subset DEF Unpublished
<1>3. Cardinality(Unpublished) \in Nat \ {0}
  BY <1>2, FS_CardinalityType, FS_EmptySet
<1>4. size \in Nat \ {0}
  BY <1>3 DEF RelayAssumption
<1>5. ids \in [1..size -> Unpublished]
  BY DEF Batches
<1> QED
  BY <1>4, <1>5

\* The batch with which a pass starts is a non-empty sequence of records.
LEMMA StartPassType ==
  ASSUME TypeOK, RelayAssumption, NEW r \in Replicas, StartPass(r)
  PROVE  \E todo \in Seq(Record) :
           /\ todo # <<>>
           /\ pass' = [pass EXCEPT ![r] = [pc |-> "next", todo |-> todo]]
<1>1. PICK ids \in Batches :
        pass' = [pass EXCEPT ![r] =
          [pc |-> "next",
           todo |-> [i \in DOMAIN ids |-> [id |-> ids[i], retry |-> rows[ids[i]].retry]]]]
  BY DEF StartPass
<1>2. Unpublished # {}
  BY DEF StartPass
<1>3. PICK size \in Nat \ {0} : ids \in [1..size -> Unpublished]
  BY <1>2, BatchType
<1> DEFINE todo == [i \in 1..size |-> [id |-> ids[i], retry |-> rows[ids[i]].retry]]
<1>4. \A i \in 1..size : [id |-> ids[i], retry |-> rows[ids[i]].retry] \in Record
  BY <1>3 DEF Unpublished, TypeOK, Record
<1>5. todo \in [1..size -> Record]
  BY <1>4
<1>6. todo \in Seq(Record) /\ Len(todo) = size
  BY <1>5
<1>7. todo # <<>>
  BY <1>6
<1>8. DOMAIN ids = 1..size
  BY <1>3
<1> QED
  BY <1>1, <1>6, <1>7, <1>8

\* The record a running pass works on, and what is left of its batch afterwards.
LEMMA AdvanceType ==
  ASSUME TypeOK, NEW r \in Replicas, pass[r].pc # "idle"
  PROVE  /\ Current(r) \in Record
         /\ Advance(r) => \/ pass' = [pass EXCEPT ![r] = IdlePass]
                          \/ \E todo \in Seq(Record) :
                               /\ todo # <<>>
                               /\ pass' = [pass EXCEPT ![r] = [pc |-> "next", todo |-> todo]]
<1>1. pass[r].todo \in Seq(Record) /\ pass[r].todo # <<>>
  BY DEF TypeOK
<1>2. Current(r) \in Record
  BY <1>1 DEF Current
<1>3. Tail(pass[r].todo) \in Seq(Record)
  BY <1>1
<1>4. Len(pass[r].todo) # 1 => Tail(pass[r].todo) # <<>>
  <2>1. Len(Tail(pass[r].todo)) = Len(pass[r].todo) - 1
    BY <1>1, HeadTailProperties
  <2>2. Len(pass[r].todo) \in Nat
    BY <1>1, LenProperties
  <2>3. Tail(pass[r].todo) = <<>> => Len(Tail(pass[r].todo)) = 0
    BY EmptySeq
  <2> QED
    BY <2>1, <2>2, <2>3
<1>5. ASSUME Advance(r), Len(pass[r].todo) = 1
      PROVE  pass' = [pass EXCEPT ![r] = IdlePass]
  BY <1>5 DEF Advance, TypeOK
<1>6. ASSUME Advance(r), Len(pass[r].todo) # 1
      PROVE  pass' = [pass EXCEPT ![r] = [pc |-> "next", todo |-> Tail(pass[r].todo)]]
  BY <1>6 DEF Advance, TypeOK
<1> QED
  BY <1>2, <1>3, <1>4, <1>5, <1>6

\* A pass that is idle, or has a non-empty batch, is well typed.
LEMMA PassUpdate ==
  ASSUME TypeOK, NEW r \in Replicas, NEW p \in PassType,
         p.pc # "idle" => p.todo # <<>>,
         pass' = [pass EXCEPT ![r] = p]
  PROVE  /\ pass' \in [Replicas -> PassType]
         /\ \A s \in Replicas : pass'[s].pc # "idle" => pass'[s].todo # <<>>
BY DEF TypeOK, PassType

\* Counting an occurrence keeps the counters typed and within their bound.
LEMMA HappensType ==
  ASSUME TypeOK, NEW b \in DOMAIN Bounds, Happens(b)
  PROVE  count' \in [DOMAIN Bounds -> Nat] /\ count[b] < Bounds[b] /\ count[b] \in Nat
BY DEF TypeOK, Happens

LEMMA BoundNames ==
  DOMAIN Bounds = {"outages", "faults", "crashes", "shutdowns", "restarts", "purges"}
BY DEF Bounds

\* An append to Kafka adds the event and keeps those that are there.
LEMMA AppendedIsInKafka ==
  ASSUME TypeOK, NEW e \in Events \ Invalid, kafka' = Append(kafka, e)
  PROVE  /\ kafka' \in Seq(Events \ Invalid)
         /\ InKafka(e)'
         /\ \A d \in Events : InKafka(d) => InKafka(d)'
<1>1. kafka \in Seq(Events \ Invalid)
  BY DEF TypeOK
<1>2. /\ kafka' \in Seq(Events \ Invalid)
      /\ Len(kafka') = Len(kafka) + 1 /\ Len(kafka) \in Nat
      /\ \A i \in 1..Len(kafka) : kafka'[i] = kafka[i]
      /\ kafka'[Len(kafka) + 1] = e
  BY <1>1, AppendProperties, LenProperties
<1> QED
  BY <1>2 DEF InKafka

\* The end of a record leaves a well-typed pass.
LEMMA AdvanceKeepsPass ==
  ASSUME TypeOK, NEW r \in Replicas, pass[r].pc # "idle", Advance(r)
  PROVE  /\ pass' \in [Replicas -> PassType]
         /\ \A s \in Replicas : pass'[s].pc # "idle" => pass'[s].todo # <<>>
         /\ \A s \in Replicas : pass'[s].pc = "sent" => s # r
<1>1. IdlePass \in PassType
  BY EmptySeq DEF IdlePass, PassType
<1>2. ASSUME pass' = [pass EXCEPT ![r] = IdlePass]
      PROVE  /\ pass' \in [Replicas -> PassType]
             /\ \A s \in Replicas : pass'[s].pc # "idle" => pass'[s].todo # <<>>
             /\ \A s \in Replicas : pass'[s].pc = "sent" => s # r
  BY <1>1, <1>2 DEF TypeOK, IdlePass, PassType
<1>3. ASSUME NEW todo \in Seq(Record), todo # <<>>,
             pass' = [pass EXCEPT ![r] = [pc |-> "next", todo |-> todo]]
      PROVE  /\ pass' \in [Replicas -> PassType]
             /\ \A s \in Replicas : pass'[s].pc # "idle" => pass'[s].todo # <<>>
             /\ \A s \in Replicas : pass'[s].pc = "sent" => s # r
  BY <1>3 DEF TypeOK, PassType
<1> QED
  BY <1>2, <1>3, AdvanceType

\* The outcome of a record leaves a well-typed pass that works on the same record.
LEMMA OutcomeKeepsPass ==
  ASSUME TypeOK, NEW r \in Replicas, pass[r].pc # "idle", NEW pc \in {"sent", "failed"},
         pass' = [pass EXCEPT ![r].pc = pc]
  PROVE  /\ pass' \in [Replicas -> PassType]
         /\ \A s \in Replicas : pass'[s].pc # "idle" => pass'[s].todo # <<>>
         /\ \A s \in Replicas : pass'[s].todo = pass[s].todo
         /\ \A s \in Replicas : s # r => pass'[s].pc = pass[s].pc
         /\ pass'[r].pc = pc
<1>1. pass \in [Replicas -> PassType]
  BY DEF TypeOK, PassType
<1>2. pass[r].todo # <<>>
  BY DEF TypeOK
<1>3. /\ pass' \in [Replicas -> PassType]
      /\ \A s \in Replicas : s # r => pass'[s] = pass[s]
      /\ pass'[r].pc = pc /\ pass'[r].todo = pass[r].todo
  BY <1>1 DEF PassType
<1>4. ASSUME NEW s \in Replicas, pass'[s].pc # "idle"
      PROVE  pass'[s].todo # <<>>
  BY <1>2, <1>3, <1>4 DEF TypeOK
<1> QED
  BY <1>3, <1>4

\* What publishing does to Kafka and to the counters.
LEMMA PublishType ==
  ASSUME TypeOK, NEW r, NEW e \in Events, NEW pc, Publish(r, e, pc)
  PROVE  /\ pc \in {"sent", "failed"}
         /\ kafka' \in Seq(Events \ Invalid)
         /\ \A d \in Events : InKafka(d) => InKafka(d)'
         /\ pc = "sent" /\ connected[r] => InKafka(e)'
         /\ count' \in [DOMAIN Bounds -> Nat]
<1>1. ASSUME kafka' = kafka
      PROVE  kafka' \in Seq(Events \ Invalid) /\ \A d \in Events : InKafka(d) => InKafka(d)'
  BY <1>1 DEF TypeOK, InKafka
<1>2. CASE PublishReturns(r, e) /\ pc = "sent"
  <2>1. count' \in [DOMAIN Bounds -> Nat]
    BY <1>2 DEF PublishReturns, TypeOK
  <2>2. CASE ~connected[r] /\ kafka' = kafka
    BY <1>1, <1>2, <2>1, <2>2
  <2>3. CASE e \notin Invalid /\ kafka' = Append(kafka, e)
    BY <1>2, <2>1, <2>3, AppendedIsInKafka
  <2> QED
    BY <1>2, <2>2, <2>3 DEF PublishReturns
<1>3. CASE PublishThrows(r, e) /\ pc = "failed"
  <2>1. CASE UNCHANGED <<kafka, count>>
    BY <1>1, <1>3, <2>1 DEF TypeOK
  <2>2. CASE e \notin Invalid /\ Happens("faults") /\ kafka' = Append(kafka, e)
    BY <1>3, <2>2, AppendedIsInKafka, HappensType, BoundNames
  <2> QED
    BY <1>3, <2>1, <2>2 DEF PublishThrows
<1> QED
  BY <1>2, <1>3 DEF Publish

\* An UPDATE keeps the rows typed and publishes no row but its own.
LEMMA UpdateType ==
  ASSUME TypeOK, RelayAssumption, NEW e \in Events
  PROVE  /\ MarkPublished(e) =>
              /\ rows' \in [Events -> [stored : BOOLEAN, published : BOOLEAN, retry : 0..MaxRetry]]
              /\ \A d \in Events : rows'[d].published => d = e \/ rows[d].published
         /\ \A n \in 0..MaxRetry : SetRetry(e, Bump(n)) =>
              /\ rows' \in [Events -> [stored : BOOLEAN, published : BOOLEAN, retry : 0..MaxRetry]]
              /\ \A d \in Events : rows'[d].published => rows[d].published
<1>1. \A n \in 0..MaxRetry : Bump(n) \in 0..MaxRetry
  BY DEF Bump, RelayAssumption
<1>2. rows \in [Events -> [stored : BOOLEAN, published : BOOLEAN, retry : 0..MaxRetry]]
  BY DEF TypeOK
<1>3. ASSUME MarkPublished(e)
      PROVE  /\ rows' \in [Events -> [stored : BOOLEAN, published : BOOLEAN, retry : 0..MaxRetry]]
             /\ \A d \in Events : rows'[d].published => d = e \/ rows[d].published
  <2>1. rows' = [rows EXCEPT ![e] = [@ EXCEPT !.published = rows[e].stored]]
    BY <1>3 DEF MarkPublished
  <2> QED
    BY <1>2, <1>3, <2>1
<1>4. ASSUME NEW n \in 0..MaxRetry, SetRetry(e, Bump(n))
      PROVE  /\ rows' \in [Events -> [stored : BOOLEAN, published : BOOLEAN, retry : 0..MaxRetry]]
             /\ \A d \in Events : rows'[d].published => rows[d].published
  <2> DEFINE k == IF rows[e].stored THEN Bump(n) ELSE rows[e].retry
  <2>1. k \in 0..MaxRetry
    BY <1>1, <1>2
  <2>2. rows' = [rows EXCEPT ![e] = [@ EXCEPT !.retry = k]]
    BY <1>4 DEF SetRetry
  <2> HIDE DEF k
  <2> QED
    BY <1>2, <2>1, <2>2
<1> QED
  BY <1>3, <1>4

\* A relay that moves to another state, or ends, is well typed.
LEMMA RelayUpdate ==
  ASSUME TypeOK, NEW e \in Events,
         \/ relay' = [relay EXCEPT ![e] = NoRelay]
         \/ \E pc \in {"publish", "sent", "failed"} : relay' = [relay EXCEPT ![e].pc = pc]
  PROVE  /\ relay' \in [Events -> [pc : {"none", "select", "publish", "sent", "failed"},
                                   at : Replicas \cup {NoReplica}]]
         /\ \A d \in Events : d # e => relay'[d] = relay[d]
         /\ relay'[e] = NoRelay \/ relay'[e].at = relay[e].at
BY DEF TypeOK, NoRelay

\* Every statement of every relay, pass and process keeps the types.
LEMMA RelayTypeStep ==
  ASSUME TypeOK, RelayAssumption, [Next]_vars
  PROVE  TypeOK'
<1> DEFINE RowType   == [stored : BOOLEAN, published : BOOLEAN, retry : 0..MaxRetry]
           RelayType == [pc : {"none", "select", "publish", "sent", "failed"},
                         at : Replicas \cup {NoReplica}]
<1>1. CASE UNCHANGED vars
  BY <1>1 DEF vars, TypeOK
<1>2. ASSUME NEW r \in Replicas, Save(r)
      PROVE  TypeOK'
  <2>1. saved + 1 \in Events /\ saved' \in 0..NumEvents
    BY <1>2 DEF Save, TypeOK, Events, RelayAssumption
  <2>2. rows' \in [Events -> RowType]
    BY <1>2, <2>1 DEF Save, TypeOK
  <2>3. relay' \in [Events -> RelayType]
    BY <1>2, <2>1 DEF Save, TypeOK
  <2> QED
    BY <1>2, <2>1, <2>2, <2>3 DEF Save, TypeOK
<1>3. ASSUME NEW r \in Replicas, StartPass(r)
      PROVE  TypeOK'
  <2>1. PICK todo \in Seq(Record) :
          todo # <<>> /\ pass' = [pass EXCEPT ![r] = [pc |-> "next", todo |-> todo]]
    BY <1>3, StartPassType
  <2>2. [pc |-> "next", todo |-> todo] \in PassType
    BY DEF PassType
  <2>3. /\ pass' \in [Replicas -> PassType]
        /\ \A s \in Replicas : pass'[s].pc # "idle" => pass'[s].todo # <<>>
    BY <2>1, <2>2, PassUpdate
  <2> QED
    BY <1>3, <2>3 DEF StartPass, TypeOK, PassType
<1>4. ASSUME NEW r \in Replicas, PassPublish(r)
      PROVE  TypeOK'
  <2>1. PICK pc \in {"sent", "failed"} :
          Publish(r, Current(r).id, pc) /\ pass' = [pass EXCEPT ![r].pc = pc]
    BY <1>4 DEF PassPublish
  <2>2. Current(r).id \in Events
    BY <1>4, AdvanceType DEF PassPublish, Record
  <2>3. kafka' \in Seq(Events \ Invalid) /\ count' \in [DOMAIN Bounds -> Nat]
    BY <2>1, <2>2, PublishType
  <2>4. /\ pass' \in [Replicas -> PassType]
        /\ \A s \in Replicas : pass'[s].pc # "idle" => pass'[s].todo # <<>>
    BY <1>4, <2>1, OutcomeKeepsPass DEF PassPublish
  <2> QED
    BY <1>4, <2>3, <2>4 DEF PassPublish, TypeOK, PassType
<1>5. ASSUME NEW r \in Replicas, PassMark(r)
      PROVE  TypeOK'
  <2>1. pass[r].pc # "idle" /\ Current(r).id \in Events
    BY <1>5, AdvanceType DEF PassMark, Record
  <2>2. rows' \in [Events -> RowType]
    BY <1>5, <2>1, UpdateType DEF PassMark
  <2>3. /\ pass' \in [Replicas -> PassType]
        /\ \A s \in Replicas : pass'[s].pc # "idle" => pass'[s].todo # <<>>
    BY <1>5, <2>1, AdvanceKeepsPass DEF PassMark
  <2> QED
    BY <1>5, <2>2, <2>3 DEF PassMark, TypeOK, PassType
<1>6. ASSUME NEW r \in Replicas, PassRecordsFailure(r)
      PROVE  TypeOK'
  <2>1. pass[r].pc # "idle" /\ Current(r).id \in Events /\ Current(r).retry \in 0..MaxRetry
    BY <1>6, AdvanceType DEF PassRecordsFailure, Record
  <2>2. rows' \in [Events -> RowType]
    BY <1>6, <2>1, UpdateType DEF PassRecordsFailure
  <2>3. /\ pass' \in [Replicas -> PassType]
        /\ \A s \in Replicas : pass'[s].pc # "idle" => pass'[s].todo # <<>>
    BY <1>6, <2>1, AdvanceKeepsPass DEF PassRecordsFailure
  <2> QED
    BY <1>6, <2>2, <2>3 DEF PassRecordsFailure, TypeOK, PassType
<1>7. ASSUME NEW r \in Replicas, PassStatementFails(r)
      PROVE  TypeOK'
  <2>1. count' \in [DOMAIN Bounds -> Nat]
    BY <1>7, HappensType, BoundNames DEF PassStatementFails
  <2>2. IdlePass \in PassType
    BY EmptySeq DEF IdlePass, PassType
  <2>3. /\ pass' \in [Replicas -> PassType]
        /\ \A s \in Replicas : pass'[s].pc # "idle" => pass'[s].todo # <<>>
    <3>1. CASE pass[r].pc = "sent" /\ pass' = [pass EXCEPT ![r].pc = "failed"]
      BY <3>1, OutcomeKeepsPass
    <3>2. CASE pass' = [pass EXCEPT ![r] = IdlePass]
      BY <2>2, <3>2, PassUpdate DEF IdlePass
    <3> QED
      BY <1>7, <3>1, <3>2 DEF PassStatementFails
  <2> QED
    BY <1>7, <2>1, <2>3 DEF PassStatementFails, TypeOK, PassType
<1>8. ASSUME NEW r \in Replicas, Stop(r), count' \in [DOMAIN Bounds -> Nat]
      PROVE  TypeOK'
  <2>1. IdlePass \in PassType /\ NoRelay \in RelayType
    BY EmptySeq DEF IdlePass, PassType, NoRelay
  <2>2. /\ pass' \in [Replicas -> PassType]
        /\ \A s \in Replicas : pass'[s].pc # "idle" => pass'[s].todo # <<>>
    BY <1>8, <2>1 DEF Stop, TypeOK, PassType, IdlePass
  <2>3. relay' \in [Events -> RelayType]
    BY <1>8, <2>1 DEF Stop, TypeOK
  <2> QED
    BY <1>8, <2>2, <2>3 DEF Stop, TypeOK, PassType
<1>9. ASSUME NEW r \in Replicas, Crash(r)
      PROVE  TypeOK'
  BY <1>8, <1>9, HappensType, BoundNames DEF Crash
<1>10. ASSUME NEW r \in Replicas, Exit(r)
       PROVE  TypeOK'
  BY <1>8, <1>10 DEF Exit, TypeOK
<1>11. ASSUME NEW r \in Replicas, Shutdown(r)
       PROVE  TypeOK'
  <2>1. count' \in [DOMAIN Bounds -> Nat]
    BY <1>11, HappensType, BoundNames DEF Shutdown
  <2> QED
    BY <1>11, <2>1 DEF Shutdown, TypeOK
<1>12. ASSUME NEW r \in Replicas, Disconnect(r)
       PROVE  TypeOK'
  BY <1>12 DEF Disconnect, TypeOK
<1>13. ASSUME NEW r \in Replicas, Restart(r)
       PROVE  TypeOK'
  <2>1. count' \in [DOMAIN Bounds -> Nat]
    BY <1>13, HappensType, BoundNames DEF Restart
  <2> QED
    BY <1>13, <2>1 DEF Restart, TypeOK
<1>14. ASSUME NEW e \in Events, RelaySelect(e)
       PROVE  TypeOK'
  <2>1. relay' \in [Events -> RelayType]
    BY <1>14 DEF RelaySelect, TypeOK, NoRelay
  <2> QED
    BY <1>14, <2>1 DEF RelaySelect, TypeOK
<1>15. ASSUME NEW e \in Events, RelayPublish(e)
       PROVE  TypeOK'
  <2>1. PICK pc \in {"sent", "failed"} :
          Publish(relay[e].at, e, pc) /\ relay' = [relay EXCEPT ![e].pc = pc]
    BY <1>15 DEF RelayPublish
  <2>2. kafka' \in Seq(Events \ Invalid) /\ count' \in [DOMAIN Bounds -> Nat]
    BY <1>15, <2>1, PublishType
  <2>3. relay' \in [Events -> RelayType]
    BY <2>1 DEF TypeOK
  <2> QED
    BY <1>15, <2>2, <2>3 DEF RelayPublish, TypeOK
<1>16. ASSUME NEW e \in Events, RelayMark(e)
       PROVE  TypeOK'
  <2>1. rows' \in [Events -> RowType]
    BY <1>16, UpdateType DEF RelayMark
  <2>2. relay' \in [Events -> RelayType]
    BY <1>16, RelayUpdate DEF RelayMark
  <2> QED
    BY <1>16, <2>1, <2>2 DEF RelayMark, TypeOK
<1>17. ASSUME NEW e \in Events, RelayRecordsFailure(e)
       PROVE  TypeOK'
  <2>1. rows[e].retry \in 0..MaxRetry
    BY DEF TypeOK
  <2>2. rows' \in [Events -> RowType]
    BY <1>17, <2>1, UpdateType DEF RelayRecordsFailure
  <2>3. relay' \in [Events -> RelayType]
    BY <1>17, RelayUpdate DEF RelayRecordsFailure
  <2> QED
    BY <1>17, <2>2, <2>3 DEF RelayRecordsFailure, TypeOK
<1>18. ASSUME NEW e \in Events, RelayStatementFails(e)
       PROVE  TypeOK'
  <2>1. relay' \in [Events -> RelayType]
    BY <1>18, RelayUpdate DEF RelayStatementFails
  <2>2. count' \in [DOMAIN Bounds -> Nat]
    BY <1>18, HappensType, BoundNames DEF RelayStatementFails
  <2> QED
    BY <1>18, <2>1, <2>2 DEF RelayStatementFails, TypeOK
<1>19. CASE BrokerFails
  <2>1. count' \in [DOMAIN Bounds -> Nat]
    BY <1>19, HappensType, BoundNames DEF BrokerFails
  <2> QED
    BY <1>19, <2>1 DEF BrokerFails, TypeOK
<1>20. CASE BrokerRecovers
  BY <1>20 DEF BrokerRecovers, TypeOK
<1>21. CASE Purge
  <2>1. count' \in [DOMAIN Bounds -> Nat]
    BY <1>21, HappensType, BoundNames DEF Purge
  <2>2. rows' \in [Events -> RowType]
    BY <1>21 DEF Purge, NoRow, RelayAssumption
  <2> QED
    BY <1>21, <2>1, <2>2 DEF Purge, TypeOK
<1> QED
  BY <1>1, <1>2, <1>3, <1>4, <1>5, <1>6, <1>7, <1>9, <1>10, <1>11, <1>12, <1>13,
     <1>14, <1>15, <1>16, <1>17, <1>18, <1>19, <1>20, <1>21
  DEF Next, PassStep, RelayStep

\* However the replicas interleave, fail, stop and start, every variable of the
\* relay keeps its type, and a pass that runs has a record to work on.
THEOREM RelayTypeCorrect == Spec => []TypeOK
<1>1. Init => TypeOK
  BY RelayAssumption, EmptySeq DEF Init, TypeOK, NoRow, NoRelay, IdlePass
<1>2. TypeOK /\ [Next]_vars => TypeOK'
  BY RelayAssumption, RelayTypeStep
<1> QED
  BY <1>1, <1>2, PTL DEF Spec

-----------------------------------------------------------------------------
(* Zero event loss.                                                        *)

\* No replica is told to stop and none is started: between two deployments.
NoDeployments == MaxShutdowns = 0 /\ MaxRestarts = 0

\* Without shutdowns and restarts no step takes a connected producer away from a
\* replica that goes on.
LEMMA ConnectedStep ==
  ASSUME NoDeployments, RelayInv, TypeOK', [Next]_vars
  PROVE  AllConnected'
<1> USE DEF RelayInv
<1>0. /\ \A r \in Replicas : ~Shutdown(r) /\ ~Restart(r) /\ ~Disconnect(r) /\ ~Exit(r)
  <2>1. Bounds.shutdowns = 0 /\ Bounds.restarts = 0
    BY DEF Bounds, NoDeployments
  <2>2. ~Happens("shutdowns") /\ ~Happens("restarts")
    BY <2>1, HappensType, BoundNames
  <2> QED
    BY <2>2 DEF Shutdown, Restart, Disconnect, Exit, AllConnected
<1>1. ASSUME UNCHANGED <<proc, connected>>,
             \A r \in Replicas : pass'[r].pc # "idle" => pass[r].pc # "idle" \/ proc[r] = "up",
             \A e \in Events : relay'[e].pc # "none" =>
               \/ relay[e].pc # "none" /\ relay'[e].at = relay[e].at
               \/ \E r \in Replicas : relay'[e].at = r /\ proc[r] = "up"
      PROVE  AllConnected'
  BY <1>1 DEF AllConnected
<1>2. CASE UNCHANGED vars
  BY <1>1, <1>2 DEF vars
<1>3. ASSUME NEW r \in Replicas, Save(r)
      PROVE  AllConnected'
  <2>1. proc[r] = "up"
    BY <1>3 DEF Save, AllConnected, TypeOK
  <2>2. saved + 1 \in Events
    BY <1>3 DEF Save, TypeOK, Events, RelayAssumption
  <2> QED
    BY <1>1, <1>3, <2>1, <2>2 DEF Save, TypeOK
<1>4. ASSUME NEW r \in Replicas, StartPass(r)
      PROVE  AllConnected'
  <2>1. \A s \in Replicas : s # r => pass'[s] = pass[s]
    BY <1>4 DEF StartPass, TypeOK
  <2> QED
    BY <1>1, <1>4, <2>1 DEF StartPass
<1>5. ASSUME NEW r \in Replicas, PassStep(r) \/ PassStatementFails(r)
      PROVE  AllConnected'
  <2>1. pass[r].pc # "idle" /\ UNCHANGED <<proc, connected, relay>>
    BY <1>5 DEF PassStep, PassPublish, PassMark, PassRecordsFailure, PassStatementFails
  <2>2. \A s \in Replicas : s # r => pass'[s] = pass[s]
    BY <1>5 DEF PassStep, PassPublish, PassMark, PassRecordsFailure, PassStatementFails,
                Advance, TypeOK
  <2> QED
    BY <1>1, <2>1, <2>2
<1>6. ASSUME NEW r \in Replicas, Crash(r)
      PROVE  AllConnected'
  <2>1. /\ proc' = [proc EXCEPT ![r] = "down"] /\ connected' = [connected EXCEPT ![r] = FALSE]
        /\ pass' = [pass EXCEPT ![r] = IdlePass]
        /\ relay' = [e \in Events |-> IF relay[e].at = r THEN NoRelay ELSE relay[e]]
    BY <1>6 DEF Crash, Stop
  <2>2. IdlePass.pc = "idle" /\ NoRelay.pc = "none"
    BY DEF IdlePass, NoRelay
  <2>3. \A s \in Replicas : /\ s # r => proc'[s] = proc[s] /\ connected'[s] = connected[s] /\ pass'[s] = pass[s]
                            /\ s = r => proc'[s] = "down" /\ pass'[s].pc = "idle"
    BY <2>1, <2>2 DEF TypeOK
  <2>4. \A e \in Events : relay'[e].pc # "none" => relay'[e] = relay[e] /\ relay[e].at # r
    BY <2>1, <2>2
  <2> QED
    BY <2>3, <2>4 DEF AllConnected
<1>7. ASSUME NEW e \in Events, RelayStep(e) \/ RelayStatementFails(e)
      PROVE  AllConnected'
  <2>1. relay[e].pc # "none" /\ UNCHANGED <<proc, connected, pass>>
    BY <1>7 DEF RelayStep, RelaySelect, RelayPublish, RelayMark, RelayRecordsFailure,
                RelayStatementFails
  <2>2. \/ relay' = [relay EXCEPT ![e] = NoRelay]
        \/ \E pc \in {"publish", "sent", "failed"} : relay' = [relay EXCEPT ![e].pc = pc]
    BY <1>7 DEF RelayStep, RelaySelect, RelayPublish, RelayMark, RelayRecordsFailure,
                RelayStatementFails, TypeOK
  <2>3. /\ \A d \in Events : d # e => relay'[d] = relay[d]
        /\ relay'[e] = NoRelay \/ relay'[e].at = relay[e].at
    BY <2>2, RelayUpdate
  <2> QED
    BY <1>1, <2>1, <2>3 DEF NoRelay
<1>8. CASE BrokerFails \/ BrokerRecovers \/ Purge
  BY <1>1, <1>8 DEF BrokerFails, BrokerRecovers, Purge
<1> QED
  BY <1>0, <1>2, <1>3, <1>4, <1>5, <1>6, <1>7, <1>8 DEF Next

\* A relay or a pass is about to mark a row published only after a send of its own
\* was acknowledged.
LEMMA SentStep ==
  ASSUME RelayInv, RelayAssumption, [Next]_vars
  PROVE  SentIsInKafka' /\ PublishedIsInKafka'
<1> USE DEF RelayInv
<1>1. ASSUME \A e \in Events : InKafka(e) => InKafka(e)',
             \A e \in Events : rows'[e].published => rows[e].published \/ InKafka(e)',
             \A e \in Events : relay'[e].pc = "sent" => relay[e].pc = "sent" \/ InKafka(e)',
             \A r \in Replicas : pass'[r].pc = "sent" =>
               /\ pass[r].pc # "idle" /\ pass'[r].todo = pass[r].todo
               /\ pass[r].pc = "sent" \/ \E e \in Events : e = Current(r).id /\ InKafka(e)'
      PROVE  SentIsInKafka' /\ PublishedIsInKafka'
  <2>1. \A e \in Events : rows'[e].published => InKafka(e)'
    BY <1>1 DEF PublishedIsInKafka
  <2>2. \A e \in Events : relay'[e].pc = "sent" => InKafka(e)'
    BY <1>1 DEF SentIsInKafka
  <2>3. ASSUME NEW r \in Replicas, pass'[r].pc = "sent"
        PROVE  InKafka(Current(r).id)'
    <3>1. Current(r)' = Current(r)
      BY <1>1, <2>3 DEF Current
    <3>2. PICK e \in Events : e = Current(r).id /\ InKafka(e)'
      <4>1. CASE pass[r].pc = "sent"
        BY <1>1, <4>1, AdvanceType DEF SentIsInKafka, Record
      <4> QED
        BY <1>1, <2>3, <4>1
    <3> QED
      BY <3>1, <3>2 DEF InKafka
  <2> QED
    BY <2>1, <2>2, <2>3 DEF SentIsInKafka, PublishedIsInKafka
<1>2. ASSUME kafka' = kafka
      PROVE  \A e \in Events : InKafka(e) => InKafka(e)'
  BY <1>2 DEF InKafka
<1>3. CASE UNCHANGED vars
  BY <1>1, <1>2, <1>3 DEF vars
<1>4. ASSUME NEW r \in Replicas, Save(r)
      PROVE  SentIsInKafka' /\ PublishedIsInKafka'
  <2>1. /\ \A e \in Events : rows'[e].published => rows[e].published
        /\ \A e \in Events : relay'[e].pc = "sent" => relay[e].pc = "sent"
    BY <1>4 DEF Save, TypeOK
  <2> QED
    BY <1>1, <1>2, <1>4, <2>1 DEF Save
<1>5. ASSUME NEW r \in Replicas, StartPass(r)
      PROVE  SentIsInKafka' /\ PublishedIsInKafka'
  <2>1. PICK todo : pass' = [pass EXCEPT ![r] = [pc |-> "next", todo |-> todo]]
    BY <1>5, StartPassType
  <2>2. \A s \in Replicas : pass'[s].pc = "sent" => pass'[s] = pass[s]
    BY <2>1 DEF TypeOK
  <2> QED
    BY <1>1, <1>2, <1>5, <2>2 DEF StartPass
<1>6. ASSUME NEW r \in Replicas, PassPublish(r)
      PROVE  SentIsInKafka' /\ PublishedIsInKafka'
  <2>1. PICK pc \in {"sent", "failed"} :
          Publish(r, Current(r).id, pc) /\ pass' = [pass EXCEPT ![r].pc = pc]
    BY <1>6 DEF PassPublish
  <2>2. PICK e \in Events : e = Current(r).id
    BY <1>6, AdvanceType DEF PassPublish, Record
  <2>3. pass[r].pc = "next" /\ connected[r] /\ UNCHANGED <<rows, relay>>
    BY <1>6 DEF PassPublish, AllConnected
  <2>4. /\ \A d \in Events : InKafka(d) => InKafka(d)'
        /\ pc = "sent" => InKafka(e)'
    BY <2>1, <2>2, <2>3, PublishType
  <2>5. /\ \A s \in Replicas : pass'[s].todo = pass[s].todo
        /\ \A s \in Replicas : s # r => pass'[s].pc = pass[s].pc
        /\ pass'[r].pc = pc
    BY <2>1, <2>3, OutcomeKeepsPass
  <2>6. \A s \in Replicas : pass'[s].pc = "sent" =>
          /\ pass[s].pc # "idle" /\ pass'[s].todo = pass[s].todo
          /\ pass[s].pc = "sent" \/ \E d \in Events : d = Current(s).id /\ InKafka(d)'
    BY <2>2, <2>3, <2>4, <2>5
  <2> QED
    BY <1>1, <2>3, <2>4, <2>6
<1>7. ASSUME NEW r \in Replicas, PassMark(r)
      PROVE  SentIsInKafka' /\ PublishedIsInKafka'
  <2>1. pass[r].pc # "idle" /\ UNCHANGED <<kafka, relay>>
    BY <1>7 DEF PassMark
  <2>2. PICK e \in Events : e = Current(r).id /\ InKafka(e)
    BY <1>7, AdvanceType DEF PassMark, Record, SentIsInKafka
  <2>3. \A d \in Events : rows'[d].published => rows[d].published \/ InKafka(d)
    BY <1>7, <2>2, UpdateType DEF PassMark
  <2>4. \A s \in Replicas : pass'[s].pc = "sent" => pass'[s] = pass[s]
    BY <1>7, <2>1, AdvanceKeepsPass DEF PassMark, Advance, TypeOK
  <2> QED
    BY <1>1, <1>2, <2>1, <2>3, <2>4
<1>8. ASSUME NEW r \in Replicas, PassRecordsFailure(r)
      PROVE  SentIsInKafka' /\ PublishedIsInKafka'
  <2>1. pass[r].pc # "idle" /\ UNCHANGED <<kafka, relay>>
    BY <1>8 DEF PassRecordsFailure
  <2>2. Current(r).id \in Events /\ Current(r).retry \in 0..MaxRetry
    BY <2>1, AdvanceType DEF Record
  <2>3. \A d \in Events : rows'[d].published => rows[d].published
    BY <1>8, <2>2, UpdateType DEF PassRecordsFailure
  <2>4. \A s \in Replicas : pass'[s].pc = "sent" => pass'[s] = pass[s]
    BY <1>8, <2>1, AdvanceKeepsPass DEF PassRecordsFailure, Advance, TypeOK
  <2> QED
    BY <1>1, <1>2, <2>1, <2>3, <2>4
<1>9. ASSUME NEW r \in Replicas, PassStatementFails(r)
      PROVE  SentIsInKafka' /\ PublishedIsInKafka'
  <2>1. \A s \in Replicas : pass'[s].pc = "sent" => pass'[s] = pass[s]
    BY <1>9 DEF PassStatementFails, TypeOK, IdlePass
  <2> QED
    BY <1>1, <1>2, <1>9, <2>1 DEF PassStatementFails
<1>10. ASSUME NEW r \in Replicas, Stop(r)
       PROVE  SentIsInKafka' /\ PublishedIsInKafka'
  <2>1. /\ \A s \in Replicas : pass'[s].pc = "sent" => pass'[s] = pass[s]
        /\ \A e \in Events : relay'[e].pc = "sent" => relay[e].pc = "sent"
    BY <1>10 DEF Stop, TypeOK, IdlePass, NoRelay
  <2> QED
    BY <1>1, <1>2, <1>10, <2>1 DEF Stop
<1>11. ASSUME NEW r \in Replicas, Shutdown(r) \/ Disconnect(r) \/ Restart(r)
       PROVE  SentIsInKafka' /\ PublishedIsInKafka'
  BY <1>1, <1>2, <1>11 DEF Shutdown, Disconnect, Restart
<1>12. ASSUME NEW e \in Events, RelayPublish(e)
       PROVE  SentIsInKafka' /\ PublishedIsInKafka'
  <2>1. PICK pc \in {"sent", "failed"} :
          Publish(relay[e].at, e, pc) /\ relay' = [relay EXCEPT ![e].pc = pc]
    BY <1>12 DEF RelayPublish
  <2>2. connected[relay[e].at] /\ UNCHANGED <<rows, pass>>
    BY <1>12 DEF RelayPublish, AllConnected
  <2>3. /\ \A d \in Events : InKafka(d) => InKafka(d)'
        /\ pc = "sent" => InKafka(e)'
    BY <2>1, <2>2, PublishType
  <2>4. \A d \in Events : relay'[d].pc = "sent" => relay[d].pc = "sent" \/ InKafka(d)'
    BY <2>1, <2>3 DEF TypeOK
  <2> QED
    BY <1>1, <2>2, <2>3, <2>4
<1>13. ASSUME NEW e \in Events, RelayMark(e)
       PROVE  SentIsInKafka' /\ PublishedIsInKafka'
  <2>1. InKafka(e) /\ UNCHANGED <<kafka, pass>>
    BY <1>13 DEF RelayMark, SentIsInKafka
  <2>2. \A d \in Events : rows'[d].published => rows[d].published \/ InKafka(d)
    BY <1>13, <2>1, UpdateType DEF RelayMark
  <2>3. \A d \in Events : relay'[d].pc = "sent" => relay[d].pc = "sent"
    BY <1>13 DEF RelayMark, NoRelay, TypeOK
  <2> QED
    BY <1>1, <1>2, <2>1, <2>2, <2>3
<1>14. ASSUME NEW e \in Events, RelayRecordsFailure(e)
       PROVE  SentIsInKafka' /\ PublishedIsInKafka'
  <2>1. rows[e].retry \in 0..MaxRetry
    BY DEF TypeOK
  <2>2. \A d \in Events : rows'[d].published => rows[d].published
    BY <1>14, <2>1, UpdateType DEF RelayRecordsFailure
  <2>3. \A d \in Events : relay'[d].pc = "sent" => relay[d].pc = "sent"
    BY <1>14 DEF RelayRecordsFailure, NoRelay, TypeOK
  <2> QED
    BY <1>1, <1>2, <1>14, <2>2, <2>3 DEF RelayRecordsFailure
<1>15. ASSUME NEW e \in Events, RelaySelect(e) \/ RelayStatementFails(e)
       PROVE  SentIsInKafka' /\ PublishedIsInKafka'
  <2>0. relay \in [Events -> [pc : {"none", "select", "publish", "sent", "failed"},
                              at : Replicas \cup {NoReplica}]]
    BY DEF TypeOK
  <2>1. \/ relay' = [relay EXCEPT ![e] = NoRelay]
        \/ \E pc \in {"publish", "failed"} : relay' = [relay EXCEPT ![e].pc = pc]
    BY <1>15, <2>0 DEF RelaySelect, RelayStatementFails
  <2>2. \A d \in Events : relay'[d].pc = "sent" => relay[d].pc = "sent"
    <3>1. CASE relay' = [relay EXCEPT ![e] = NoRelay]
      BY <2>0, <3>1 DEF NoRelay
    <3>2. ASSUME NEW pc \in {"publish", "failed"}, relay' = [relay EXCEPT ![e].pc = pc]
          PROVE  \A d \in Events : relay'[d].pc = "sent" => relay[d].pc = "sent"
      <4>1. relay'[e].pc = pc /\ \A d \in Events : d # e => relay'[d] = relay[d]
        BY <2>0, <3>2
      <4> QED
        BY <4>1
    <3> QED
      BY <2>1, <3>1, <3>2
  <2> QED
    BY <1>1, <1>2, <1>15, <2>2 DEF RelaySelect, RelayStatementFails
<1>16. CASE BrokerFails \/ BrokerRecovers
  BY <1>1, <1>2, <1>16 DEF BrokerFails, BrokerRecovers
<1>17. CASE Purge
  BY <1>1, <1>2, <1>17 DEF Purge, NoRow
<1> QED
  BY <1>3, <1>4, <1>5, <1>6, <1>7, <1>8, <1>9, <1>10, <1>11, <1>12, <1>13, <1>14,
     <1>15, <1>16, <1>17
  DEF Next, PassStep, RelayStep, Crash, Exit

\* The inductive invariant of zero event loss.
THEOREM RelayInvariant == ASSUME NoDeployments PROVE Spec => []RelayInv
<1>1. Init => RelayInv
  <2>1. Init => TypeOK
    BY RelayAssumption, EmptySeq DEF Init, TypeOK, NoRow, NoRelay, IdlePass
  <2> QED
    BY <2>1 DEF Init, RelayInv, AllConnected, SentIsInKafka, PublishedIsInKafka,
                NoRow, NoRelay, IdlePass
<1>2. RelayInv /\ [Next]_vars => RelayInv'
  <2> SUFFICES ASSUME RelayInv, [Next]_vars PROVE RelayInv'
    OBVIOUS
  <2>1. TypeOK'
    BY RelayAssumption, RelayTypeStep DEF RelayInv
  <2>2. AllConnected'
    BY <2>1, NoDeployments, ConnectedStep
  <2>3. SentIsInKafka' /\ PublishedIsInKafka'
    BY RelayAssumption, SentStep
  <2> QED
    BY <2>1, <2>2, <2>3 DEF RelayInv
<1> QED
  BY <1>1, <1>2, PTL DEF Spec

\* Between two deployments no event is lost: whatever the replicas, their crashes,
\* the broker's outages, failed statements and purges do, a row marked published
\* has been acknowledged by Kafka.
THEOREM ZeroEventLoss == ASSUME NoDeployments PROVE Spec => []PublishedIsInKafka
<1>1. RelayInv => PublishedIsInKafka
  BY DEF RelayInv
<1> QED
  BY <1>1, RelayInvariant, PTL
=============================================================================
