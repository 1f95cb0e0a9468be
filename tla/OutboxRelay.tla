---------------------------- MODULE OutboxRelay ----------------------------
(***************************************************************************)
(* The transactional outbox of workflow-api (services/outbox.relay.ts) and *)
(* the Kafka producer behind it (kafka/producer.ts).  An event saved in    *)
(* outbox_events is relayed at once by the handler that saved it, and      *)
(* every replica runs a background pass over the unpublished rows.  The    *)
(* replicas share the table and take no lock on its rows.                  *)
(*                                                                         *)
(* Events are numbered in the order of their createdAt, which the          *)
(* background SELECT sorts by; they are the events of one partition key,   *)
(* so the order in which Kafka holds them is observable.                   *)
(***************************************************************************)
EXTENDS Integers, Sequences, FiniteSets

CONSTANTS
  Replicas,      \* workflow-api processes
  NoReplica,     \* where a relay that does not run is
  NumEvents,     \* bound: events saved
  Invalid,       \* events that fail their JSON schema
  BatchSize,     \* rows a background pass reads (20 in the code)
  MaxRetry,      \* bound: retryCount stops growing here
  MaxOutages,    \* bound: times the broker goes down
  MaxFaults,     \* bound: lost acknowledgements and failed UPDATEs
  MaxCrashes,    \* bound: replicas that crash
  MaxShutdowns,  \* bound: replicas told to stop
  MaxRestarts,   \* bound: replicas started again
  MaxPurges      \* bound: administrative deletes

Events == 1..NumEvents

ASSUME RelayAssumption ==
  /\ NoReplica \notin Replicas
  /\ NumEvents \in Nat /\ Invalid \subseteq Events
  /\ BatchSize \in Nat \ {0} /\ MaxRetry \in Nat \ {0}
  /\ {MaxOutages, MaxFaults, MaxCrashes, MaxShutdowns, MaxRestarts, MaxPurges}
       \subseteq Nat

VARIABLES
  rows,       \* outbox_events: is the row there, published, retryCount
  saved,      \* events 1..saved have been inserted
  kafka,      \* the partition of workflow.events, oldest first
  brokerUp,
  proc,       \* is the replica up, draining after SIGTERM, or down
  connected,  \* the producer's isConnected
  pass,       \* the background pass of each replica
  relay,      \* the immediate relay of each event
  count       \* what has happened so far, per bound

vars == <<rows, saved, kafka, brokerUp, proc, connected, pass, relay, count>>

Bounds == [outages |-> MaxOutages, faults |-> MaxFaults, crashes |-> MaxCrashes,
           shutdowns |-> MaxShutdowns, restarts |-> MaxRestarts,
           purges |-> MaxPurges]

Record == [id : Events, retry : 0..MaxRetry]

TypeOK ==
  /\ rows \in [Events -> [stored : BOOLEAN, published : BOOLEAN, retry : 0..MaxRetry]]
  /\ saved \in 0..NumEvents
  /\ kafka \in Seq(Events \ Invalid)
  /\ brokerUp \in BOOLEAN
  /\ proc \in [Replicas -> {"up", "draining", "down"}]
  /\ connected \in [Replicas -> BOOLEAN]
  /\ pass \in [Replicas -> [pc : {"idle", "next", "sent", "failed"}, todo : Seq(Record)]]
  /\ \A r \in Replicas : pass[r].pc # "idle" => pass[r].todo # <<>>
  /\ relay \in [Events -> [pc : {"none", "select", "publish", "sent", "failed"},
                           at : Replicas \cup {NoReplica}]]
  /\ count \in [DOMAIN Bounds -> Nat]

NoRow    == [stored |-> FALSE, published |-> FALSE, retry |-> 0]
NoRelay  == [pc |-> "none", at |-> NoReplica]
IdlePass == [pc |-> "idle", todo |-> <<>>]

\* The deployment starts with the broker reachable: index.ts connects the
\* producer before it starts the worker and listens.
Init ==
  /\ rows = [e \in Events |-> NoRow]
  /\ saved = 0 /\ kafka = <<>> /\ brokerUp = TRUE
  /\ proc = [r \in Replicas |-> "up"]
  /\ connected = [r \in Replicas |-> TRUE]
  /\ pass = [r \in Replicas |-> IdlePass]
  /\ relay = [e \in Events |-> NoRelay]
  /\ count = [b \in DOMAIN Bounds |-> 0]

Happens(b) == count[b] < Bounds[b] /\ count' = [count EXCEPT ![b] = @ + 1]

\* mutant of Bump: the bound is forgotten
MutantBump(n) == n + 1

Bump(n) == IF n < MaxRetry THEN n + 1 ELSE n

InKafka(e) == \E i \in 1..Len(kafka) : kafka[i] = e

-----------------------------------------------------------------------------
(* publishWorkflowEvent in replica r: whether it returns or throws.        *)

\* mutant of PublishReturns: send returns without waiting for the broker
MutantPublishReturns(r, e) ==
  /\ e \notin Invalid /\ count' = count
  /\ kafka' = IF connected[r] /\ brokerUp THEN Append(kafka, e) ELSE kafka

\* Returns: the broker acknowledged, or the producer is not connected and the
\* event goes nowhere.
PublishReturns(r, e) ==
  /\ e \notin Invalid /\ count' = count
  /\ \/ ~connected[r] /\ kafka' = kafka
     \/ connected[r] /\ proc[r] = "up" /\ brokerUp /\ kafka' = Append(kafka, e)

\* Throws: schema error, no broker, a producer that is being disconnected, or an
\* acknowledgement that never came.
PublishThrows(r, e) ==
  \/ e \in Invalid /\ UNCHANGED <<kafka, count>>
  \/ /\ e \notin Invalid /\ connected[r]
     /\ ~brokerUp \/ proc[r] = "draining"
     /\ UNCHANGED <<kafka, count>>
  \/ /\ e \notin Invalid /\ connected[r] /\ brokerUp /\ Happens("faults")
     /\ kafka' = Append(kafka, e)

Publish(r, e, pc) ==
  \/ PublishReturns(r, e) /\ pc = "sent"
  \/ PublishThrows(r, e) /\ pc = "failed"

\* UPDATE ... WHERE id: a row deleted meanwhile is not updated
MarkPublished(e) == rows' = [rows EXCEPT ![e].published = rows[e].stored]
SetRetry(e, n) == rows' = [rows EXCEPT ![e].retry = IF rows[e].stored THEN n ELSE @]

-----------------------------------------------------------------------------
(* A handler saves an event and starts its immediate relay.                *)

Save(r) ==
  /\ saved < NumEvents /\ proc[r] # "down"
  /\ saved' = saved + 1
  /\ rows' = [rows EXCEPT ![saved + 1].stored = TRUE]
  /\ relay' = [relay EXCEPT ![saved + 1] = [pc |-> "select", at |-> r]]
  /\ UNCHANGED <<kafka, brokerUp, proc, connected, pass, count>>

RelaySelect(e) ==
  /\ relay[e].pc = "select"
  /\ relay' = [relay EXCEPT ![e] = IF rows[e].stored /\ ~rows[e].published
                                   THEN [@ EXCEPT !.pc = "publish"] ELSE NoRelay]
  /\ UNCHANGED <<rows, saved, kafka, brokerUp, proc, connected, pass, count>>

RelayPublish(e) ==
  /\ relay[e].pc = "publish"
  /\ \E pc \in {"sent", "failed"} :
       /\ Publish(relay[e].at, e, pc)
       /\ relay' = [relay EXCEPT ![e].pc = pc]
  /\ UNCHANGED <<rows, saved, brokerUp, proc, connected, pass>>

RelayMark(e) ==
  /\ relay[e].pc = "sent"
  /\ MarkPublished(e)
  /\ relay' = [relay EXCEPT ![e] = NoRelay]
  /\ UNCHANGED <<saved, kafka, brokerUp, proc, connected, pass, count>>

\* A statement of the relay fails: caught as if the send had failed, and if it is
\* the one that records a failure, nothing is recorded.
RelayStatementFails(e) ==
  /\ Happens("faults")
  /\ \/ /\ relay[e].pc \in {"select", "sent"}
        /\ relay' = [relay EXCEPT ![e].pc = "failed"]
     \/ relay[e].pc = "failed" /\ relay' = [relay EXCEPT ![e] = NoRelay]
  /\ UNCHANGED <<rows, saved, kafka, brokerUp, proc, connected, pass>>

\* retryCount + 1, computed by the database
RelayRecordsFailure(e) ==
  /\ relay[e].pc = "failed"
  /\ SetRetry(e, Bump(rows[e].retry))
  /\ relay' = [relay EXCEPT ![e] = NoRelay]
  /\ UNCHANGED <<saved, kafka, brokerUp, proc, connected, pass, count>>

-----------------------------------------------------------------------------
(* relayUnpublishedEvents: the timer starts a pass unless one is running   *)
(* in this replica (isProcessing).                                         *)

Unpublished == {e \in Events : rows[e].stored /\ ~rows[e].published}

\* The SELECT of a pass, oldest first and at most BatchSize: the one sequence of
\* ids it returns, as a set.
Batches ==
  LET S    == Unpublished
      size == IF Cardinality(S) < BatchSize THEN Cardinality(S) ELSE BatchSize
  IN {ids \in [1..size -> S] :
        /\ \A i, j \in 1..size : i < j => ids[i] < ids[j]
        /\ \A e \in S : \A i \in 1..size :
             e < ids[i] => \E j \in 1..size : ids[j] = e}

StartPass(r) ==
  /\ proc[r] = "up" /\ pass[r].pc = "idle" /\ Unpublished # {}
  /\ \E ids \in Batches :
       pass' = [pass EXCEPT ![r] =
         [pc |-> "next",
          todo |-> [i \in DOMAIN ids |-> [id |-> ids[i], retry |-> rows[ids[i]].retry]]]]
  /\ UNCHANGED <<rows, saved, kafka, brokerUp, proc, connected, relay, count>>

Current(r) == Head(pass[r].todo)

\* on to the next record of the batch, or the end of the pass
Advance(r) ==
  pass' = [pass EXCEPT ![r] = IF Len(@.todo) = 1 THEN IdlePass
                              ELSE [pc |-> "next", todo |-> Tail(@.todo)]]

PassPublish(r) ==
  /\ pass[r].pc = "next"
  /\ \E pc \in {"sent", "failed"} :
       /\ Publish(r, Current(r).id, pc)
       /\ pass' = [pass EXCEPT ![r].pc = pc]
  /\ UNCHANGED <<rows, saved, brokerUp, proc, connected, relay>>

PassMark(r) ==
  /\ pass[r].pc = "sent"
  /\ MarkPublished(Current(r).id)
  /\ Advance(r)
  /\ UNCHANGED <<saved, kafka, brokerUp, proc, connected, relay, count>>

\* retryCount as the batch read it, plus one
PassRecordsFailure(r) ==
  /\ pass[r].pc = "failed"
  /\ SetRetry(Current(r).id, Bump(Current(r).retry))
  /\ Advance(r)
  /\ UNCHANGED <<saved, kafka, brokerUp, proc, connected, relay, count>>

\* A statement of the pass fails: after a send it is caught as if the send had
\* failed; in the catch block it leaves the loop, and `finally` ends the pass.
PassStatementFails(r) ==
  /\ Happens("faults")
  /\ \/ pass[r].pc = "sent" /\ pass' = [pass EXCEPT ![r].pc = "failed"]
     \/ pass[r].pc = "failed" /\ pass' = [pass EXCEPT ![r] = IdlePass]
  /\ UNCHANGED <<rows, saved, kafka, brokerUp, proc, connected, relay>>

-----------------------------------------------------------------------------
(* The processes and the broker.                                           *)

\* the process is gone, and with it its pass and its immediate relays
Stop(r) ==
  /\ proc' = [proc EXCEPT ![r] = "down"]
  /\ pass' = [pass EXCEPT ![r] = IdlePass]
  /\ relay' = [e \in Events |-> IF relay[e].at = r
                                THEN NoRelay ELSE relay[e]]
  /\ connected' = [connected EXCEPT ![r] = FALSE]
  /\ UNCHANGED <<rows, saved, kafka, brokerUp>>

Crash(r) == proc[r] # "down" /\ Happens("crashes") /\ Stop(r)

\* SIGTERM: stopWorker, then disconnect; passes and relays that are running go
\* on, and so do the requests app.close waits for.
Shutdown(r) ==
  /\ proc[r] = "up" /\ Happens("shutdowns")
  /\ proc' = [proc EXCEPT ![r] = "draining"]
  /\ UNCHANGED <<rows, saved, kafka, brokerUp, connected, pass, relay>>

\* isConnected is cleared once the producer has disconnected
Disconnect(r) ==
  /\ proc[r] = "draining" /\ connected[r]
  /\ connected' = [connected EXCEPT ![r] = FALSE]
  /\ UNCHANGED <<rows, saved, kafka, brokerUp, proc, pass, relay, count>>

Exit(r) == proc[r] = "draining" /\ ~connected[r] /\ count' = count /\ Stop(r)

\* mutant of Restart: the replica comes up without starting its worker, as one
\* that is about to leave
MutantRestart(r) ==
  /\ proc[r] = "down" /\ Happens("restarts")
  /\ proc' = [proc EXCEPT ![r] = "draining"]
  /\ connected' = [connected EXCEPT ![r] = brokerUp]
  /\ UNCHANGED <<rows, saved, kafka, brokerUp, pass, relay>>

\* connect() fails if the broker is down: the replica then runs in fallback
\* mode for as long as it lives.
Restart(r) ==
  /\ proc[r] = "down" /\ Happens("restarts")
  /\ proc' = [proc EXCEPT ![r] = "up"]
  /\ connected' = [connected EXCEPT ![r] = brokerUp]
  /\ UNCHANGED <<rows, saved, kafka, brokerUp, pass, relay>>

BrokerFails ==
  /\ brokerUp /\ Happens("outages")
  /\ brokerUp' = FALSE
  /\ UNCHANGED <<rows, saved, kafka, proc, connected, pass, relay>>

BrokerRecovers ==
  /\ ~brokerUp /\ brokerUp' = TRUE
  /\ UNCHANGED <<rows, saved, kafka, proc, connected, pass, relay, count>>

\* deleteWorkflowsByTenant removes the tenant's outbox rows
Purge ==
  /\ Happens("purges")
  /\ rows' = [e \in Events |-> NoRow]
  /\ UNCHANGED <<saved, kafka, brokerUp, proc, connected, pass, relay>>

PassStep(r)  == PassPublish(r) \/ PassMark(r) \/ PassRecordsFailure(r)
RelayStep(e) ==
  RelaySelect(e) \/ RelayPublish(e) \/ RelayMark(e) \/ RelayRecordsFailure(e)

Next ==
  \/ \E r \in Replicas :
       \/ Save(r) \/ StartPass(r) \/ PassStep(r) \/ PassStatementFails(r)
       \/ Crash(r) \/ Shutdown(r) \/ Disconnect(r) \/ Exit(r) \/ Restart(r)
  \/ \E e \in Events : RelayStep(e) \/ RelayStatementFails(e)
  \/ BrokerFails \/ BrokerRecovers \/ Purge

Spec == Init /\ [][Next]_vars

\* The interval timer of a live replica keeps firing and a pass that runs goes
\* on; Kubernetes ends a replica that drains and starts one again that went down;
\* an outage of the broker ends.
FairSpec ==
  /\ Spec
  /\ \A r \in Replicas : WF_vars(StartPass(r)) /\ WF_vars(PassStep(r))
  /\ \A r \in Replicas :
       WF_vars(Disconnect(r)) /\ WF_vars(Exit(r)) /\ WF_vars(Restart(r))
  /\ WF_vars(BrokerRecovers)

-----------------------------------------------------------------------------
\* Zero event loss: an event marked published is in Kafka.
PublishedIsInKafka ==
  \A e \in Events : rows[e].published => InKafka(e)

\* Every replica that runs is connected, and only such replicas relay; no replica
\* is on its way out.
AllConnected ==
  /\ \A r \in Replicas : proc[r] # "draining"
  /\ \A r \in Replicas : proc[r] = "up" => connected[r]
  /\ \A r \in Replicas : pass[r].pc # "idle" => proc[r] = "up"
  /\ \A e \in Events : relay[e].pc # "none" => \E r \in Replicas : relay[e].at = r /\ proc[r] = "up"

\* What a relay or a pass is about to mark published has reached Kafka.
SentIsInKafka ==
  /\ \A e \in Events : relay[e].pc = "sent" => InKafka(e)
  /\ \A r \in Replicas : pass[r].pc = "sent" => InKafka(Current(r).id)

\* Why PublishedIsInKafka holds as long as no replica is shut down or started
\* again: the inductive invariant.
RelayInv == TypeOK /\ AllConnected /\ SentIsInKafka /\ PublishedIsInKafka

\* The backlog drains: every valid event saved is published, whatever becomes
\* of its immediate relay, unless an administrator deletes it.
BacklogDrains ==
  \A e \in Events \ Invalid :
    rows[e].stored ~> rows[e].published \/ ~rows[e].stored

\* Kafka first holds the events of a workflow in the order they were saved.
DeliveredInOrder ==
  \A i \in 1..Len(kafka) : \A e \in 1..(kafka[i] - 1) :
    \E j \in 1..i : kafka[j] = e
=============================================================================
