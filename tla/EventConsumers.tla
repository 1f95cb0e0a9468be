-------------------------- MODULE EventConsumers ---------------------------
(***************************************************************************)
(* What becomes of the events in Kafka: the consumer groups of             *)
(* audit-service (audit-service/src/consumer.ts) and notification-service  *)
(* (notification-service/src/consumer.ts, store.ts), the retry topic and   *)
(* the dead letter topic they share, and the replay of dead letters.       *)
(*                                                                         *)
(* eachMessage has one effect: it inserts a row, or it sends the message   *)
(* on to another topic.  So handling a message is one action here, and     *)
(* Kafka's offsets are what can be behind it: a consumer that crashes, or  *)
(* loses its partition to the other replica, is given again what was not   *)
(* committed.  audit-service runs two replicas, so its topics are consumed *)
(* side by side; each topic has one partition here.                        *)
(*                                                                         *)
(* The catch block of the notification handler is left out: everything in  *)
(* its try block works on memory and on fields that the schemas of the     *)
(* five workflow events have checked, and sendToClient catches what a      *)
(* stream throws.  So is the cap of 500 on the list of notifications.      *)
(***************************************************************************)
EXTENDS Integers, Sequences, FiniteSets

CONSTANTS
  Events,        \* payloads on workflow.events
  Valid,         \* those that parse and match their schema
  Identified,    \* those that parse and have an id
  MaxRetryCount, \* MAX_RETRY_COUNT, 3 in the code
  MaxArrivals,   \* bound: messages put on workflow.events, by relay or replay
  MaxFaults      \* bound: failed statements and sends, crashes, restarts, rebalances

ASSUME ConsumersAssumption ==
  /\ Valid \subseteq Identified /\ Identified \subseteq Events
  /\ MaxRetryCount \in Nat
  /\ MaxArrivals \in Nat /\ MaxFaults \in Nat

VARIABLES
  topic,      \* the messages of each topic, oldest first
  pos,        \* messages each group has handled, per topic
  committed,  \* messages each group has committed
  audited,    \* ids in audit_events
  letters,    \* the rows of dlq_messages, in the order of their INSERTs
  standalone, \* groups none of whose consumers could connect when it started
  replaying,  \* rows whose replay has been sent and not yet recorded
  processed,  \* notification-service: processedEventIds
  inbox,      \* notification-service: notifications, newest first
  seen,       \* events broadcast to the connected clients so far
  faults,     \* faults so far
  swallowed   \* has a message been lost to a failure that is only logged

vars == <<topic, pos, committed, standalone, audited, letters, replaying,
          processed, inbox, seen, faults, swallowed>>

\* what neither handling a message nor a replay changes
environment == <<committed, standalone>>
auditState == <<audited, letters, replaying>>
notificationState == <<processed, inbox, seen>>
history == <<faults, swallowed>>

Topics == {"events", "retry", "dlq"}
Groups == {"audit", "notification"}
Subscribed(g) == IF g = "audit" THEN Topics ELSE {"events", "retry"}

Message == [event : Events, retry : 0..MaxRetryCount]
Letter  == [event : Events, status : {"DEAD_LETTERED", "REPLAYED"}]

TypeOK ==
  /\ topic \in [Topics -> Seq(Message)]
  /\ pos \in [Groups -> [Topics -> Nat]] /\ committed \in [Groups -> [Topics -> Nat]]
  /\ \A g \in Groups, t \in Topics :
       committed[g][t] <= pos[g][t] /\ pos[g][t] <= Len(topic[t])
  /\ standalone \subseteq Groups /\ audited \subseteq Valid
  /\ letters \in Seq(Letter) /\ replaying \subseteq 1..Len(letters)
  /\ processed \subseteq Valid /\ seen \subseteq Valid
  /\ inbox \in Seq(Valid)
  /\ Len(topic["events"]) <= MaxArrivals /\ faults \in Nat /\ swallowed \in BOOLEAN

Nothing == [t \in Topics |-> 0]

Init ==
  /\ topic = [t \in Topics |-> <<>>]
  /\ pos = [g \in Groups |-> Nothing] /\ committed = [g \in Groups |-> Nothing]
  /\ standalone = {} /\ audited = {} /\ letters = <<>> /\ replaying = {}
  /\ processed = {} /\ inbox = <<>> /\ seen = {}
  /\ faults = 0 /\ swallowed = FALSE

Fault(lost) ==
  /\ faults < MaxFaults /\ faults' = faults + 1
  /\ swallowed' = (swallowed \/ lost)

\* A producer puts an event on workflow.events; the relay may do so repeatedly.
Arrive(e) ==
  /\ Len(topic["events"]) < MaxArrivals
  /\ topic' = [topic EXCEPT !["events"] = Append(@, [event |-> e, retry |-> 0])]
  /\ UNCHANGED <<pos, environment, auditState, notificationState, history>>

-----------------------------------------------------------------------------
(* What both handlers do.                                                  *)

Unread(g, t) ==
  g \notin standalone /\ t \in Subscribed(g) /\ pos[g][t] < Len(topic[t])
NextMessage(g, t) == topic[t][pos[g][t] + 1]
Handled(g, t) == pos' = [pos EXCEPT ![g][t] = @ + 1]

Send(t, e, n) == topic' = [topic EXCEPT ![t] = Append(@, [event |-> e, retry |-> n])]

\* routeToRetry and routeToDLQ: a send that fails is logged, the message is gone
Route(t, e, n) ==
  \/ Send(t, e, n) /\ UNCHANGED history
  \/ topic' = topic /\ Fault(TRUE)

\* unparseable JSON or a schema violation
Poison(g, t) ==
  LET m == NextMessage(g, t) IN
  /\ t # "dlq" /\ Unread(g, t) /\ m.event \notin Valid
  /\ Route("dlq", m.event, m.retry)
  /\ Handled(g, t)
  /\ UNCHANGED <<environment, auditState, notificationState>>

-----------------------------------------------------------------------------
(* audit-service                                                           *)

\* the INSERT succeeds, or the id is there already (23505): ignored
Audit(t) ==
  LET m == NextMessage("audit", t) IN
  /\ t # "dlq" /\ Unread("audit", t) /\ m.event \in Valid
  /\ audited' = audited \cup {m.event}
  /\ Handled("audit", t)
  /\ UNCHANGED <<topic, environment, letters, replaying, notificationState, history>>

\* mutant of Escalate: a message that has used up its retries is dropped
MutantEscalate(m) ==
  IF m.retry < MaxRetryCount THEN Send("retry", m.event, m.retry + 1) ELSE topic' = topic

\* mutant of Escalate: one retry too many
MutantEscalate2(m) ==
  IF m.retry <= MaxRetryCount THEN Send("retry", m.event, m.retry + 1)
                              ELSE Send("dlq", m.event, m.retry)

\* where a message goes that could not be processed
Escalate(m) ==
  IF m.retry < MaxRetryCount THEN Send("retry", m.event, m.retry + 1)
                             ELSE Send("dlq", m.event, m.retry)

\* the INSERT fails for another reason
AuditFails(t) ==
  LET m == NextMessage("audit", t) IN
  /\ t # "dlq" /\ Unread("audit", t) /\ m.event \in Valid
  /\ \/ Escalate(m) /\ Fault(FALSE)
     \/ topic' = topic /\ Fault(TRUE)
  /\ Handled("audit", t)
  /\ UNCHANGED <<environment, auditState, notificationState>>

HasLetter(e) == \E i \in 1..Len(letters) : letters[i].event = e

\* mutant of PersistDLQRecord: a message without id is not stored
MutantPersistDLQRecord ==
  LET e == NextMessage("audit", "dlq").event IN
  /\ Unread("audit", "dlq")
  /\ letters' = IF e \notin Identified \/ HasLetter(e) THEN letters
                ELSE Append(letters, [event |-> e, status |-> "DEAD_LETTERED"])
  /\ Handled("audit", "dlq")
  /\ UNCHANGED <<topic, environment, audited, replaying, notificationState, history>>

\* INSERT ... ON CONFLICT DO NOTHING under the id of the payload, or under a
\* random id if it has none
PersistDLQRecord ==
  LET e == NextMessage("audit", "dlq").event IN
  /\ Unread("audit", "dlq")
  /\ letters' = IF e \in Identified /\ HasLetter(e) THEN letters
                ELSE Append(letters, [event |-> e, status |-> "DEAD_LETTERED"])
  /\ Handled("audit", "dlq")
  /\ UNCHANGED <<topic, environment, audited, replaying, notificationState, history>>

\* the INSERT fails: logged, and the message is gone
PersistDLQRecordFails ==
  /\ Unread("audit", "dlq") /\ Fault(TRUE)
  /\ Handled("audit", "dlq")
  /\ UNCHANGED <<topic, environment, auditState, notificationState>>

\* replayDLQMessage: whatever the row's status, its payload is sent to the topic
\* it first came from, which is workflow.events for every row: only a message of
\* that topic is poison, and retries carry its name along.
ReplaySend(i) ==
  /\ i \in 1..Len(letters) /\ "audit" \notin standalone
  /\ Len(topic["events"]) < MaxArrivals
  /\ Send("events", letters[i].event, 0)
  /\ replaying' = replaying \cup {i}
  /\ UNCHANGED <<pos, environment, audited, letters, notificationState, history>>

ReplayMark(i) ==
  /\ i \in replaying /\ replaying' = replaying \ {i}
  /\ letters' = [letters EXCEPT ![i].status = "REPLAYED"]
  /\ UNCHANGED <<topic, pos, environment, audited, notificationState, history>>

\* the process dies, or the UPDATE fails and the route answers 400
ReplayFails(i) ==
  /\ i \in replaying /\ replaying' = replaying \ {i}
  /\ Fault(FALSE)
  /\ UNCHANGED <<topic, pos, environment, audited, letters, notificationState>>

-----------------------------------------------------------------------------
(* notification-service                                                    *)

\* mutant of Notify: a message of the retry topic is taken for new
MutantNotify(t) ==
  LET e == NextMessage("notification", t).event IN
  /\ Unread("notification", t) /\ e \in Valid
  /\ IF t = "events" /\ e \in processed THEN UNCHANGED notificationState
     ELSE /\ processed' = processed \cup {e}
          /\ inbox' = <<e>> \o inbox
          /\ seen' = seen \cup {e}
  /\ Handled("notification", t)
  /\ UNCHANGED <<topic, environment, auditState, history>>

\* A duplicate is ignored; any other event is marked, stored and broadcast.
Notify(t) ==
  LET e == NextMessage("notification", t).event IN
  /\ Unread("notification", t) /\ e \in Valid
  /\ IF e \in processed THEN UNCHANGED notificationState
     ELSE /\ processed' = processed \cup {e}
          /\ inbox' = <<e>> \o inbox
          /\ seen' = seen \cup {e}
  /\ Handled("notification", t)
  /\ UNCHANGED <<topic, environment, auditState, history>>

-----------------------------------------------------------------------------
(* Kafka's consumer groups.                                                *)

\* kafkajs commits the offsets of the messages handled, now and then
Commit(g) ==
  /\ g \notin standalone /\ committed[g] # pos[g]
  /\ committed' = [committed EXCEPT ![g] = pos[g]]
  /\ UNCHANGED <<topic, pos, standalone, auditState, notificationState, history>>

\* The group's partitions are assigned anew, because a replica came or went or a
\* session expired: they are read again from the committed offsets.
Rebalance(g) ==
  /\ committed[g] # pos[g] /\ Fault(FALSE)
  /\ pos' = [pos EXCEPT ![g] = committed[g]]
  /\ UNCHANGED <<topic, environment, auditState, notificationState>>

\* mutant of Restart: a group without committed offsets subscribes with
\* fromBeginning: false
MutantRestart(g) ==
  /\ Fault(FALSE)
  /\ pos' = [pos EXCEPT ![g] = [t \in Topics |->
       IF committed[g][t] = 0 THEN Len(topic[t]) ELSE committed[g][t]]]
  /\ standalone' \in {standalone \ {g}, standalone \cup {g}}
  /\ IF g = "notification" THEN processed' = {} /\ inbox' = <<>>
                            ELSE UNCHANGED <<processed, inbox>>
  /\ UNCHANGED <<topic, committed, auditState, seen>>

\* The service is started again, and start() may fail to reach the broker: it
\* then runs without a consumer for as long as it lives.  What
\* notification-service kept in memory is gone.
Restart(g) ==
  /\ Fault(FALSE)
  /\ pos' = [pos EXCEPT ![g] = committed[g]]
  /\ standalone' \in {standalone \ {g}, standalone \cup {g}}
  /\ IF g = "notification" THEN processed' = {} /\ inbox' = <<>>
                            ELSE UNCHANGED <<processed, inbox>>
  /\ UNCHANGED <<topic, committed, auditState, seen>>

Consume(g, t) ==
  \/ Poison(g, t)
  \/ g = "audit" /\ (Audit(t) \/ AuditFails(t))
  \/ g = "audit" /\ t = "dlq" /\ (PersistDLQRecord \/ PersistDLQRecordFails)
  \/ g = "notification" /\ Notify(t)

Next ==
  \/ \E e \in Events : Arrive(e)
  \/ \E g \in Groups, t \in Topics : Consume(g, t)
  \/ \E g \in Groups : Commit(g) \/ Rebalance(g) \/ Restart(g)
  \/ \E i \in 1..Len(letters) : ReplaySend(i) \/ ReplayMark(i) \/ ReplayFails(i)

Spec == Init /\ [][Next]_vars

\* kafkajs keeps handing audit-service messages as long as its partitions hold any
FairSpec == Spec /\ WF_vars(\E t \in Topics : Consume("audit", t))

-----------------------------------------------------------------------------
\* messages of topic t that group g has handled
HandledBy(g, t) == {topic[t][i] : i \in 1..pos[g][t]}

\* copies of e waiting for audit-service on topic t
Waiting(e, t) == \E i \in (pos["audit"][t] + 1)..Len(topic[t]) : topic[t][i].event = e

\* The audit trail has no holes: an event audit-service has handled is recorded,
\* waiting for another attempt, or a dead letter that waits to be stored or is.
\* Stated as long as no failed send and no failed INSERT into dlq_messages has
\* been swallowed.
Accounted ==
  ~swallowed =>
    \A t \in Topics : \A m \in HandledBy("audit", t) :
      \/ m.event \in audited
      \/ Waiting(m.event, "retry") \/ Waiting(m.event, "dlq")
      \/ HasLetter(m.event)

\* Every valid event on workflow.events ends up in the audit trail or among the
\* dead letters, unless a failure was swallowed or no consumer is running.
EventuallyAccounted ==
  \A e \in Events :
    Waiting(e, "events") ~>
      \/ e \in audited \/ HasLetter(e)
      \/ swallowed \/ "audit" \in standalone

\* Clients are told of every event at least once: notification-service commits
\* no message it has not broadcast, though it forgets what it has processed
\* when it restarts.
BroadcastAtLeastOnce ==
  \A t \in {"events", "retry"} : \A i \in 1..committed["notification"][t] :
    topic[t][i].event \in Valid => topic[t][i].event \in seen

\* The notification list shows an event once, however often Kafka delivers it.
NotifiedOnce ==
  \A i, j \in 1..Len(inbox) : i # j => inbox[i] # inbox[j]

\* What operators are shown: an event that audit-service has given up on, and
\* that is not on its way again, has a row with status DEAD_LETTERED.
GivenUpIsListed ==
  (\A t \in Topics : pos["audit"][t] = Len(topic[t])) /\ ~swallowed =>
    \A m \in HandledBy("audit", "dlq") :
      \/ m.event \in audited
      \/ \E i \in 1..Len(letters) :
           letters[i].event = m.event /\ letters[i].status = "DEAD_LETTERED"
=============================================================================
