----------------------- MODULE EventConsumersProofs ------------------------
(***************************************************************************)
(* Machine-checked proofs about EventConsumers, for every set of events,   *)
(* every number of retries and every bound: the topics, the two consumer   *)
(* groups and the dead letters stay well typed, no client misses an event, *)
(* no event is listed twice, and the audit trail accounts for every        *)
(* message it has taken.                                                   *)
(***************************************************************************)
EXTENDS EventConsumers, SequenceTheorems, TLAPS

-----------------------------------------------------------------------------
(* The topics only grow.                                                   *)

\* what a step may do to the topics: put messages at their ends
Grown ==
  /\ topic' \in [Topics -> Seq(Message)]
  /\ Len(topic'["events"]) <= MaxArrivals
  /\ \A t \in Topics :
       /\ Len(topic[t]) \in Nat /\ Len(topic'[t]) \in Nat
       /\ Len(topic[t]) <= Len(topic'[t])
       /\ \A i \in 1..Len(topic[t]) : topic'[t][i] = topic[t][i]

\* a copy of e at the end of topic t that was not there before
Added(t, e) ==
  /\ Len(topic'[t]) = Len(topic[t]) + 1
  /\ topic'[t][Len(topic[t]) + 1].event = e

LEMMA StaysGrown ==
  ASSUME TypeOK, topic' = topic PROVE Grown
BY LenProperties DEF TypeOK, Grown, Topics

LEMMA SendGrows ==
  ASSUME TypeOK, NEW t \in Topics, NEW e \in Events, NEW n \in 0..MaxRetryCount,
         t = "events" => Len(topic["events"]) < MaxArrivals,
         Send(t, e, n)
  PROVE  Grown /\ Added(t, e)
<1> DEFINE m == [event |-> e, retry |-> n]
<1>1. m \in Message
  BY DEF Message
<1>2. topic \in [Topics -> Seq(Message)] /\ topic["events"] \in Seq(Message)
  BY DEF TypeOK, Topics
<1>3. /\ topic' = [topic EXCEPT ![t] = Append(topic[t], m)]
      /\ topic[t] \in Seq(Message)
  BY <1>2 DEF Send
<1>4. /\ Append(topic[t], m) \in Seq(Message)
      /\ Len(Append(topic[t], m)) = Len(topic[t]) + 1
      /\ \A i \in 1..Len(topic[t]) : Append(topic[t], m)[i] = topic[t][i]
      /\ Append(topic[t], m)[Len(topic[t]) + 1] = m
  BY <1>1, <1>3, AppendProperties
<1>5. \A u \in Topics : Len(topic[u]) \in Nat
  BY <1>2, LenProperties
<1>6. topic' \in [Topics -> Seq(Message)] /\ \A u \in Topics \ {t} : topic'[u] = topic[u]
  BY <1>2, <1>3, <1>4
<1>7. topic'[t] = Append(topic[t], m)
  BY <1>2, <1>3
<1>8. Added(t, e)
  BY <1>4, <1>7 DEF Added
<1>9. \A u \in Topics :
        /\ Len(topic[u]) <= Len(topic'[u]) /\ Len(topic'[u]) \in Nat
        /\ \A i \in 1..Len(topic[u]) : topic'[u][i] = topic[u][i]
  <2> SUFFICES ASSUME NEW u \in Topics
               PROVE  /\ Len(topic[u]) <= Len(topic'[u]) /\ Len(topic'[u]) \in Nat
                      /\ \A i \in 1..Len(topic[u]) : topic'[u][i] = topic[u][i]
    OBVIOUS
  <2>1. CASE u = t
    BY <1>4, <1>5, <1>7, <2>1
  <2>2. CASE u # t
    BY <1>5, <1>6, <2>2
  <2> QED
    BY <2>1, <2>2
<1>10. Len(topic'["events"]) <= MaxArrivals
  <2>1. CASE t = "events"
    BY <1>4, <1>5, <1>7, <2>1, ConsumersAssumption DEF Topics
  <2>2. CASE t # "events"
    BY <1>6, <2>2 DEF TypeOK, Topics
  <2> QED
    BY <2>1, <2>2
<1> QED
  BY <1>5, <1>6, <1>8, <1>9, <1>10 DEF Grown

\* The message a group is handed, and the position it leaves behind.
LEMMA NextIsMessage ==
  ASSUME TypeOK, NEW g \in Groups, NEW t \in Topics, Unread(g, t)
  PROVE  /\ NextMessage(g, t) \in Message
         /\ pos[g][t] + 1 \in 1..Len(topic[t])
<1>1. topic[t] \in Seq(Message) /\ pos[g][t] \in Nat /\ pos[g][t] < Len(topic[t])
  BY DEF TypeOK, Unread
<1>2. pos[g][t] + 1 \in 1..Len(topic[t])
  BY <1>1, LenProperties
<1>3. topic[t][pos[g][t] + 1] \in Message
  BY <1>1, <1>2, ElementOfSeq
<1> QED
  BY <1>2, <1>3 DEF NextMessage

LEMMA HandledMoves ==
  ASSUME TypeOK, NEW g \in Groups, NEW t \in Topics, Unread(g, t), Handled(g, t)
  PROVE  /\ pos' \in [Groups -> [Topics -> Nat]]
         /\ pos'[g][t] = pos[g][t] + 1
         /\ \A h \in Groups, u \in Topics : <<h, u>> # <<g, t>> => pos'[h][u] = pos[h][u]
         /\ \A h \in Groups, u \in Topics :
              pos[h][u] <= pos'[h][u] /\ pos'[h][u] <= Len(topic[u])
<1>1. pos \in [Groups -> [Topics -> Nat]] /\ pos[g][t] \in Nat
  BY DEF TypeOK
<1>2. pos' = [pos EXCEPT ![g] = [pos[g] EXCEPT ![t] = pos[g][t] + 1]]
  BY <1>1 DEF Handled
<1>3. /\ pos' \in [Groups -> [Topics -> Nat]]
      /\ pos'[g][t] = pos[g][t] + 1
      /\ \A h \in Groups, u \in Topics : <<h, u>> # <<g, t>> => pos'[h][u] = pos[h][u]
  BY <1>1, <1>2
<1>4. pos[g][t] + 1 <= Len(topic[t])
  BY NextIsMessage
<1>5. \A h \in Groups, u \in Topics :
        pos[h][u] <= pos'[h][u] /\ pos'[h][u] <= Len(topic[u])
  <2> SUFFICES ASSUME NEW h \in Groups, NEW u \in Topics
               PROVE  pos[h][u] <= pos'[h][u] /\ pos'[h][u] <= Len(topic[u])
    OBVIOUS
  <2>1. CASE h = g /\ u = t
    BY <1>1, <1>3, <1>4, <2>1
  <2>2. CASE ~(h = g /\ u = t)
    BY <1>1, <1>3, <2>2 DEF TypeOK
  <2> QED
    BY <2>1, <2>2
<1> QED
  BY <1>3, <1>5

\* What happens to the topics when a message is routed or escalated.
LEMMA RouteGrows ==
  ASSUME TypeOK, NEW t \in {"retry", "dlq"}, NEW e \in Events, NEW n \in 0..MaxRetryCount,
         Route(t, e, n)
  PROVE  /\ Grown
         /\ faults' \in Nat /\ swallowed' \in BOOLEAN
         /\ swallowed => swallowed'
         /\ swallowed' \/ Added(t, e)
<1>1. CASE Send(t, e, n) /\ UNCHANGED history
  BY <1>1, SendGrows DEF history, TypeOK, Topics
<1>2. CASE topic' = topic /\ Fault(TRUE)
  <2>1. swallowed' = TRUE
    BY <1>2, Zenon DEF Fault
  <2>2. faults' \in Nat
    BY <1>2 DEF Fault, TypeOK
  <2> QED
    BY <1>2, <2>1, <2>2, StaysGrown
<1> QED
  BY <1>1, <1>2 DEF Route

LEMMA EscalateGrows ==
  ASSUME TypeOK, NEW m \in Message, Escalate(m)
  PROVE  Grown /\ (Added("retry", m.event) \/ Added("dlq", m.event))
<1>1. m.event \in Events /\ m.retry \in 0..MaxRetryCount
  BY DEF Message
<1>2. CASE m.retry < MaxRetryCount
  BY <1>1, <1>2, SendGrows, ConsumersAssumption DEF Escalate, Topics
<1>3. CASE ~(m.retry < MaxRetryCount)
  BY <1>1, <1>3, SendGrows, ConsumersAssumption DEF Escalate, Topics
<1> QED
  BY <1>2, <1>3

-----------------------------------------------------------------------------
(* Type correctness.                                                       *)

\* where the groups are, and what notification-service and audit-service hold
PositionsOK ==
  /\ pos \in [Groups -> [Topics -> Nat]] /\ committed \in [Groups -> [Topics -> Nat]]
  /\ \A g \in Groups, t \in Topics :
       committed[g][t] <= pos[g][t] /\ pos[g][t] <= Len(topic[t])
LettersOK == letters \in Seq(Letter) /\ replaying \subseteq 1..Len(letters)
RecordsOK ==
  /\ standalone \subseteq Groups /\ audited \subseteq Valid
  /\ processed \subseteq Valid /\ seen \subseteq Valid /\ inbox \in Seq(Valid)
  /\ faults \in Nat /\ swallowed \in BOOLEAN

LEMMA TypeParts ==
  /\ TypeOK => PositionsOK /\ LettersOK /\ RecordsOK
  /\ Grown /\ PositionsOK' /\ LettersOK' /\ RecordsOK' => TypeOK'
<1>1. TypeOK => PositionsOK /\ LettersOK /\ RecordsOK
  BY Zenon DEF TypeOK, PositionsOK, LettersOK, RecordsOK
<1>2. Grown /\ PositionsOK' /\ LettersOK' /\ RecordsOK' => TypeOK'
  BY Zenon DEF TypeOK, PositionsOK, LettersOK, RecordsOK, Grown
<1> QED
  BY <1>1, <1>2

\* Where the topics grow and the positions stay, the positions stay within them.
LEMMA PositionsStay ==
  ASSUME TypeOK, Grown, pos' = pos, committed' = committed
  PROVE  PositionsOK'
BY DEF TypeOK, Grown, PositionsOK

LEMMA PositionsMove ==
  ASSUME TypeOK, Grown, committed' = committed,
         NEW g \in Groups, NEW t \in Topics, Unread(g, t), Handled(g, t)
  PROVE  PositionsOK'
<1>1. /\ pos' \in [Groups -> [Topics -> Nat]]
      /\ \A h \in Groups, u \in Topics :
           pos[h][u] <= pos'[h][u] /\ pos'[h][u] <= Len(topic[u])
  BY HandledMoves
<1>2. SUFFICES ASSUME NEW h \in Groups, NEW u \in Topics
      PROVE  committed'[h][u] <= pos'[h][u] /\ pos'[h][u] <= Len(topic'[u])
  BY <1>1 DEF TypeOK, PositionsOK
<1>3. /\ committed[h][u] \in Nat /\ pos[h][u] \in Nat /\ pos'[h][u] \in Nat
      /\ Len(topic[u]) \in Nat /\ Len(topic'[u]) \in Nat
      /\ Len(topic[u]) <= Len(topic'[u]) /\ committed[h][u] <= pos[h][u]
  BY <1>1 DEF TypeOK, Grown
<1> QED
  BY <1>1, <1>3

\* A group goes back to what it committed.
LEMMA PositionsBack ==
  ASSUME TypeOK, topic' = topic, committed' = committed,
         NEW g \in Groups, pos' = [pos EXCEPT ![g] = committed[g]]
  PROVE  /\ PositionsOK'
         /\ \A h \in Groups, u \in Topics : pos'[h][u] <= pos[h][u]
<1>1. /\ pos' \in [Groups -> [Topics -> Nat]]
      /\ pos'[g] = committed[g] /\ \A h \in Groups \ {g} : pos'[h] = pos[h]
  BY DEF TypeOK
<1>2. \A h \in Groups, u \in Topics :
        /\ committed[h][u] \in Nat /\ pos[h][u] \in Nat /\ Len(topic[u]) \in Nat
        /\ committed[h][u] <= pos[h][u] /\ pos[h][u] <= Len(topic[u])
  BY LenProperties DEF TypeOK
<1>3. \A h \in Groups, u \in Topics :
        /\ committed[h][u] <= pos'[h][u] /\ pos'[h][u] <= pos[h][u]
        /\ pos'[h][u] <= Len(topic[u])
  <2> SUFFICES ASSUME NEW h \in Groups, NEW u \in Topics
               PROVE  /\ committed[h][u] <= pos'[h][u] /\ pos'[h][u] <= pos[h][u]
                      /\ pos'[h][u] <= Len(topic[u])
    OBVIOUS
  <2>1. CASE h = g
    BY <1>1, <1>2, <2>1
  <2>2. CASE h # g
    BY <1>1, <1>2, <2>2
  <2> QED
    BY <2>1, <2>2
<1> QED
  BY <1>1, <1>3 DEF TypeOK, PositionsOK

\* A new dead letter, and one that is marked.
LEMMA LettersGrow ==
  ASSUME TypeOK, NEW e \in Events, replaying' = replaying,
         letters' = Append(letters, [event |-> e, status |-> "DEAD_LETTERED"])
  PROVE  /\ LettersOK'
         /\ HasLetter(e)'
         /\ \A d : HasLetter(d) => HasLetter(d)'
<1> DEFINE l == [event |-> e, status |-> "DEAD_LETTERED"]
<1>1. l \in Letter /\ letters \in Seq(Letter) /\ Len(letters) \in Nat
  BY LenProperties DEF Letter, TypeOK
<1>2. /\ letters' \in Seq(Letter) /\ Len(letters') = Len(letters) + 1
      /\ \A i \in 1..Len(letters) : letters'[i] = letters[i]
      /\ letters'[Len(letters) + 1] = l
  BY <1>1, AppendProperties
<1>3. replaying' \subseteq 1..Len(letters')
  BY <1>1, <1>2 DEF TypeOK
<1>4. HasLetter(e)'
  BY <1>1, <1>2 DEF HasLetter
<1>5. \A d : HasLetter(d) => HasLetter(d)'
  BY <1>1, <1>2 DEF HasLetter
<1> QED
  BY <1>2, <1>3, <1>4, <1>5 DEF LettersOK

LEMMA LetterMarked ==
  ASSUME TypeOK, NEW i \in replaying, replaying' = replaying \ {i},
         letters' = [letters EXCEPT ![i].status = "REPLAYED"]
  PROVE  /\ LettersOK'
         /\ \A d : HasLetter(d) => HasLetter(d)'
<1>1. letters \in Seq(Letter) /\ Len(letters) \in Nat /\ i \in 1..Len(letters)
  BY LenProperties DEF TypeOK
<1>2. letters[i] \in Letter
  BY <1>1, ElementOfSeq
<1> DEFINE l == [letters[i] EXCEPT !.status = "REPLAYED"]
<1>3. l \in Letter /\ l.event = letters[i].event
  BY <1>2 DEF Letter
<1>4. letters' = [letters EXCEPT ![i] = l]
  OBVIOUS
<1>5. /\ letters' \in Seq(Letter) /\ Len(letters') = Len(letters)
      /\ letters'[i] = l
      /\ \A j \in 1..Len(letters) \ {i} : letters'[j] = letters[j]
  <2> HIDE DEF l
  <2> QED
    BY <1>1, <1>3, <1>4, ExceptSeq
<1>6. \A d : HasLetter(d) => HasLetter(d)'
  <2> SUFFICES ASSUME NEW d, NEW j \in 1..Len(letters), letters[j].event = d
               PROVE  HasLetter(d)'
    BY DEF HasLetter
  <2>1. letters'[j].event = d
    BY <1>3, <1>5
  <2> QED
    BY <1>5, <2>1 DEF HasLetter
<1>7. replaying' \subseteq 1..Len(letters')
  BY <1>5 DEF TypeOK
<1> QED
  BY <1>5, <1>6, <1>7 DEF LettersOK

\* The message at hand goes somewhere, and no other record changes.
LEMMA PoisonStep ==
  ASSUME TypeOK, NEW g \in Groups, NEW t \in Topics, Poison(g, t)
  PROVE  /\ Grown /\ PositionsOK'
         /\ faults' \in Nat /\ swallowed' \in BOOLEAN
         /\ swallowed => swallowed'
         /\ swallowed' \/ Added("dlq", NextMessage(g, t).event)
<1>1. Unread(g, t) /\ Handled(g, t) /\ committed' = committed
  BY DEF Poison, environment
<1>2. NextMessage(g, t).event \in Events /\ NextMessage(g, t).retry \in 0..MaxRetryCount
  BY <1>1, NextIsMessage DEF Message
<1>3. Route("dlq", NextMessage(g, t).event, NextMessage(g, t).retry)
  BY DEF Poison
<1>4. /\ Grown
      /\ faults' \in Nat /\ swallowed' \in BOOLEAN
      /\ swallowed => swallowed'
      /\ swallowed' \/ Added("dlq", NextMessage(g, t).event)
  BY <1>2, <1>3, RouteGrows
<1> QED
  BY <1>1, <1>4, PositionsMove

LEMMA AuditFailsStep ==
  ASSUME TypeOK, NEW t \in Topics, AuditFails(t)
  PROVE  /\ Grown /\ PositionsOK'
         /\ faults' \in Nat /\ swallowed' \in BOOLEAN
         /\ swallowed => swallowed'
         /\ \/ swallowed'
            \/ Added("retry", NextMessage("audit", t).event)
            \/ Added("dlq", NextMessage("audit", t).event)
<1>1. Unread("audit", t) /\ Handled("audit", t) /\ committed' = committed /\ "audit" \in Groups
  BY DEF AuditFails, environment, Groups
<1> DEFINE m == NextMessage("audit", t)
<1>2. m \in Message
  BY <1>1, NextIsMessage
<1>3. CASE Escalate(m) /\ Fault(FALSE)
  <2>1. faults' \in Nat /\ swallowed' = swallowed
    BY <1>3 DEF Fault, TypeOK
  <2>2. Grown /\ (Added("retry", m.event) \/ Added("dlq", m.event))
    BY <1>2, <1>3, EscalateGrows
  <2> QED
    BY <1>1, <2>1, <2>2, PositionsMove DEF TypeOK
<1>4. CASE topic' = topic /\ Fault(TRUE)
  <2>1. swallowed' = TRUE
    BY <1>4, Zenon DEF Fault
  <2>2. faults' \in Nat
    BY <1>4 DEF Fault, TypeOK
  <2>3. Grown
    BY <1>4, StaysGrown
  <2> QED
    BY <1>1, <2>1, <2>2, <2>3, PositionsMove
<1> QED
  BY <1>3, <1>4 DEF AuditFails

\* A dead letter is stored, or found to be stored already.
LEMMA PersistStep ==
  ASSUME TypeOK, PersistDLQRecord, NEW e, e = NextMessage("audit", "dlq").event
  PROVE  /\ Grown /\ PositionsOK' /\ LettersOK'
         /\ HasLetter(e)'
         /\ \A d : HasLetter(d) => HasLetter(d)'
<1>1. /\ Unread("audit", "dlq") /\ Handled("audit", "dlq")
      /\ topic' = topic /\ committed' = committed /\ replaying' = replaying
  BY DEF PersistDLQRecord, environment
<1>2. e \in Events
  BY <1>1, NextIsMessage DEF Message, Groups, Topics
<1>3. Grown /\ PositionsOK'
  BY <1>1, StaysGrown, PositionsMove DEF Groups, Topics
<1>4. CASE HasLetter(e) /\ letters' = letters
  <2>1. \A d : HasLetter(d) => HasLetter(d)'
    BY <1>4, Zenon DEF HasLetter
  <2> QED
    BY <1>1, <1>3, <1>4, <2>1 DEF LettersOK, TypeOK
<1>5. CASE letters' = Append(letters, [event |-> e, status |-> "DEAD_LETTERED"])
  BY <1>1, <1>2, <1>3, <1>5, LettersGrow
<1> QED
  BY <1>4, <1>5 DEF PersistDLQRecord

\* What a duplicate and a new event do to notification-service.
LEMMA NotifyStep ==
  ASSUME TypeOK, NEW t \in Topics, Notify(t)
  PROVE  /\ Grown /\ PositionsOK'
         /\ processed' \subseteq Valid /\ seen' \subseteq Valid /\ inbox' \in Seq(Valid)
<1> DEFINE e == NextMessage("notification", t).event
<1>1. /\ Unread("notification", t) /\ Handled("notification", t)
      /\ topic' = topic /\ committed' = committed
  BY DEF Notify, environment
<1>2. Grown /\ PositionsOK'
  BY <1>1, StaysGrown, PositionsMove DEF Groups
<1>3. CASE UNCHANGED notificationState
  BY <1>2, <1>3 DEF notificationState, TypeOK
<1>4. CASE processed' = processed \cup {e} /\ inbox' = <<e>> \o inbox /\ seen' = seen \cup {e}
  <2>1. e \in Valid /\ <<e>> \in Seq(Valid)
    BY DEF Notify
  <2>2. inbox' \in Seq(Valid)
    BY <1>4, <2>1, ConcatProperties DEF TypeOK
  <2> QED
    BY <1>2, <1>4, <2>1, <2>2 DEF TypeOK
<1> QED
  BY <1>3, <1>4 DEF Notify

\* Every step of the groups and of a replay keeps the types.
LEMMA ConsumersTypeStep ==
  ASSUME TypeOK, [Next]_vars
  PROVE  TypeOK'
<1>0. PositionsOK /\ LettersOK /\ RecordsOK
  BY TypeParts
<1>1. CASE UNCHANGED vars
  BY <1>1, Zenon DEF vars, TypeOK
<1>2. ASSUME NEW e \in Events, Arrive(e)
      PROVE  TypeOK'
  <2>1. Send("events", e, 0) /\ 0 \in 0..MaxRetryCount /\ Len(topic["events"]) < MaxArrivals
    BY <1>2, ConsumersAssumption DEF Arrive, Send
  <2>2. Grown
    BY <2>1, SendGrows DEF Topics
  <2>3. PositionsOK'
    BY <1>2, <2>2, PositionsStay DEF Arrive, environment
  <2>4. LettersOK' /\ RecordsOK'
    BY <1>0, <1>2, Zenon
    DEF Arrive, LettersOK, RecordsOK, environment, auditState, notificationState, history
  <2> QED
    BY <2>2, <2>3, <2>4, TypeParts
<1>3. ASSUME NEW g \in Groups, NEW t \in Topics, Poison(g, t)
      PROVE  TypeOK'
  <2>1. Grown /\ PositionsOK' /\ faults' \in Nat /\ swallowed' \in BOOLEAN
    BY <1>3, PoisonStep
  <2>2. LettersOK' /\ RecordsOK'
    BY <1>0, <1>3, <2>1, Zenon
    DEF Poison, LettersOK, RecordsOK, environment, auditState, notificationState
  <2> QED
    BY <2>1, <2>2, TypeParts
<1>4. ASSUME NEW t \in Topics, Audit(t)
      PROVE  TypeOK'
  <2>1. /\ Unread("audit", t) /\ Handled("audit", t) /\ "audit" \in Groups
        /\ topic' = topic /\ committed' = committed
    BY <1>4 DEF Audit, environment, Groups
  <2>2. Grown /\ PositionsOK'
    BY <2>1, StaysGrown, PositionsMove
  <2>3. audited' \subseteq Valid
    BY <1>4 DEF Audit, TypeOK
  <2>4. LettersOK' /\ RecordsOK'
    BY <1>0, <1>4, <2>3, Zenon
    DEF Audit, LettersOK, RecordsOK, environment, notificationState, history
  <2> QED
    BY <2>2, <2>4, TypeParts
<1>5. ASSUME NEW t \in Topics, AuditFails(t)
      PROVE  TypeOK'
  <2>1. Grown /\ PositionsOK' /\ faults' \in Nat /\ swallowed' \in BOOLEAN
    BY <1>5, AuditFailsStep
  <2>2. LettersOK' /\ RecordsOK'
    BY <1>0, <1>5, <2>1, Zenon
    DEF AuditFails, LettersOK, RecordsOK, environment, auditState, notificationState
  <2> QED
    BY <2>1, <2>2, TypeParts
<1>6. CASE PersistDLQRecord
  <2>1. Grown /\ PositionsOK' /\ LettersOK'
    BY <1>6, PersistStep
  <2>2. RecordsOK'
    BY <1>0, <1>6, Zenon DEF PersistDLQRecord, RecordsOK, environment, notificationState, history
  <2> QED
    BY <2>1, <2>2, TypeParts
<1>7. CASE PersistDLQRecordFails
  <2>1. /\ Unread("audit", "dlq") /\ Handled("audit", "dlq")
        /\ topic' = topic /\ committed' = committed
    BY <1>7 DEF PersistDLQRecordFails, environment
  <2>2. Grown /\ PositionsOK'
    BY <2>1, StaysGrown, PositionsMove DEF Groups, Topics
  <2>3. faults' \in Nat
    BY <1>7 DEF PersistDLQRecordFails, Fault, TypeOK
  <2>4. swallowed' = TRUE
    BY <1>7, Zenon DEF PersistDLQRecordFails, Fault
  <2>5. LettersOK' /\ RecordsOK'
    BY <1>0, <1>7, <2>3, <2>4, Zenon
    DEF PersistDLQRecordFails, LettersOK, RecordsOK, environment, auditState, notificationState
  <2> QED
    BY <2>2, <2>5, TypeParts
<1>8. ASSUME NEW t \in Topics, Notify(t)
      PROVE  TypeOK'
  <2>1. /\ Grown /\ PositionsOK'
        /\ processed' \subseteq Valid /\ seen' \subseteq Valid /\ inbox' \in Seq(Valid)
    BY <1>8, NotifyStep
  <2>2. LettersOK' /\ RecordsOK'
    BY <1>0, <1>8, <2>1, Zenon
    DEF Notify, LettersOK, RecordsOK, environment, auditState, history
  <2> QED
    BY <2>1, <2>2, TypeParts
<1>9. ASSUME NEW g \in Groups, Commit(g)
      PROVE  TypeOK'
  <2>1. Grown
    BY <1>9, StaysGrown DEF Commit
  <2>2. PositionsOK'
    <3>1. /\ pos' = pos /\ topic' = topic
          /\ committed' \in [Groups -> [Topics -> Nat]]
          /\ committed'[g] = pos[g] /\ \A h \in Groups \ {g} : committed'[h] = committed[h]
      BY <1>9 DEF Commit, TypeOK
    <3>2. \A h \in Groups, u \in Topics :
            /\ pos[h][u] \in Nat /\ committed[h][u] <= pos[h][u] /\ pos[h][u] <= Len(topic[u])
      BY DEF TypeOK
    <3>3. \A h \in Groups, u \in Topics : committed'[h][u] <= pos[h][u]
      <4> SUFFICES ASSUME NEW h \in Groups, NEW u \in Topics
                   PROVE  committed'[h][u] <= pos[h][u]
        OBVIOUS
      <4>1. CASE h = g
        BY <3>1, <3>2, <4>1
      <4>2. CASE h # g
        BY <3>1, <3>2, <4>2
      <4> QED
        BY <4>1, <4>2
    <3> QED
      BY <3>1, <3>2, <3>3 DEF TypeOK, PositionsOK
  <2>3. LettersOK' /\ RecordsOK'
    BY <1>0, <1>9, Zenon DEF Commit, LettersOK, RecordsOK, auditState, notificationState, history
  <2> QED
    BY <2>1, <2>2, <2>3, TypeParts
<1>10. ASSUME NEW g \in Groups, Rebalance(g)
       PROVE  TypeOK'
  <2>1. Grown /\ PositionsOK'
    BY <1>10, StaysGrown, PositionsBack DEF Rebalance, environment
  <2>2. faults' \in Nat
    BY <1>10 DEF Rebalance, Fault, TypeOK
  <2>3. swallowed' \in BOOLEAN
    BY <1>10, Zenon DEF Rebalance, Fault, TypeOK
  <2>4. LettersOK' /\ RecordsOK'
    BY <1>0, <1>10, <2>2, <2>3, Zenon
    DEF Rebalance, LettersOK, RecordsOK, environment, auditState, notificationState
  <2> QED
    BY <2>1, <2>4, TypeParts
<1>11. ASSUME NEW g \in Groups, Restart(g)
       PROVE  TypeOK'
  <2>1. Grown /\ PositionsOK'
    BY <1>11, StaysGrown, PositionsBack DEF Restart
  <2>2. faults' \in Nat
    BY <1>11 DEF Restart, Fault, TypeOK
  <2>3. swallowed' \in BOOLEAN
    BY <1>11, Zenon DEF Restart, Fault, TypeOK
  <2>4. standalone' \subseteq Groups
    BY <1>11 DEF Restart, TypeOK
  <2>5. processed' \subseteq Valid /\ inbox' \in Seq(Valid)
    BY <1>11, EmptySeq DEF Restart, TypeOK
  <2>6. LettersOK' /\ RecordsOK'
    BY <1>0, <1>11, <2>2, <2>3, <2>4, <2>5, Zenon DEF Restart, LettersOK, RecordsOK, auditState
  <2> QED
    BY <2>1, <2>6, TypeParts
<1>12. ASSUME NEW i \in 1..Len(letters), ReplaySend(i)
       PROVE  TypeOK'
  <2>1. letters \in Seq(Letter) /\ letters[i] \in Letter
    BY ElementOfSeq DEF TypeOK
  <2>2. Grown
    BY <1>12, <2>1, SendGrows, ConsumersAssumption DEF ReplaySend, Letter, Topics
  <2>3. PositionsOK'
    BY <1>12, <2>2, PositionsStay DEF ReplaySend, environment
  <2>4. LettersOK'
    BY <1>12 DEF ReplaySend, LettersOK, TypeOK
  <2>5. RecordsOK'
    BY <1>0, <1>12, Zenon DEF ReplaySend, RecordsOK, environment, notificationState, history
  <2> QED
    BY <2>2, <2>3, <2>4, <2>5, TypeParts
<1>13. ASSUME NEW i \in 1..Len(letters), ReplayMark(i)
       PROVE  TypeOK'
  <2>1. Grown /\ PositionsOK'
    BY <1>13, StaysGrown, PositionsStay DEF ReplayMark, environment
  <2>2. LettersOK'
    BY <1>13, LetterMarked DEF ReplayMark
  <2>3. RecordsOK'
    BY <1>0, <1>13, Zenon DEF ReplayMark, RecordsOK, environment, notificationState, history
  <2> QED
    BY <2>1, <2>2, <2>3, TypeParts
<1>14. ASSUME NEW i \in 1..Len(letters), ReplayFails(i)
       PROVE  TypeOK'
  <2>1. Grown /\ PositionsOK'
    BY <1>14, StaysGrown, PositionsStay DEF ReplayFails, environment
  <2>2. LettersOK'
    BY <1>14 DEF ReplayFails, LettersOK, TypeOK
  <2>3. faults' \in Nat
    BY <1>14 DEF ReplayFails, Fault, TypeOK
  <2>4. swallowed' \in BOOLEAN
    BY <1>14, Zenon DEF ReplayFails, Fault, TypeOK
  <2>5. RecordsOK'
    BY <1>0, <1>14, <2>3, <2>4, Zenon DEF ReplayFails, RecordsOK, environment, notificationState
  <2> QED
    BY <2>1, <2>2, <2>5, TypeParts
<1> QED
  BY <1>1, <1>2, <1>3, <1>4, <1>5, <1>6, <1>7, <1>8, <1>9, <1>10, <1>11, <1>12, <1>13, <1>14
  DEF Next, Consume

\* The topics, the offsets of both groups, the dead letters and the notifications
\* stay well typed; no group runs ahead of a topic, or commits what it has not
\* handled.
THEOREM ConsumersTypeCorrect == Spec => []TypeOK
<1>1. Init => TypeOK
  <2> SUFFICES ASSUME Init PROVE TypeOK
    OBVIOUS
  <2>1. topic \in [Topics -> Seq(Message)] /\ \A t \in Topics : Len(topic[t]) = 0
    BY EmptySeq DEF Init
  <2>2. PositionsOK
    BY <2>1 DEF Init, Nothing, PositionsOK
  <2>3. letters \in Seq(Letter) /\ inbox \in Seq(Valid) /\ replaying = {}
    BY EmptySeq DEF Init
  <2>4. Len(topic["events"]) <= MaxArrivals
    BY <2>1, ConsumersAssumption DEF Topics
  <2> QED
    BY <2>1, <2>2, <2>3, <2>4 DEF Init, TypeOK, PositionsOK
<1>2. TypeOK /\ [Next]_vars => TypeOK'
  BY ConsumersTypeStep
<1> QED
  BY <1>1, <1>2, PTL DEF Spec

-----------------------------------------------------------------------------
(* Clients are told of every event, and the list shows it once.            *)

\* What notification-service has been handed and remembers has been broadcast.
\* It is the positions, not the committed offsets, that make this inductive: a
\* commit copies the position.
Told ==
  /\ processed \subseteq seen
  /\ \A t \in {"events", "retry"} : \A i \in 1..pos["notification"][t] :
       topic[t][i].event \in Valid => topic[t][i].event \in seen

\* what the list shows is remembered
Marked == \A i \in 1..Len(inbox) : inbox[i] \in processed

\* A step that takes notification-service no further.
LEMMA ToldStays ==
  ASSUME TypeOK, Told, Grown, pos' \in [Groups -> [Topics -> Nat]],
         \A t \in Topics : pos'["notification"][t] <= pos["notification"][t],
         seen \subseteq seen', processed' \subseteq seen'
  PROVE  Told'
<1>1. ASSUME NEW t \in {"events", "retry"}, NEW i \in 1..pos'["notification"][t]
      PROVE  i \in 1..pos["notification"][t] /\ topic'[t][i] = topic[t][i]
  <2>1. /\ pos'["notification"][t] \in Nat /\ pos["notification"][t] \in Nat
        /\ pos'["notification"][t] <= pos["notification"][t]
        /\ pos["notification"][t] <= Len(topic[t]) /\ Len(topic[t]) \in Nat
    BY DEF TypeOK, Groups, Topics, Grown
  <2>2. i \in 1..pos["notification"][t] /\ i \in 1..Len(topic[t])
    BY <2>1
  <2> QED
    BY <2>2 DEF Grown, Topics
<1> QED
  BY <1>1 DEF Told

\* A step that takes it one message further.
LEMMA ToldMoves ==
  ASSUME TypeOK, Told, Grown, NEW u \in {"events", "retry"},
         Unread("notification", u), Handled("notification", u),
         seen \subseteq seen', processed' \subseteq seen',
         NextMessage("notification", u).event \in Valid
           => NextMessage("notification", u).event \in seen'
  PROVE  Told'
<1>1. ASSUME NEW t \in {"events", "retry"}, NEW i \in 1..pos'["notification"][t],
             topic'[t][i].event \in Valid
      PROVE  topic'[t][i].event \in seen'
  <2>1. /\ pos["notification"][t] \in Nat /\ Len(topic[t]) \in Nat
        /\ pos["notification"][t] <= Len(topic[t])
    BY DEF TypeOK, Groups, Topics, Grown
  <2>2. pos["notification"][u] + 1 \in 1..Len(topic[u])
    BY NextIsMessage DEF Groups, Topics
  <2>3. /\ pos'["notification"][u] = pos["notification"][u] + 1
        /\ t # u => pos'["notification"][t] = pos["notification"][t]
    BY HandledMoves DEF Groups, Topics
  <2>4. i \in 1..pos["notification"][t] \/ (t = u /\ i = pos["notification"][u] + 1)
    BY <2>1, <2>3
  <2>5. i \in 1..Len(topic[t])
    BY <2>1, <2>2, <2>4
  <2>6. topic'[t][i] = topic[t][i]
    BY <2>5 DEF Grown, Topics
  <2>7. CASE i \in 1..pos["notification"][t]
    BY <1>1, <2>6, <2>7 DEF Told
  <2>8. CASE t = u /\ i = pos["notification"][u] + 1
    BY <1>1, <2>6, <2>8 DEF NextMessage
  <2> QED
    BY <2>4, <2>7, <2>8
<1> QED
  BY <1>1 DEF Told

\* A new event on top of the list.
LEMMA InboxStep ==
  ASSUME TypeOK, Marked, NotifiedOnce, NEW e \in Valid \ processed,
         inbox' = <<e>> \o inbox, processed' = processed \cup {e}
  PROVE  Marked' /\ NotifiedOnce'
<1>1. <<e>> \in Seq(Valid) /\ inbox \in Seq(Valid) /\ Len(inbox) \in Nat
  BY LenProperties DEF TypeOK
<1>2. Len(<<e>>) = 1 /\ <<e>>[1] = e
  OBVIOUS
<1>3. /\ Len(inbox') = Len(inbox) + 1
      /\ \A i \in 1..Len(inbox') : inbox'[i] = IF i <= 1 THEN e ELSE inbox[i - 1]
  BY <1>1, <1>2, ConcatProperties
<1>4. \A i \in 1..Len(inbox') : i > 1 => i - 1 \in 1..Len(inbox) /\ inbox'[i] = inbox[i - 1]
  BY <1>1, <1>3
<1>5. Marked'
  BY <1>3, <1>4 DEF Marked
<1>6. ASSUME NEW i \in 1..Len(inbox'), NEW j \in 1..Len(inbox'), i < j
      PROVE  inbox'[i] # inbox'[j]
  <2>1. inbox'[j] = inbox[j - 1] /\ j - 1 \in 1..Len(inbox)
    BY <1>4, <1>6
  <2>2. CASE i = 1
    BY <1>3, <2>1, <2>2 DEF Marked
  <2>3. CASE i > 1
    BY <1>4, <1>6, <2>1, <2>3 DEF NotifiedOnce
  <2> QED
    BY <2>2, <2>3
<1>7. NotifiedOnce'
  <2> SUFFICES ASSUME NEW i \in 1..Len(inbox'), NEW j \in 1..Len(inbox'), i # j
               PROVE  inbox'[i] # inbox'[j]
    BY DEF NotifiedOnce
  <2>1. i < j \/ j < i
    BY <1>1, <1>3
  <2> QED
    BY <1>6, <2>1
<1> QED
  BY <1>5, <1>7

NotificationInv == TypeOK /\ Told /\ Marked /\ NotifiedOnce

LEMMA NotificationStep ==
  ASSUME NotificationInv, [Next]_vars
  PROVE  NotificationInv'
<1>0. TypeOK /\ Told /\ Marked /\ NotifiedOnce /\ TypeOK'
  BY ConsumersTypeStep DEF NotificationInv
<1> USE <1>0
<1>1. ASSUME Grown, UNCHANGED notificationState,
             \A t \in Topics : pos'["notification"][t] <= pos["notification"][t]
      PROVE  Told'
  <2>1. pos' \in [Groups -> [Topics -> Nat]]
    BY DEF TypeOK
  <2>2. seen \subseteq seen' /\ processed' \subseteq seen'
    BY <1>1 DEF notificationState, Told
  <2> QED
    BY <1>1, <2>1, <2>2, ToldStays
<1>2. ASSUME UNCHANGED notificationState
      PROVE  Marked' /\ NotifiedOnce'
  BY <1>2 DEF notificationState, Marked, NotifiedOnce
<1>3. \A g \in Groups, t \in Topics : pos[g][t] \in Nat /\ pos[g][t] <= pos[g][t]
  BY DEF TypeOK
<1>4. CASE UNCHANGED vars
  BY <1>1, <1>2, <1>3, <1>4, StaysGrown DEF vars, notificationState, NotificationInv, Groups
<1>5. ASSUME NEW e \in Events, Arrive(e)
      PROVE  NotificationInv'
  <2>1. Send("events", e, 0) /\ 0 \in 0..MaxRetryCount
    BY <1>5, ConsumersAssumption DEF Arrive, Send
  <2>2. Grown
    BY <1>5, <2>1, SendGrows DEF Arrive, Topics
  <2> QED
    BY <1>1, <1>2, <1>3, <1>5, <2>2 DEF Arrive, notificationState, NotificationInv, Groups
<1>6. ASSUME NEW t \in Topics, Poison("notification", t)
      PROVE  NotificationInv'
  <2>1. Grown
    BY <1>6, PoisonStep DEF Groups
  <2>2. /\ t \in {"events", "retry"} /\ UNCHANGED notificationState
        /\ Unread("notification", t) /\ Handled("notification", t)
        /\ NextMessage("notification", t).event \notin Valid
    BY <1>6 DEF Poison, Topics
  <2>3. seen \subseteq seen' /\ processed' \subseteq seen'
    BY <2>2 DEF notificationState, Told
  <2>4. Told'
    BY <2>1, <2>2, <2>3, ToldMoves
  <2> QED
    BY <1>2, <2>2, <2>4 DEF NotificationInv
<1>7. ASSUME NEW t \in Topics, Notify(t)
      PROVE  NotificationInv'
  <2> DEFINE e == NextMessage("notification", t).event
  <2>1. /\ t \in {"events", "retry"} /\ e \in Valid /\ topic' = topic
        /\ Unread("notification", t) /\ Handled("notification", t)
    BY <1>7 DEF Notify, Unread, Subscribed, Topics
  <2>2. Grown
    BY <2>1, StaysGrown
  <2>3. CASE e \in processed /\ UNCHANGED notificationState
    <3>1. seen \subseteq seen' /\ processed' \subseteq seen' /\ e \in seen'
      BY <2>3 DEF notificationState, Told
    <3>2. Told'
      BY <2>1, <2>2, <3>1, ToldMoves
    <3> QED
      BY <1>2, <2>3, <3>2 DEF NotificationInv
  <2>4. CASE /\ e \notin processed /\ processed' = processed \cup {e}
             /\ inbox' = <<e>> \o inbox /\ seen' = seen \cup {e}
    <3>1. seen \subseteq seen' /\ processed' \subseteq seen' /\ e \in seen'
      BY <2>4 DEF Told
    <3>2. Told'
      BY <2>1, <2>2, <3>1, ToldMoves
    <3>3. Marked' /\ NotifiedOnce'
      BY <2>1, <2>4, InboxStep
    <3> QED
      BY <3>2, <3>3 DEF NotificationInv
  <2> QED
    BY <1>7, <2>3, <2>4 DEF Notify
<1>8. ASSUME NEW t \in Topics, Consume("audit", t)
      PROVE  NotificationInv'
  <2>1. Grown /\ UNCHANGED notificationState
    <3>1. CASE Poison("audit", t)
      BY <3>1, PoisonStep DEF Poison, Groups
    <3>2. CASE Audit(t)
      BY <3>2, StaysGrown DEF Audit
    <3>3. CASE AuditFails(t)
      BY <3>3, AuditFailsStep DEF AuditFails
    <3>4. CASE PersistDLQRecord
      BY <3>4, StaysGrown DEF PersistDLQRecord
    <3>5. CASE PersistDLQRecordFails
      BY <3>5, StaysGrown DEF PersistDLQRecordFails
    <3> QED
      BY <1>8, <3>1, <3>2, <3>3, <3>4, <3>5 DEF Consume
  <2>2. Unread("audit", t) /\ Handled("audit", t)
    BY <1>8, Zenon
    DEF Consume, Poison, Audit, AuditFails, PersistDLQRecord, PersistDLQRecordFails
  <2>3. \A u \in Topics : pos'["notification"][u] = pos["notification"][u]
    BY <2>2, HandledMoves DEF Groups
  <2> QED
    BY <1>1, <1>2, <1>3, <2>1, <2>3 DEF NotificationInv, Groups
<1>9. ASSUME NEW g \in Groups, Commit(g) \/ Rebalance(g)
      PROVE  NotificationInv'
  <2>1. topic' = topic /\ UNCHANGED notificationState
    BY <1>9 DEF Commit, Rebalance
  <2>2. Grown
    BY <2>1, StaysGrown
  <2>3. \A t \in Topics : pos'["notification"][t] <= pos["notification"][t]
    <3>1. CASE Commit(g)
      BY <1>3, <3>1 DEF Commit, Groups
    <3>2. CASE Rebalance(g)
      BY <3>2, PositionsBack DEF Rebalance, environment, Groups
    <3> QED
      BY <1>9, <3>1, <3>2
  <2> QED
    BY <1>1, <1>2, <2>1, <2>2, <2>3 DEF NotificationInv
<1>10. ASSUME NEW g \in Groups, Restart(g)
       PROVE  NotificationInv'
  <2>1. /\ topic' = topic /\ committed' = committed /\ seen' = seen
        /\ pos' = [pos EXCEPT ![g] = committed[g]]
        /\ \/ processed' = {} /\ inbox' = <<>>
           \/ processed' = processed /\ inbox' = inbox
    BY <1>10 DEF Restart
  <2>2. Grown /\ pos' \in [Groups -> [Topics -> Nat]]
    BY <2>1, StaysGrown DEF TypeOK
  <2>3. \A t \in Topics : pos'["notification"][t] <= pos["notification"][t]
    BY <2>1, PositionsBack DEF Groups
  <2>4. seen \subseteq seen' /\ processed' \subseteq seen'
    BY <2>1 DEF Told
  <2>5. Told'
    BY <2>2, <2>3, <2>4, ToldStays
  <2>6. Marked' /\ NotifiedOnce'
    BY <2>1, EmptySeq DEF Marked, NotifiedOnce
  <2> QED
    BY <2>5, <2>6 DEF NotificationInv
<1>11. ASSUME NEW i \in 1..Len(letters), ReplaySend(i)
       PROVE  NotificationInv'
  <2>1. letters \in Seq(Letter) /\ letters[i] \in Letter
    BY ElementOfSeq DEF TypeOK
  <2>2. Grown
    BY <1>11, <2>1, SendGrows, ConsumersAssumption DEF ReplaySend, Letter, Topics
  <2> QED
    BY <1>1, <1>2, <1>3, <1>11, <2>2 DEF ReplaySend, NotificationInv, Groups
<1>12. ASSUME NEW i \in 1..Len(letters), ReplayMark(i) \/ ReplayFails(i)
       PROVE  NotificationInv'
  <2>1. topic' = topic /\ pos' = pos /\ UNCHANGED notificationState
    BY <1>12 DEF ReplayMark, ReplayFails
  <2> QED
    BY <1>1, <1>2, <1>3, <2>1, StaysGrown DEF NotificationInv, Groups
<1> QED
  BY <1>4, <1>5, <1>6, <1>7, <1>8, <1>9, <1>10, <1>11, <1>12 DEF Next, Consume, Groups

LEMMA NotificationInvariant == Spec => []NotificationInv
<1>1. Init /\ TypeOK => NotificationInv
  BY EmptySeq
  DEF Init, Nothing, NotificationInv, Told, Marked, NotifiedOnce, Groups, Topics
<1>2. NotificationInv /\ [Next]_vars => NotificationInv'
  BY NotificationStep
<1> QED
  BY <1>1, <1>2, ConsumersTypeCorrect, PTL DEF Spec

\* However often notification-service crashes and loses its partitions, its group
\* never commits a valid event that it has not broadcast.
THEOREM ToldAtLeastOnce == Spec => []BroadcastAtLeastOnce
<1>1. NotificationInv => BroadcastAtLeastOnce
  <2> SUFFICES ASSUME NotificationInv,
                      NEW t \in {"events", "retry"}, NEW i \in 1..committed["notification"][t],
                      topic[t][i].event \in Valid
               PROVE  topic[t][i].event \in seen
    BY DEF BroadcastAtLeastOnce
  <2>1. /\ committed["notification"][t] \in Nat /\ pos["notification"][t] \in Nat
        /\ committed["notification"][t] <= pos["notification"][t]
    BY DEF NotificationInv, TypeOK, Groups, Topics
  <2>2. i \in 1..pos["notification"][t]
    BY <2>1
  <2> QED
    BY <2>2 DEF NotificationInv, Told
<1> QED
  BY <1>1, NotificationInvariant, PTL

\* However often Kafka delivers an event, the notification list shows it once.
THEOREM ListedOnce == Spec => []NotifiedOnce
<1>1. NotificationInv => NotifiedOnce
  BY DEF NotificationInv
<1> QED
  BY <1>1, NotificationInvariant, PTL

-----------------------------------------------------------------------------
(* The audit trail accounts for every message.                             *)

\* recorded, waiting for another attempt, on its way to the dead letters or there
Settled(e) ==
  \/ e \in audited
  \/ Waiting(e, "retry") \/ Waiting(e, "dlq")
  \/ HasLetter(e)

LEMMA AccountedIsSettled ==
  Accounted <=> (~swallowed => \A t \in Topics : \A i \in 1..pos["audit"][t] :
                                 Settled(topic[t][i].event))
BY DEF Accounted, HandledBy, Settled

LEMMA AccountedNext ==
  ASSUME ~swallowed' =>
           \A e : \A t \in Topics : \A i \in 1..pos'["audit"][t] :
             topic'[t][i].event = e => Settled(e)'
  PROVE  Accounted'
BY DEF Accounted, HandledBy, Settled

\* Nothing is claimed any more once a failure has been swallowed.
LEMMA SwallowedExcuses ==
  ASSUME swallowed' PROVE Accounted'
BY DEF Accounted

\* A copy that is waiting keeps waiting, unless it is the message at hand.
LEMMA WaitingStays ==
  ASSUME TypeOK, Grown, NEW t \in Topics, NEW e, Waiting(e, t),
         pos'["audit"][t] \in Nat, pos'["audit"][t] <= pos["audit"][t]
  PROVE  Waiting(e, t)'
<1>1. PICK i \in (pos["audit"][t] + 1)..Len(topic[t]) : topic[t][i].event = e
  BY DEF Waiting
<1>2. /\ pos["audit"][t] \in Nat /\ Len(topic[t]) \in Nat /\ Len(topic'[t]) \in Nat
      /\ Len(topic[t]) <= Len(topic'[t])
  BY DEF TypeOK, Grown, Groups
<1>3. i \in 1..Len(topic[t]) /\ i \in (pos'["audit"][t] + 1)..Len(topic'[t])
  BY <1>1, <1>2
<1>4. topic'[t][i] = topic[t][i]
  BY <1>3 DEF Grown
<1> QED
  BY <1>1, <1>3, <1>4 DEF Waiting

LEMMA WaitingOthers ==
  ASSUME TypeOK, Grown, NEW u \in Topics, NEW t \in Topics, NEW e, Waiting(e, t),
         Unread("audit", u), Handled("audit", u), e # NextMessage("audit", u).event
  PROVE  Waiting(e, t)'
<1>1. PICK i \in (pos["audit"][t] + 1)..Len(topic[t]) : topic[t][i].event = e
  BY DEF Waiting
<1>2. /\ pos["audit"][t] \in Nat /\ Len(topic[t]) \in Nat /\ Len(topic'[t]) \in Nat
      /\ Len(topic[t]) <= Len(topic'[t])
  BY DEF TypeOK, Grown, Groups
<1>3. /\ pos'["audit"][u] = pos["audit"][u] + 1
      /\ t # u => pos'["audit"][t] = pos["audit"][t]
  BY HandledMoves DEF Groups
<1>4. t = u => i # pos["audit"][u] + 1
  BY <1>1 DEF NextMessage
<1>5. i \in 1..Len(topic[t]) /\ i \in (pos'["audit"][t] + 1)..Len(topic'[t])
  BY <1>1, <1>2, <1>3, <1>4
<1>6. topic'[t][i] = topic[t][i]
  BY <1>5 DEF Grown
<1> QED
  BY <1>1, <1>5, <1>6 DEF Waiting

\* A copy that has just been sent is waiting.
LEMMA AddedWaits ==
  ASSUME TypeOK, Grown, NEW t \in Topics, NEW e, Added(t, e),
         pos'["audit"][t] \in Nat, pos'["audit"][t] <= Len(topic[t])
  PROVE  Waiting(e, t)'
<1>1. Len(topic[t]) \in Nat
  BY DEF Grown
<1>2. Len(topic[t]) + 1 \in (pos'["audit"][t] + 1)..Len(topic'[t])
  BY <1>1 DEF Added
<1> QED
  BY <1>2 DEF Added, Waiting

\* A step that takes audit-service no further.
LEMMA AccountedStays ==
  ASSUME TypeOK, Accounted, Grown, pos' \in [Groups -> [Topics -> Nat]],
         \A t \in Topics : pos'["audit"][t] <= pos["audit"][t],
         audited' = audited, \A e : HasLetter(e) => HasLetter(e)',
         swallowed => swallowed'
  PROVE  Accounted'
<1> SUFFICES ASSUME ~swallowed', NEW e, NEW t \in Topics, NEW i \in 1..pos'["audit"][t],
                    topic'[t][i].event = e
             PROVE  Settled(e)'
  BY AccountedNext
<1>1. /\ pos["audit"][t] \in Nat /\ pos'["audit"][t] \in Nat
      /\ pos'["audit"][t] <= pos["audit"][t]
      /\ pos["audit"][t] <= Len(topic[t]) /\ Len(topic[t]) \in Nat
  BY DEF TypeOK, Groups, Grown
<1>2. i \in 1..pos["audit"][t] /\ i \in 1..Len(topic[t])
  BY <1>1
<1>3. topic[t][i].event = e
  BY <1>2 DEF Grown
<1>4. Settled(e)
  BY <1>2, <1>3, AccountedIsSettled
<1>5. \A u \in {"retry", "dlq"} : Waiting(e, u) => Waiting(e, u)'
  BY WaitingStays DEF Topics, Groups
<1> QED
  BY <1>4, <1>5 DEF Settled

\* A step that takes it one message further, and settles that message.
LEMMA AccountedMoves ==
  ASSUME TypeOK, Accounted, Grown, NEW u \in Topics,
         Unread("audit", u), Handled("audit", u),
         audited \subseteq audited', \A e : HasLetter(e) => HasLetter(e)',
         swallowed => swallowed',
         NEW new, new = NextMessage("audit", u).event, swallowed' \/ Settled(new)'
  PROVE  Accounted'
<1> SUFFICES ASSUME ~swallowed', NEW e, NEW t \in Topics, NEW i \in 1..pos'["audit"][t],
                    topic'[t][i].event = e, e # new
             PROVE  Settled(e)'
  BY AccountedNext
<1>1. /\ pos["audit"][t] \in Nat /\ Len(topic[t]) \in Nat
      /\ pos["audit"][t] <= Len(topic[t])
  BY DEF TypeOK, Groups, Grown
<1>2. /\ pos'["audit"][u] = pos["audit"][u] + 1
      /\ t # u => pos'["audit"][t] = pos["audit"][t]
      /\ pos["audit"][u] + 1 \in 1..Len(topic[u])
  BY HandledMoves, NextIsMessage DEF Groups
<1>3. topic'[u][pos["audit"][u] + 1].event = new
  BY <1>2 DEF Grown, NextMessage
<1>4. i \in 1..pos["audit"][t]
  BY <1>1, <1>2, <1>3
<1>5. topic[t][i].event = e
  BY <1>1, <1>4 DEF Grown
<1>6. Settled(e)
  BY <1>4, <1>5, AccountedIsSettled
<1>7. \A v \in {"retry", "dlq"} : Waiting(e, v) => Waiting(e, v)'
  BY WaitingOthers DEF Topics
<1> QED
  BY <1>6, <1>7 DEF Settled

AuditInv == TypeOK /\ Accounted

LEMMA AuditStep ==
  ASSUME AuditInv, [Next]_vars
  PROVE  AuditInv'
<1>0. TypeOK /\ Accounted /\ TypeOK'
  BY ConsumersTypeStep DEF AuditInv
<1> USE <1>0
<1>1. ASSUME Grown, audited' = audited, letters' = letters, swallowed => swallowed',
             \A t \in Topics : pos'["audit"][t] <= pos["audit"][t]
      PROVE  AuditInv'
  <2>1. pos' \in [Groups -> [Topics -> Nat]]
    BY DEF TypeOK
  <2>2. \A e : HasLetter(e) => HasLetter(e)'
    BY <1>1 DEF HasLetter
  <2> QED
    BY <1>1, <2>1, <2>2, AccountedStays DEF AuditInv
<1>2. \A g \in Groups, t \in Topics : pos[g][t] \in Nat /\ pos[g][t] <= pos[g][t]
  BY DEF TypeOK
<1>3. UNCHANGED letters => \A e : HasLetter(e) => HasLetter(e)'
  BY DEF HasLetter
<1>4. \A g \in Groups, t \in Topics : Unread(g, t) /\ Handled(g, t) =>
        \A u \in Topics : pos'[g][u] \in Nat /\ pos'[g][u] <= Len(topic[u])
  BY HandledMoves
<1>5. CASE UNCHANGED vars
  BY <1>1, <1>2, <1>5, StaysGrown DEF vars, Groups
<1>6. ASSUME NEW e \in Events, Arrive(e)
      PROVE  AuditInv'
  <2>1. Send("events", e, 0) /\ 0 \in 0..MaxRetryCount
    BY <1>6, ConsumersAssumption DEF Arrive, Send
  <2>2. Grown
    BY <1>6, <2>1, SendGrows DEF Arrive, Topics
  <2> QED
    BY <1>1, <1>2, <1>6, <2>2 DEF Arrive, auditState, history, Groups
<1>7. ASSUME NEW t \in Topics, Poison("audit", t)
      PROVE  AuditInv'
  <2> DEFINE e == NextMessage("audit", t).event
  <2>1. /\ Grown /\ (swallowed => swallowed')
        /\ swallowed' \/ Added("dlq", e)
    BY <1>7, PoisonStep DEF Groups
  <2>2. /\ Unread("audit", t) /\ Handled("audit", t)
        /\ audited' = audited /\ UNCHANGED letters
    BY <1>7 DEF Poison, auditState
  <2>3. PICK new : new = e
    OBVIOUS
  <2>4. ASSUME NEW u \in {"retry", "dlq"}, Added(u, new)
        PROVE  Waiting(new, u)'
    <3>1. pos'["audit"][u] \in Nat /\ pos'["audit"][u] <= Len(topic[u])
      BY <1>4, <2>2 DEF Groups, Topics
    <3>2. u \in Topics
      BY DEF Topics
    <3> QED
      BY <2>1, <2>4, <3>1, <3>2, AddedWaits
  <2>5. swallowed' => Accounted'
    BY SwallowedExcuses
  <2>6. ASSUME Added("retry", new) \/ Added("dlq", new)
        PROVE  Accounted'
    <3>1. Settled(new)'
      BY <2>4, <2>6 DEF Settled
    <3>2. \A d : HasLetter(d) => HasLetter(d)'
      BY <1>3, <2>2
    <3>3. audited \subseteq audited'
      BY <2>2
    <3> QED
      BY <2>1, <2>2, <2>3, <3>1, <3>2, <3>3, AccountedMoves
  <2>7. swallowed' \/ Added("retry", new) \/ Added("dlq", new)
    BY <2>1, <2>3
  <2>8. Accounted'
    BY <2>5, <2>6, <2>7
  <2> QED
    BY <2>8 DEF AuditInv
<1>8. ASSUME NEW t \in Topics, Audit(t)
      PROVE  AuditInv'
  <2> DEFINE e == NextMessage("audit", t).event
  <2>1. /\ Unread("audit", t) /\ Handled("audit", t) /\ topic' = topic
        /\ audited' = audited \cup {e} /\ UNCHANGED letters /\ swallowed' = swallowed
    BY <1>8 DEF Audit, history
  <2>2. Grown
    BY <2>1, StaysGrown
  <2>3. PICK new : new = e
    OBVIOUS
  <2>4. Settled(new)'
    BY <2>1, <2>3 DEF Settled
  <2>5. Accounted'
    BY <1>3, <2>1, <2>2, <2>3, <2>4, AccountedMoves
  <2> QED
    BY <2>5 DEF AuditInv
<1>9. ASSUME NEW t \in Topics, AuditFails(t)
      PROVE  AuditInv'
  <2> DEFINE e == NextMessage("audit", t).event
  <2>1. /\ Grown /\ (swallowed => swallowed')
        /\ swallowed' \/ Added("retry", e) \/ Added("dlq", e)
    BY <1>9, AuditFailsStep
  <2>2. /\ Unread("audit", t) /\ Handled("audit", t)
        /\ audited' = audited /\ UNCHANGED letters
    BY <1>9 DEF AuditFails, auditState
  <2>3. PICK new : new = e
    OBVIOUS
  <2>4. ASSUME NEW u \in {"retry", "dlq"}, Added(u, new)
        PROVE  Waiting(new, u)'
    <3>1. pos'["audit"][u] \in Nat /\ pos'["audit"][u] <= Len(topic[u])
      BY <1>4, <2>2 DEF Groups, Topics
    <3>2. u \in Topics
      BY DEF Topics
    <3> QED
      BY <2>1, <2>4, <3>1, <3>2, AddedWaits
  <2>5. swallowed' => Accounted'
    BY SwallowedExcuses
  <2>6. ASSUME Added("retry", new) \/ Added("dlq", new)
        PROVE  Accounted'
    <3>1. Settled(new)'
      BY <2>4, <2>6 DEF Settled
    <3>2. \A d : HasLetter(d) => HasLetter(d)'
      BY <1>3, <2>2
    <3>3. audited \subseteq audited'
      BY <2>2
    <3> QED
      BY <2>1, <2>2, <2>3, <3>1, <3>2, <3>3, AccountedMoves
  <2>7. swallowed' \/ Added("retry", new) \/ Added("dlq", new)
    BY <2>1, <2>3
  <2>8. Accounted'
    BY <2>5, <2>6, <2>7
  <2> QED
    BY <2>8 DEF AuditInv
<1>10. CASE PersistDLQRecord
  <2>1. /\ Unread("audit", "dlq") /\ Handled("audit", "dlq") /\ "dlq" \in Topics
        /\ audited' = audited /\ swallowed' = swallowed
    BY <1>10 DEF PersistDLQRecord, history, Topics
  <2>2. PICK new : new = NextMessage("audit", "dlq").event
    OBVIOUS
  <2>3. Grown /\ HasLetter(new)' /\ \A e : HasLetter(e) => HasLetter(e)'
    BY <1>10, <2>2, PersistStep
  <2>4. Settled(new)'
    BY <2>3 DEF Settled
  <2>5. Accounted'
    BY <2>1, <2>2, <2>3, <2>4, AccountedMoves
  <2> QED
    BY <2>5 DEF AuditInv
<1>11. CASE PersistDLQRecordFails
  <2>1. swallowed' = TRUE
    BY <1>11, Zenon DEF PersistDLQRecordFails, Fault
  <2>2. Accounted'
    BY <2>1, SwallowedExcuses
  <2> QED
    BY <2>2 DEF AuditInv
<1>12. ASSUME NEW t \in Topics, Consume("notification", t)
       PROVE  AuditInv'
  <2>1. Grown /\ (swallowed => swallowed')
    <3>1. CASE Poison("notification", t)
      BY <3>1, PoisonStep DEF Groups
    <3>2. CASE Notify(t)
      BY <3>2, StaysGrown DEF Notify, history
    <3> QED
      BY <1>12, <3>1, <3>2 DEF Consume
  <2>2. /\ Unread("notification", t) /\ Handled("notification", t)
        /\ audited' = audited /\ letters' = letters
    BY <1>12, Zenon DEF Consume, Poison, Notify, auditState
  <2>3. \A u \in Topics : pos'["audit"][u] = pos["audit"][u]
    BY <2>2, HandledMoves DEF Groups
  <2> QED
    BY <1>1, <1>2, <2>1, <2>2, <2>3 DEF Groups
<1>13. ASSUME NEW g \in Groups, Commit(g) \/ Rebalance(g) \/ Restart(g)
       PROVE  AuditInv'
  <2>1. topic' = topic /\ audited' = audited /\ letters' = letters
    BY <1>13 DEF Commit, Rebalance, Restart, auditState
  <2>2. swallowed => swallowed'
    BY <1>13, Zenon DEF Commit, Rebalance, Restart, Fault, history
  <2>3. \A t \in Topics : pos'["audit"][t] <= pos["audit"][t]
    <3>1. CASE Commit(g)
      BY <1>2, <3>1 DEF Commit, Groups
    <3>2. CASE Rebalance(g) \/ Restart(g)
      BY <3>2, PositionsBack DEF Rebalance, Restart, environment, Groups
    <3> QED
      BY <1>13, <3>1, <3>2
  <2> QED
    BY <1>1, <2>1, <2>2, <2>3, StaysGrown
<1>14. ASSUME NEW i \in 1..Len(letters), ReplaySend(i)
       PROVE  AuditInv'
  <2>1. letters \in Seq(Letter) /\ letters[i] \in Letter
    BY ElementOfSeq DEF TypeOK
  <2>2. Grown
    BY <1>14, <2>1, SendGrows, ConsumersAssumption DEF ReplaySend, Letter, Topics
  <2> QED
    BY <1>1, <1>2, <1>14, <2>2 DEF ReplaySend, history, Groups
<1>15. ASSUME NEW i \in 1..Len(letters), ReplayMark(i)
       PROVE  AuditInv'
  <2>1. topic' = topic /\ pos' = pos /\ audited' = audited /\ swallowed' = swallowed
    BY <1>15 DEF ReplayMark, history
  <2>2. \A e : HasLetter(e) => HasLetter(e)'
    BY <1>15, LetterMarked DEF ReplayMark
  <2>3. pos' \in [Groups -> [Topics -> Nat]] /\ \A t \in Topics : pos'["audit"][t] <= pos["audit"][t]
    BY <1>2, <2>1 DEF TypeOK, Groups
  <2> QED
    BY <2>1, <2>2, <2>3, StaysGrown, AccountedStays DEF AuditInv
<1>16. ASSUME NEW i \in 1..Len(letters), ReplayFails(i)
       PROVE  AuditInv'
  <2>1. topic' = topic /\ pos' = pos /\ audited' = audited /\ letters' = letters
    BY <1>16 DEF ReplayFails
  <2>2. swallowed => swallowed'
    BY <1>16, Zenon DEF ReplayFails, Fault
  <2> QED
    BY <1>1, <1>2, <2>1, <2>2, StaysGrown DEF Groups
<1> QED
  BY <1>5, <1>6, <1>7, <1>8, <1>9, <1>10, <1>11, <1>12, <1>13, <1>14, <1>15, <1>16
  DEF Next, Consume, Groups

\* As long as no failed send or INSERT has been swallowed, every message that
\* audit-service has taken is in the audit trail, waiting for another attempt, or
\* a dead letter - through retries, replays, crashes and rebalances.
THEOREM TrailIsAccounted == Spec => []Accounted
<1>1. Init /\ TypeOK => AuditInv
  BY DEF Init, Nothing, AuditInv, Accounted, HandledBy, Groups
<1>2. AuditInv /\ [Next]_vars => AuditInv'
  BY AuditStep
<1>3. AuditInv => Accounted
  BY DEF AuditInv
<1> QED
  BY <1>1, <1>2, <1>3, ConsumersTypeCorrect, PTL DEF Spec
=============================================================================
