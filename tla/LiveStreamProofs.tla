-------------------------- MODULE LiveStreamProofs --------------------------
(***************************************************************************)
(* Machine-checked proofs about LiveStream, for every set of tenants and   *)
(* events: a tab handles no event twice and none of a tenant it has left.  *)
(***************************************************************************)
EXTENDS LiveStream, TLAPS, SequenceTheorems

Messages == Events \cup {Connected}

\* the tab has one stream, for the session it is in, and waits for the next only
\* when this one is closed
OneStream ==
  /\ \A c \in 1..Len(conns) : c # current => conns[c].browser = "closed"
  /\ timer => conns[current].browser = "closed"
  /\ conns[current].tenant = session

\* every connection but the first owes itself to a switch or to a fault
Debt == IF timer \/ (conns[current].broken /\ conns[current].browser # "closed") THEN 1 ELSE 0
Budget == Len(conns) + Debt <= 1 + switches + faults

\* streams carry events of their own tenant
OwnContent ==
  \A c \in 1..Len(conns) : \A i \in 1..Len(conns[c].channel) :
    conns[c].channel[i] \in Events => EventTenant[conns[c].channel[i]] = conns[c].tenant

\* what the stream still brings has not been handled, and comes once
Fresh ==
  \A i \in 1..Len(conns[current].channel) :
    /\ \A j \in 1..Len(conns[current].channel) :
         i # j /\ conns[current].channel[i] \in Events
           => conns[current].channel[i] # conns[current].channel[j]
    /\ \A k \in 1..Len(handled) : conns[current].channel[i] # handled[k]

TabInv == OneStream /\ OwnContent /\ Fresh /\ HandledOnce

-----------------------------------------------------------------------------
(* Types.                                                                  *)

LEMMA NewType ==
  ASSUME NEW t \in Tenants
  PROVE  New(t) \in Connection /\ Request(t) \in Fetch
BY DEF New, Connection, Request, Fetch

LEMMA WithoutType ==
  ASSUME NEW S, NEW s \in Seq(S), NEW i \in 1..Len(s)
  PROVE  Without(s, i) \in Seq(S)
BY DEF Without

\* one connection changes
LEMMA Changed ==
  ASSUME NEW s \in Seq(Connection), NEW c \in 1..Len(s), NEW r \in Connection
  PROVE  /\ [s EXCEPT ![c] = r] \in Seq(Connection)
         /\ Len([s EXCEPT ![c] = r]) = Len(s)
         /\ \A d \in 1..Len(s) : [s EXCEPT ![c] = r][d] = IF d = c THEN r ELSE s[d]
OBVIOUS

\* What each action does to the connections.
LEMMA AddClientDoes ==
  ASSUME TypeOK, NEW c \in 1..Len(conns), AddClient(c)
  PROVE  /\ conns' \in Seq(Connection) /\ Len(conns') = Len(conns)
         /\ \A d \in 1..Len(conns) : conns'[d] =
              IF d = c THEN [conns[c] EXCEPT !.server = "registered", !.channel = <<Connected>>]
              ELSE conns[d]
<1> DEFINE r == [conns[c] EXCEPT !.server = "registered", !.channel = <<Connected>>]
<1>1. conns \in Seq(Connection) /\ conns[c] \in Connection
  BY DEF TypeOK
<1>2. r \in Connection
  <2>1. <<>> \in Seq(Messages) /\ <<Connected>> \in Seq(Messages)
    BY DEF Messages
  <2> QED
    BY <1>1, <2>1 DEF Connection, Messages
<1>3. conns' = [conns EXCEPT ![c] = r]
  BY <1>1 DEF AddClient
<1> HIDE DEF r
<1>4. /\ conns' \in Seq(Connection) /\ Len(conns') = Len(conns)
      /\ \A d \in 1..Len(conns) : conns'[d] = IF d = c THEN r ELSE conns[d]
  BY <1>1, <1>2, <1>3, Changed
<1> QED
  BY <1>4 DEF r

LEMMA RemoveClientDoes ==
  ASSUME TypeOK, NEW c \in 1..Len(conns), RemoveClient(c)
  PROVE  /\ conns' \in Seq(Connection) /\ Len(conns') = Len(conns)
         /\ \A d \in 1..Len(conns) : conns'[d] =
              IF d = c THEN [conns[c] EXCEPT !.server = "gone"] ELSE conns[d]
<1> DEFINE r == [conns[c] EXCEPT !.server = "gone"]
<1>1. conns \in Seq(Connection) /\ conns[c] \in Connection
  BY DEF TypeOK
<1>2. r \in Connection
  BY <1>1 DEF Connection
<1>3. conns' = [conns EXCEPT ![c] = r]
  BY <1>1 DEF RemoveClient
<1> HIDE DEF r
<1>4. /\ conns' \in Seq(Connection) /\ Len(conns') = Len(conns)
      /\ \A d \in 1..Len(conns) : conns'[d] = IF d = c THEN r ELSE conns[d]
  BY <1>1, <1>2, <1>3, Changed
<1> QED
  BY <1>4 DEF r

LEMMA BreakDoes ==
  ASSUME TypeOK, NEW c \in 1..Len(conns), Break(c)
  PROVE  /\ conns' \in Seq(Connection) /\ Len(conns') = Len(conns)
         /\ \A d \in 1..Len(conns) : conns'[d] =
              IF d = c THEN [conns[c] EXCEPT !.broken = TRUE] ELSE conns[d]
<1> DEFINE r == [conns[c] EXCEPT !.broken = TRUE]
<1>1. conns \in Seq(Connection) /\ conns[c] \in Connection
  BY DEF TypeOK
<1>2. r \in Connection
  BY <1>1 DEF Connection
<1>3. conns' = [conns EXCEPT ![c] = r]
  BY <1>1 DEF Break
<1> HIDE DEF r
<1>4. /\ conns' \in Seq(Connection) /\ Len(conns') = Len(conns)
      /\ \A d \in 1..Len(conns) : conns'[d] = IF d = c THEN r ELSE conns[d]
  BY <1>1, <1>2, <1>3, Changed
<1> QED
  BY <1>4 DEF r

LEMMA StreamErrorDoes ==
  ASSUME TypeOK, NEW c \in 1..Len(conns), StreamError(c)
  PROVE  /\ conns' \in Seq(Connection) /\ Len(conns') = Len(conns)
         /\ \A d \in 1..Len(conns) : conns'[d] =
              IF d = c THEN [conns[c] EXCEPT !.browser = "closed", !.channel = <<>>] ELSE conns[d]
<1> DEFINE r == [conns[c] EXCEPT !.browser = "closed", !.channel = <<>>]
<1>1. conns \in Seq(Connection) /\ conns[c] \in Connection
  BY DEF TypeOK
<1>2. r \in Connection
  <2>1. <<>> \in Seq(Messages) /\ <<Connected>> \in Seq(Messages)
    BY DEF Messages
  <2> QED
    BY <1>1, <2>1 DEF Connection, Messages
<1>3. conns' = [conns EXCEPT ![c] = r]
  BY <1>1 DEF StreamError
<1> HIDE DEF r
<1>4. /\ conns' \in Seq(Connection) /\ Len(conns') = Len(conns)
      /\ \A d \in 1..Len(conns) : conns'[d] = IF d = c THEN r ELSE conns[d]
  BY <1>1, <1>2, <1>3, Changed
<1> QED
  BY <1>4 DEF r

LEMMA ReceiveDoes ==
  ASSUME TypeOK, NEW c \in 1..Len(conns), Receive(c)
  PROVE  /\ conns' \in Seq(Connection) /\ Len(conns') = Len(conns)
         /\ \A d \in 1..Len(conns) : conns'[d] =
              IF d = c THEN [conns[c] EXCEPT !.channel = Tail(@),
                               !.browser = IF Head(conns[c].channel) = Connected THEN "open" ELSE @]
              ELSE conns[d]
<1> DEFINE m == Head(conns[c].channel)
           r == [conns[c] EXCEPT !.channel = Tail(@), !.browser = IF m = Connected THEN "open" ELSE @]
<1>1. conns \in Seq(Connection) /\ conns[c] \in Connection
  BY DEF TypeOK
<1>2. r \in Connection
  <2>1. conns[c].channel \in Seq(Messages) /\ conns[c].channel # <<>>
    BY <1>1 DEF Connection, Receive, Messages
  <2>2. Tail(conns[c].channel) \in Seq(Messages)
    BY <2>1
  <2> HIDE DEF m
  <2> QED
    BY <1>1, <2>2 DEF Connection, Messages
<1>3. conns' = [conns EXCEPT ![c] = r]
  BY <1>1 DEF Receive, Handle
<1> HIDE DEF r
<1>4. /\ conns' \in Seq(Connection) /\ Len(conns') = Len(conns)
      /\ \A d \in 1..Len(conns) : conns'[d] = IF d = c THEN r ELSE conns[d]
  BY <1>1, <1>2, <1>3, Changed
<1> QED
  BY <1>4 DEF r

LEMMA RestartDoes ==
  ASSUME TypeOK, Restart
  PROVE  /\ conns' \in Seq(Connection) /\ Len(conns') = Len(conns)
         /\ \A d \in 1..Len(conns) : conns'[d] =
              IF d \in clients THEN [conns[d] EXCEPT !.broken = TRUE, !.server = "gone"] ELSE conns[d]
<1>1. conns \in Seq(Connection) /\ \A d \in 1..Len(conns) : conns[d] \in Connection
  BY DEF TypeOK
<1> DEFINE r(d) == IF d \in clients THEN [conns[d] EXCEPT !.broken = TRUE, !.server = "gone"] ELSE conns[d]
<1>2. \A d \in 1..Len(conns) : r(d) \in Connection
  BY <1>1 DEF Connection
<1>3. conns' = [d \in 1..Len(conns) |-> r(d)]
  <2>1. DOMAIN conns = 1..Len(conns)
    BY <1>1
  <2>2. conns' = [d \in DOMAIN conns |-> r(d)]
    BY Zenon DEF Restart
  <2> QED
    BY <2>1, <2>2
<1> HIDE DEF r
<1>4. /\ conns' \in Seq(Connection) /\ Len(conns') = Len(conns)
      /\ \A d \in 1..Len(conns) : conns'[d] = r(d)
  BY <1>1, <1>2, <1>3
<1> QED
  BY <1>4 DEF r

LEMMA BroadcastDoes ==
  ASSUME TypeOK, NEW e \in Events, Broadcast(e)
  PROVE  /\ conns' \in Seq(Connection) /\ Len(conns') = Len(conns)
         /\ \A d \in 1..Len(conns) : conns'[d] =
              IF d \in Recipients(e) THEN [conns[d] EXCEPT !.channel = Append(@, e)] ELSE conns[d]
<1>1. conns \in Seq(Connection) /\ \A d \in 1..Len(conns) : conns[d] \in Connection
  BY DEF TypeOK
<1> DEFINE r(d) == IF d \in Recipients(e) THEN [conns[d] EXCEPT !.channel = Append(@, e)] ELSE conns[d]
<1>2. \A d \in 1..Len(conns) : r(d) \in Connection
  <2> TAKE d \in 1..Len(conns)
  <2>1. conns[d].channel \in Seq(Messages) /\ e \in Messages
    BY <1>1 DEF Connection, Messages
  <2>2. Append(conns[d].channel, e) \in Seq(Messages)
    BY <2>1
  <2> QED
    BY <1>1, <2>2 DEF Connection, Messages
<1>3. conns' = [d \in 1..Len(conns) |-> r(d)]
  BY <1>1 DEF Broadcast
<1> HIDE DEF r
<1>4. /\ conns' \in Seq(Connection) /\ Len(conns') = Len(conns)
      /\ \A d \in 1..Len(conns) : conns'[d] = r(d)
  BY <1>1, <1>2, <1>3
<1> QED
  BY <1>4 DEF r

LEMMA ReconnectDoes ==
  ASSUME TypeOK, Reconnect
  PROVE  /\ conns' \in Seq(Connection) /\ Len(conns') = Len(conns) + 1
         /\ \A d \in 1..Len(conns) : conns'[d] = conns[d]
         /\ conns'[Len(conns) + 1] = New(conns[current].tenant)
<1>1. conns \in Seq(Connection) /\ New(conns[current].tenant) \in Connection
  <2>1. conns \in Seq(Connection) /\ conns[current] \in Connection
    BY DEF TypeOK
  <2>2. conns[current].tenant \in Tenants
    BY <2>1 DEF Connection
  <2> QED
    BY <2>1, <2>2, NewType
<1>2. conns' = Append(conns, New(conns[current].tenant))
  BY DEF Reconnect
<1> QED
  BY <1>1, <1>2

LEMMA SwitchDoes ==
  ASSUME TypeOK, NEW t \in Tenants, Switch(t)
  PROVE  /\ conns' \in Seq(Connection) /\ Len(conns') = Len(conns) + 1
         /\ \A d \in 1..Len(conns) : conns'[d] =
              IF d = current THEN [conns[d] EXCEPT !.browser = "closed", !.channel = <<>>]
              ELSE conns[d]
         /\ conns'[Len(conns) + 1] = New(t)
<1> DEFINE r == [conns[current] EXCEPT !.browser = "closed", !.channel = <<>>]
           s == [conns EXCEPT ![current] = r]
<1>1. conns \in Seq(Connection) /\ conns[current] \in Connection /\ current \in 1..Len(conns)
  BY DEF TypeOK
<1>2. r \in Connection
  <2>1. <<>> \in Seq(Messages) /\ <<Connected>> \in Seq(Messages)
    BY DEF Messages
  <2> QED
    BY <1>1, <2>1 DEF Connection, Messages
<1>3. conns' = Append(s, New(t))
  BY <1>1 DEF Switch
<1>4. New(t) \in Connection
  BY NewType
<1> HIDE DEF r
<1>5. /\ s \in Seq(Connection) /\ Len(s) = Len(conns)
      /\ \A d \in 1..Len(conns) : s[d] = IF d = current THEN r ELSE conns[d]
  BY <1>1, <1>2, Changed
<1> HIDE DEF s
<1>6. /\ conns' \in Seq(Connection) /\ Len(conns') = Len(conns) + 1
      /\ \A d \in 1..Len(conns) : conns'[d] = IF d = current THEN r ELSE conns[d]
      /\ conns'[Len(conns) + 1] = New(t)
  BY <1>1, <1>3, <1>4, <1>5
<1> QED
  BY <1>6 DEF r

LEMMA InitType == Init => TypeOK
<1> SUFFICES ASSUME Init PROVE TypeOK
  OBVIOUS
<1>1. New(session) \in Connection /\ Request(session) \in Fetch /\ session \in Tenants
  BY NewType DEF Init
<1>2. conns \in Seq(Connection) /\ Len(conns) = 1 /\ current \in 1..Len(conns)
  BY <1>1 DEF Init
<1>3. fetches \in Seq(Fetch)
  BY <1>1 DEF Init
<1>4. store \in Seq(Events) /\ handled \in Seq(Events)
  BY DEF Init
<1>5. switches \in 0..MaxSwitches /\ faults \in 0..MaxFaults /\ Len(conns) <= 1 + switches + faults
  BY <1>2, StreamAssumption DEF Init
<1>6. timer \in BOOLEAN /\ overtaken \in BOOLEAN
  BY Zenon DEF Init
<1>7. clients \subseteq 1..Len(conns) /\ page \subseteq Events /\ missed \subseteq Events
  BY DEF Init
<1> QED
  BY <1>1, <1>2, <1>3, <1>4, <1>5, <1>6, <1>7 DEF TypeOK

\* What has the right type whatever the connections do.
Others ==
  /\ session \in Tenants /\ overtaken \in BOOLEAN
  /\ store \in Seq(Events) /\ handled \in Seq(Events)
  /\ fetches \in Seq(Fetch)
  /\ page \subseteq Events /\ missed \subseteq Events
  /\ switches \in 0..MaxSwitches /\ faults \in 0..MaxFaults

Wires ==
  /\ conns \in Seq(Connection) /\ current \in 1..Len(conns) /\ timer \in BOOLEAN
  /\ clients \subseteq 1..Len(conns)

LEMMA TypeParts == TypeOK <=> Others /\ Wires /\ Len(conns) <= 1 + switches + faults
BY DEF TypeOK, Others, Wires

LEMMA OthersStep ==
  ASSUME TypeOK, Next
  PROVE  Others'
<1>0. Others /\ Wires /\ MaxFaults \in Nat /\ MaxSwitches \in Nat
      /\ (\A c : Undelivered(c) \subseteq Events)
      /\ (\A t : InList(t) \subseteq Events)
  BY TypeParts, StreamAssumption DEF Undelivered, InList
<1>1. ASSUME NEW c \in 1..Len(conns), AddClient(c) \/ RemoveClient(c) PROVE Others'
  BY <1>0, <1>1 DEF AddClient, RemoveClient, Others, lists, history, counters
<1>2. ASSUME NEW i \in 1..Len(fetches), AnswerFetch(i) PROVE Others'
  <2> DEFINE f == [fetches[i] EXCEPT !.answered = TRUE, !.list = InList(fetches[i].tenant)]
  <2>1. fetches[i] \in Fetch
    BY <1>0 DEF Others
  <2>2. f \in Fetch
    BY <1>0, <2>1 DEF Fetch
  <2>3. fetches' = [fetches EXCEPT ![i] = f]
    BY <1>0, <1>2 DEF AnswerFetch, Others
  <2> HIDE DEF f
  <2>4. fetches' \in Seq(Fetch)
    BY <1>0, <2>2, <2>3 DEF Others
  <2> QED
    BY <1>0, <1>2, <2>4 DEF AnswerFetch, Others, stream, history, counters
<1>3. ASSUME NEW c \in 1..Len(conns), Receive(c) PROVE Others'
  <2>1. conns[c] \in Connection /\ conns[c].channel # <<>>
    BY <1>0, <1>3 DEF Wires, Receive
  <2>2. Head(conns[c].channel) \in Messages
    BY <2>1 DEF Connection, Messages
  <2>3. Request(session) \in Fetch
    BY <1>0, NewType DEF Others
  <2>4. handled' \in Seq(Events) /\ fetches' \in Seq(Fetch)
    <3>1. CASE Head(conns[c].channel) = Connected
      BY <1>0, <1>3, <3>1 DEF Receive, Handle, Others
    <3>2. CASE Head(conns[c].channel) # Connected
      <4>1. /\ handled' = Append(handled, Head(conns[c].channel))
            /\ fetches' = Append(fetches, Request(session))
        BY <1>3, <3>2 DEF Receive, Handle
      <4> QED
        BY <1>0, <2>2, <2>3, <3>2, <4>1 DEF Others, Messages
    <3> QED
      BY <3>1, <3>2
  <2> QED
    BY <1>0, <1>3, <2>4 DEF Receive, Others, counters
<1>4. ASSUME NEW c \in 1..Len(conns), StreamError(c) PROVE Others'
  BY <1>0, <1>4 DEF StreamError, Others, lists, counters
<1>5. CASE Reconnect
  BY <1>0, <1>5 DEF Reconnect, Others, lists, history, counters
<1>6. ASSUME NEW i \in 1..Len(fetches), FetchReturns(i) \/ FetchFails(i) PROVE Others'
  <2>1. Without(fetches, i) \in Seq(Fetch) /\ fetches[i] \in Fetch
    BY <1>0, WithoutType DEF Others
  <2>2. fetches[i].list \subseteq Events
    BY <2>1 DEF Fetch
  <2>3. CASE FetchReturns(i)
    <3>1. overtaken' \in BOOLEAN
      BY <2>3 DEF FetchReturns
    <3> QED
      BY <1>0, <2>1, <2>2, <2>3, <3>1 DEF FetchReturns, Others, stream, counters
  <2>4. CASE FetchFails(i)
    <3>1. overtaken' \in BOOLEAN
      BY Zenon, <2>4 DEF FetchFails
    <3> QED
      BY <1>0, <2>1, <2>4, <3>1 DEF FetchFails, Fault, Others, stream
  <2> QED
    BY <1>6, <2>3, <2>4
<1>7. ASSUME NEW e \in Events, Broadcast(e) PROVE Others'
  BY <1>0, <1>7 DEF Broadcast, Others, counters
<1>8. ASSUME NEW t \in Tenants, Switch(t) PROVE Others'
  <2>1. fetches' = Append(fetches, Request(t)) /\ Request(t) \in Fetch
    BY <1>8, NewType DEF Switch
  <2>2. fetches' \in Seq(Fetch)
    BY <1>0, <2>1 DEF Others
  <2> QED
    BY <1>0, <1>8, <2>2 DEF Switch, Others
<1>9. ASSUME NEW c \in 1..Len(conns), Break(c) PROVE Others'
  BY <1>0, <1>9 DEF Break, Fault, Others, lists, history
<1>10. CASE Restart
  <2>1. /\ store' = <<>> /\ faults < MaxFaults /\ faults' = faults + 1
        /\ session' = session /\ fetches' = fetches /\ page' = page /\ switches' = switches
        /\ handled' = handled /\ missed' = missed /\ overtaken' = overtaken
    BY Zenon, <1>10 DEF Restart, Fault, history
  <2>2. store' \in Seq(Events)
    BY <2>1
  <2> QED
    BY <1>0, <2>1, <2>2 DEF Others
<1>11. DOMAIN conns = 1..Len(conns) /\ DOMAIN fetches = 1..Len(fetches)
  BY <1>0 DEF Others, Wires
<1> QED
  BY <1>1, <1>2, <1>3, <1>4, <1>5, <1>6, <1>7, <1>8, <1>9, <1>10, <1>11 DEF Next, Server, Tab

\* Connections are opened by switches and by faults.
LEMMA WiresStep ==
  ASSUME TypeOK, OneStream, Budget, Next
  PROVE  Wires' /\ Budget'
<1>0. /\ Wires /\ switches \in Nat /\ faults \in Nat /\ Len(conns) \in Nat
      /\ \A c \in 1..Len(conns) : conns[c] \in Connection
      /\ DOMAIN conns = 1..Len(conns)
  BY StreamAssumption DEF TypeOK, Wires
<1>1. ASSUME NEW c \in 1..Len(conns), AddClient(c) \/ RemoveClient(c) PROVE Wires' /\ Budget'
  <2>1. /\ conns' \in Seq(Connection) /\ Len(conns') = Len(conns)
        /\ \A d \in 1..Len(conns) :
             conns'[d].broken = conns[d].broken /\ conns'[d].browser = conns[d].browser
    <3> DEFINE a == [conns[c] EXCEPT !.server = "registered", !.channel = <<Connected>>]
               b == [conns[c] EXCEPT !.server = "gone"]
    <3>0. /\ a.broken = conns[c].broken /\ a.browser = conns[c].browser
          /\ b.broken = conns[c].broken /\ b.browser = conns[c].browser
      BY <1>0 DEF Connection
    <3>1. CASE AddClient(c)
      <4>1. /\ conns' \in Seq(Connection) /\ Len(conns') = Len(conns)
            /\ \A d \in 1..Len(conns) : conns'[d] = IF d = c THEN a ELSE conns[d]
        BY <3>1, AddClientDoes
      <4> HIDE DEF a, b
      <4> QED
        BY <3>0, <4>1
    <3>2. CASE RemoveClient(c)
      <4>1. /\ conns' \in Seq(Connection) /\ Len(conns') = Len(conns)
            /\ \A d \in 1..Len(conns) : conns'[d] = IF d = c THEN b ELSE conns[d]
        BY <3>2, RemoveClientDoes
      <4> HIDE DEF a, b
      <4> QED
        BY <3>0, <4>1
    <3> QED
      BY <1>1, <3>1, <3>2
  <2>2. clients' \subseteq 1..Len(conns) /\ current' = current /\ timer' = timer
        /\ switches' = switches /\ faults' = faults
    BY <1>0, <1>1 DEF AddClient, RemoveClient, Wires, counters
  <2> QED
    BY <1>0, <2>1, <2>2 DEF Wires, Budget, Debt
<1>2. ASSUME NEW c \in 1..Len(conns), Receive(c) PROVE Wires' /\ Budget'
  <2>1. /\ conns' \in Seq(Connection) /\ Len(conns') = Len(conns)
        /\ \A d \in 1..Len(conns) :
             /\ conns'[d].broken = conns[d].broken
             /\ conns'[d].browser = "closed" <=> conns[d].browser = "closed"
    <3>1. conns[c].browser # "closed"
      BY <1>2 DEF Receive
    <3> DEFINE a == [conns[c] EXCEPT !.channel = Tail(@),
                       !.browser = IF Head(conns[c].channel) = Connected THEN "open" ELSE @]
    <3>2. a.broken = conns[c].broken /\ a.browser # "closed"
      BY <1>0, <3>1 DEF Connection
    <3>3. /\ conns' \in Seq(Connection) /\ Len(conns') = Len(conns)
          /\ \A d \in 1..Len(conns) : conns'[d] = IF d = c THEN a ELSE conns[d]
      BY <1>2, ReceiveDoes
    <3> HIDE DEF a
    <3> QED
      BY <3>1, <3>2, <3>3
  <2>2. clients' = clients /\ current' = current /\ timer' = timer
        /\ switches' = switches /\ faults' = faults
    BY <1>2 DEF Receive, counters
  <2> QED
    BY <1>0, <2>1, <2>2 DEF Wires, Budget, Debt
<1>3. ASSUME NEW c \in 1..Len(conns), StreamError(c) PROVE Wires' /\ Budget'
  <2>1. conns[c].browser # "closed" /\ conns[c].broken /\ c = current
    BY <1>3 DEF StreamError, OneStream
  <2>2. /\ conns' \in Seq(Connection) /\ Len(conns') = Len(conns)
        /\ conns'[c].browser = "closed"
    BY <1>0, <1>3, StreamErrorDoes DEF Connection
  <2>3. clients' = clients /\ current' = current /\ timer' = TRUE
        /\ switches' = switches /\ faults' = faults
    BY <1>3 DEF StreamError, counters
  <2> QED
    BY <1>0, <2>1, <2>2, <2>3 DEF Wires, Budget, Debt
<1>4. CASE Reconnect
  <2>1. /\ conns' \in Seq(Connection) /\ Len(conns') = Len(conns) + 1
        /\ ~conns'[Len(conns) + 1].broken
    BY <1>4, ReconnectDoes DEF New
  <2>2. /\ timer /\ ~timer' /\ timer' \in BOOLEAN /\ current' = Len(conns) + 1
        /\ clients' = clients /\ switches' = switches /\ faults' = faults
    BY <1>4 DEF Reconnect, counters
  <2> QED
    BY <1>0, <2>1, <2>2 DEF Wires, Budget, Debt
<1>5. ASSUME NEW t \in Tenants, Switch(t) PROVE Wires' /\ Budget'
  <2>1. /\ conns' \in Seq(Connection) /\ Len(conns') = Len(conns) + 1
        /\ ~conns'[Len(conns) + 1].broken
    <3>1. /\ conns' \in Seq(Connection) /\ Len(conns') = Len(conns) + 1
          /\ conns'[Len(conns) + 1] = New(t)
      BY <1>5, SwitchDoes
    <3>2. ~New(t).broken
      BY DEF New
    <3> QED
      BY <3>1, <3>2
  <2>2. /\ ~timer' /\ timer' \in BOOLEAN /\ current' = Len(conns) + 1
        /\ clients' = clients /\ switches' = switches + 1 /\ faults' = faults
    BY <1>5 DEF Switch
  <2> QED
    BY <1>0, <2>1, <2>2 DEF Wires, Budget, Debt
<1>6. ASSUME NEW c \in 1..Len(conns), Break(c) PROVE Wires' /\ Budget'
  <2>1. conns' \in Seq(Connection) /\ Len(conns') = Len(conns)
    BY <1>6, BreakDoes
  <2>2. clients' = clients /\ current' = current /\ timer' = timer
        /\ switches' = switches /\ faults' = faults + 1
    BY <1>6 DEF Break, Fault
  <2>3. conns[c].browser # "closed" /\ ~conns[c].broken /\ c = current
    BY <1>6 DEF Break, OneStream
  <2>4. Debt = 0
    BY <2>3 DEF Debt, OneStream
  <2>5. Debt' \in 0..1
    BY DEF Debt
  <2> QED
    BY <1>0, <2>1, <2>2, <2>4, <2>5 DEF Wires, Budget
<1>7. CASE Restart
  <2>1. conns' \in Seq(Connection) /\ Len(conns') = Len(conns)
    BY <1>7, RestartDoes
  <2>2. clients' = {} /\ current' = current /\ timer' = timer
        /\ switches' = switches /\ faults' = faults + 1
    BY Zenon, <1>7 DEF Restart, Fault
  <2>3. Debt' \in 0..1 /\ Debt \in 0..1
    BY DEF Debt
  <2> QED
    BY <1>0, <2>1, <2>2, <2>3 DEF Wires, Budget
<1>8. ASSUME NEW e \in Events, Broadcast(e) PROVE Wires' /\ Budget'
  <2>1. /\ conns' \in Seq(Connection) /\ Len(conns') = Len(conns)
        /\ \A d \in 1..Len(conns) :
             conns'[d].broken = conns[d].broken /\ conns'[d].browser = conns[d].browser
    BY <1>0, <1>8, BroadcastDoes DEF Connection
  <2>2. clients' = clients /\ current' = current /\ timer' = timer
        /\ switches' = switches /\ faults' = faults
    BY <1>8 DEF Broadcast, counters
  <2> QED
    BY <1>0, <2>1, <2>2 DEF Wires, Budget, Debt
<1>9. ASSUME NEW i \in DOMAIN fetches, AnswerFetch(i) \/ FetchReturns(i) \/ FetchFails(i)
      PROVE  Wires' /\ Budget'
  <2>1. /\ conns' = conns /\ clients' = clients /\ current' = current /\ timer' = timer
        /\ switches' = switches /\ faults' \in {faults, faults + 1}
    BY <1>9 DEF AnswerFetch, FetchReturns, FetchFails, Fault, stream, counters
  <2>2. Debt' = Debt /\ Debt \in 0..1
    BY <2>1 DEF Debt
  <2> QED
    BY <1>0, <2>1, <2>2 DEF Wires, Budget
<1> QED
  BY <1>0, <1>1, <1>2, <1>3, <1>4, <1>5, <1>6, <1>7, <1>8, <1>9 DEF Next, Server, Tab

-----------------------------------------------------------------------------
(* The tab handles what its one stream brings.                             *)

LEMMA ChannelType ==
  ASSUME TypeOK, NEW d \in 1..Len(conns)
  PROVE  conns[d] \in Connection /\ conns[d].channel \in Seq(Messages)
<1>1. conns[d] \in Connection
  BY DEF TypeOK
<1> QED
  BY <1>1 DEF Connection, Messages

\* Nothing changes but what the server and the network know of connections.
LEMMA KeepsTab ==
  ASSUME TypeOK, TabInv, current' = current, timer' = timer, session' = session,
         handled' = handled, Len(conns') = Len(conns),
         \A d \in 1..Len(conns) :
           /\ conns'[d].tenant = conns[d].tenant /\ conns'[d].browser = conns[d].browser
           /\ conns'[d].channel \in {conns[d].channel, <<Connected>>}
  PROVE  TabInv'
<1>0. current \in 1..Len(conns) /\ Connected \notin Events /\ handled \in Seq(Events)
  BY StreamAssumption DEF TypeOK
<1>1. OneStream'
  BY <1>0 DEF TabInv, OneStream
<1>2. OwnContent'
  <2> SUFFICES ASSUME NEW c \in 1..Len(conns), NEW i \in 1..Len(conns'[c].channel),
                      conns'[c].channel[i] \in Events
               PROVE  EventTenant[conns'[c].channel[i]] = conns'[c].tenant
    BY DEF OwnContent
  <2>1. CASE conns'[c].channel = conns[c].channel
    BY <2>1 DEF TabInv, OwnContent
  <2>2. CASE conns'[c].channel = <<Connected>>
    BY <1>0, <2>2
  <2> QED
    BY <2>1, <2>2
<1>3. Fresh'
  <2>1. CASE conns'[current].channel = conns[current].channel
    BY <2>1 DEF TabInv, Fresh
  <2>2. CASE conns'[current].channel = <<Connected>>
    <3>1. \A k \in 1..Len(handled) : handled[k] \in Events
      BY <1>0
    <3>2. \A i \in 1..Len(conns'[current].channel) :
            i = 1 /\ conns'[current].channel[i] = Connected
      BY <2>2
    <3> QED
      BY <1>0, <3>1, <3>2 DEF Fresh
  <2> QED
    BY <1>0, <2>1, <2>2
<1>4. HandledOnce'
  BY DEF TabInv, HandledOnce
<1> QED
  BY <1>1, <1>2, <1>3, <1>4 DEF TabInv

\* The stream changes to a new, empty one, or ends.
LEMMA NewStream ==
  ASSUME TypeOK, TabInv, handled' = handled, conns' \in Seq(Connection),
         \A c \in 1..Len(conns') : c # current' => conns'[c].browser = "closed",
         timer' => conns'[current'].browser = "closed",
         conns'[current'].tenant = session', conns'[current'].channel = <<>>,
         \A c \in 1..Len(conns') : \/ conns'[c].channel = <<>>
                                   \/ /\ c <= Len(conns) /\ conns'[c].channel = conns[c].channel
                                      /\ conns'[c].tenant = conns[c].tenant
  PROVE  TabInv'
<1>1. OneStream'
  BY DEF OneStream
<1>2. OwnContent'
  <2> SUFFICES ASSUME NEW c \in 1..Len(conns'), NEW i \in 1..Len(conns'[c].channel),
                      conns'[c].channel[i] \in Events
               PROVE  EventTenant[conns'[c].channel[i]] = conns'[c].tenant
    BY DEF OwnContent
  <2>1. Len(conns) \in Nat
    BY DEF TypeOK
  <2> QED
    BY <2>1 DEF TabInv, OwnContent
<1>3. Fresh'
  BY DEF Fresh
<1>4. HandledOnce'
  BY DEF TabInv, HandledOnce
<1> QED
  BY <1>1, <1>2, <1>3, <1>4 DEF TabInv

\* An event is broadcast.
LEMMA BroadcastKeepsTab ==
  ASSUME TypeOK, TabInv, NEW e \in Events, Broadcast(e)
  PROVE  TabInv'
<1>0. /\ current \in 1..Len(conns) /\ handled \in Seq(Events) /\ conns \in Seq(Connection)
      /\ DOMAIN handled = 1..Len(handled) /\ DOMAIN conns = 1..Len(conns)
      /\ \A d \in 1..Len(conns) : conns[d] \in Connection /\ conns[d].channel \in Seq(Messages)
                                  /\ DOMAIN conns[d].channel = 1..Len(conns[d].channel)
  <2>1. /\ current \in 1..Len(conns) /\ handled \in Seq(Events) /\ conns \in Seq(Connection)
    BY DEF TypeOK
  <2>2. \A d \in 1..Len(conns) : conns[d] \in Connection /\ conns[d].channel \in Seq(Messages)
    BY ChannelType
  <2> QED
    BY <2>1, <2>2
<1>1. /\ current' = current /\ timer' = timer /\ session' = session /\ handled' = handled
      /\ \A i \in 1..Len(handled) : handled[i] # e
      /\ \A c \in 1..Len(conns) : \A i \in 1..Len(conns[c].channel) : conns[c].channel[i] # e
  BY <1>0 DEF Broadcast, Undelivered
<1>2. /\ Len(conns') = Len(conns)
      /\ \A d \in 1..Len(conns) : conns'[d].tenant = conns[d].tenant
                                  /\ conns'[d].browser = conns[d].browser
      /\ \A d \in 1..Len(conns) :
           \/ conns'[d].channel = conns[d].channel
           \/ /\ conns[d].tenant = EventTenant[e]
              /\ conns'[d].channel = Append(conns[d].channel, e)
  <2> DEFINE a(d) == [conns[d] EXCEPT !.channel = Append(@, e)]
  <2>1. Len(conns') = Len(conns)
        /\ \A d \in 1..Len(conns) : conns'[d] = IF d \in Recipients(e) THEN a(d) ELSE conns[d]
    BY BroadcastDoes
  <2>2. \A d \in 1..Len(conns) : /\ a(d).tenant = conns[d].tenant
                                 /\ a(d).browser = conns[d].browser
                                 /\ a(d).channel = Append(conns[d].channel, e)
    BY <1>0 DEF Connection
  <2>3. \A d \in Recipients(e) : conns[d].tenant = EventTenant[e]
    BY DEF Recipients
  <2> HIDE DEF a
  <2> QED
    BY <2>1, <2>2, <2>3
<1>3. \A d \in 1..Len(conns) : \A i \in 1..Len(conns'[d].channel) :
        \/ i \in 1..Len(conns[d].channel) /\ conns'[d].channel[i] = conns[d].channel[i]
        \/ i = Len(conns[d].channel) + 1 /\ conns'[d].channel[i] = e
           /\ conns[d].tenant = EventTenant[e]
  <2> TAKE d \in 1..Len(conns)
  <2>1. conns[d].channel \in Seq(Messages) /\ e \in Messages
    BY <1>0 DEF Messages
  <2>2. CASE conns'[d].channel = conns[d].channel
    BY <2>2
  <2>3. CASE conns[d].tenant = EventTenant[e] /\ conns'[d].channel = Append(conns[d].channel, e)
    BY <2>1, <2>3
  <2> QED
    BY <1>2, <2>2, <2>3
<1>4. OneStream'
  BY <1>0, <1>1, <1>2 DEF TabInv, OneStream
<1>5. OwnContent'
  BY <1>2, <1>3 DEF TabInv, OwnContent
<1>6. Fresh'
  <2> DEFINE old == conns[current].channel
             now == conns'[current].channel
             n == Len(old)
  <2>1. /\ n \in Nat
        /\ \A i \in 1..Len(now) :
             \/ i \in 1..n /\ now[i] = old[i] /\ old[i] # e
             \/ i = n + 1 /\ now[i] = e
    <3>1. n \in Nat /\ current \in 1..Len(conns)
      BY <1>0
    <3>2. \A i \in 1..n : old[i] # e
      BY <1>1, <3>1
    <3>3. \A i \in 1..Len(now) :
            \/ i \in 1..n /\ now[i] = old[i]
            \/ i = n + 1 /\ now[i] = e
      BY <1>3, <3>1
    <3> HIDE DEF n, old, now
    <3> QED
      BY <3>1, <3>2, <3>3
  <2>2. /\ \A i, j \in 1..n : i # j /\ old[i] \in Events => old[i] # old[j]
        /\ \A i \in 1..n, k \in 1..Len(handled) : old[i] # handled[k]
    BY DEF TabInv, Fresh
  <2> HIDE DEF old, n, now
  <2>3. \A i \in 1..Len(now), k \in 1..Len(handled) : now[i] # handled[k]
    BY <1>1, <2>1, <2>2
  <2>4. \A i, j \in 1..Len(now) : i # j /\ now[i] \in Events => now[i] # now[j]
    BY <2>1, <2>2
  <2> QED
    BY <1>1, <2>3, <2>4 DEF Fresh, now
<1>7. HandledOnce'
  BY <1>1 DEF TabInv, HandledOnce
<1> QED
  BY <1>4, <1>5, <1>6, <1>7 DEF TabInv

\* The tab handles the next message of its stream.
LEMMA ReceiveKeepsTab ==
  ASSUME TypeOK, TabInv, NEW c \in 1..Len(conns), Receive(c)
  PROVE  /\ TabInv'
         /\ handled' # handled => EventTenant[handled'[Len(handled')]] = session
<1> DEFINE ch == conns[c].channel
           m == Head(ch)
           a == [conns[c] EXCEPT !.channel = Tail(@), !.browser = IF m = Connected THEN "open" ELSE @]
<1>0. /\ current \in 1..Len(conns) /\ handled \in Seq(Events) /\ Connected \notin Events
      /\ \A d \in 1..Len(conns) : conns[d] \in Connection
      /\ ch \in Seq(Messages) /\ ch # <<>> /\ conns[c].browser # "closed"
      /\ DOMAIN handled = 1..Len(handled)
  <2>1. /\ current \in 1..Len(conns) /\ handled \in Seq(Events) /\ conns \in Seq(Connection)
        /\ Connected \notin Events
    BY StreamAssumption DEF TypeOK
  <2>2. \A d \in 1..Len(conns) : conns[d] \in Connection /\ conns[d].channel \in Seq(Messages)
    BY ChannelType
  <2>3. ch # <<>> /\ conns[c].browser # "closed"
    BY DEF Receive
  <2> QED
    BY <2>1, <2>2, <2>3
<1>1. c = current /\ ~timer
  BY <1>0 DEF TabInv, OneStream
<1>2. /\ Len(conns') = Len(conns) /\ conns'[c].tenant = conns[c].tenant
      /\ conns'[c].channel = Tail(ch)
      /\ \A d \in 1..Len(conns) : d # c => conns'[d] = conns[d]
  <2>1. /\ a.tenant = conns[c].tenant /\ a.channel = Tail(ch)
    BY <1>0 DEF Connection
  <2>2. /\ Len(conns') = Len(conns)
        /\ \A d \in 1..Len(conns) : conns'[d] = IF d = c THEN a ELSE conns[d]
    BY ReceiveDoes
  <2> HIDE DEF a
  <2> QED
    BY <2>1, <2>2
<1>3. /\ m \in Messages /\ m = ch[1] /\ Len(Tail(ch)) = Len(ch) - 1 /\ Len(ch) \in Nat \ {0}
      /\ \A i \in 1..Len(Tail(ch)) : Tail(ch)[i] = ch[i + 1] /\ i + 1 \in 1..Len(ch)
      /\ 1 \in 1..Len(ch)
  BY <1>0, HeadTailProperties
<1>4. /\ current' = current /\ timer' = timer /\ session' = session
      /\ m = Connected => handled' = handled
      /\ m # Connected => handled' = Append(handled, m)
  BY DEF Receive, Handle
<1> HIDE DEF ch, m, a
<1>5. OneStream'
  BY <1>0, <1>1, <1>2, <1>4 DEF TabInv, OneStream
<1>6. OwnContent'
  <2> SUFFICES ASSUME NEW d \in 1..Len(conns), NEW i \in 1..Len(conns'[d].channel),
                      conns'[d].channel[i] \in Events
               PROVE  EventTenant[conns'[d].channel[i]] = conns'[d].tenant
    BY <1>2 DEF OwnContent
  <2>1. CASE d # c
    BY <1>2, <2>1 DEF TabInv, OwnContent
  <2>2. CASE d = c
    <3>1. i \in 1..Len(Tail(ch)) /\ conns'[d].channel[i] = ch[i + 1] /\ i + 1 \in 1..Len(ch)
      BY <1>2, <1>3, <2>2
    <3> QED
      BY <1>2, <2>2, <3>1 DEF TabInv, OwnContent, ch
  <2> QED
    BY <2>1, <2>2
<1>7. /\ \A i, j \in 1..Len(ch) : i # j /\ ch[i] \in Events => ch[i] # ch[j]
      /\ \A i \in 1..Len(ch), k \in 1..Len(handled) : ch[i] # handled[k]
  BY <1>1 DEF TabInv, Fresh, ch
<1>8. \A i, j \in 1..Len(Tail(ch)) :
        i # j /\ Tail(ch)[i] \in Events => Tail(ch)[i] # Tail(ch)[j]
  BY <1>3, <1>7
<1>f. conns'[current'].channel = Tail(ch)
  BY <1>1, <1>2, <1>4
<1>9. CASE m = Connected
  <2>1. Fresh'
    <3>1. handled' = handled
      BY <1>4, <1>9
    <3>2. \A i \in 1..Len(Tail(ch)), k \in 1..Len(handled) : Tail(ch)[i] # handled[k]
      BY <1>3, <1>7
    <3> QED
      BY <1>f, <1>8, <3>1, <3>2 DEF Fresh
  <2>2. HandledOnce'
    BY <1>4, <1>9 DEF TabInv, HandledOnce
  <2> QED
    BY <1>4, <1>5, <1>6, <1>9, <2>1, <2>2 DEF TabInv
<1>10. CASE m # Connected
  <2>0. m \in Events
    BY <1>3, <1>10 DEF Messages
  <2>1. /\ Len(handled') = Len(handled) + 1 /\ handled'[Len(handled) + 1] = m
        /\ \A k \in 1..Len(handled) : handled'[k] = handled[k]
        /\ DOMAIN handled' = 1..(Len(handled) + 1) /\ Len(handled) \in Nat
    BY <1>0, <1>4, <1>10, <2>0
  <2>2. \A i \in 1..Len(Tail(ch)), k \in 1..Len(handled') : Tail(ch)[i] # handled'[k]
    <3> SUFFICES ASSUME NEW i \in 1..Len(Tail(ch)), NEW k \in 1..Len(handled')
                 PROVE  Tail(ch)[i] # handled'[k]
      OBVIOUS
    <3>1. CASE k \in 1..Len(handled)
      BY <1>3, <1>7, <2>1, <3>1
    <3>2. CASE k = Len(handled) + 1
      BY <1>3, <1>7, <2>0, <2>1, <3>2
    <3> QED
      BY <2>1, <3>1, <3>2
  <2>3. Fresh'
    BY <1>f, <1>8, <2>2 DEF Fresh
  <2>4. HandledOnce'
    <3> SUFFICES ASSUME NEW i \in 1..(Len(handled) + 1), NEW j \in 1..(Len(handled) + 1), i # j
                 PROVE  handled'[i] # handled'[j]
      BY <2>1 DEF HandledOnce
    <3>1. \A k \in 1..Len(handled) : handled[k] # m
      BY <1>3, <1>7
    <3>2. \A k, l \in 1..Len(handled) : k # l => handled[k] # handled[l]
      BY <1>0 DEF TabInv, HandledOnce
    <3> QED
      BY <2>1, <3>1, <3>2
  <2>5. EventTenant[m] = session
    <3>1. EventTenant[ch[1]] = conns[c].tenant
      BY <1>3, <2>0 DEF TabInv, OwnContent, ch
    <3> QED
      BY <1>1, <1>3, <3>1 DEF TabInv, OneStream
  <2> QED
    BY <1>5, <1>6, <2>1, <2>3, <2>4, <2>5 DEF TabInv
<1> QED
  BY <1>9, <1>10

\* Every other step leaves the stream alone, ends it or begins another.
LEMMA TabStep ==
  ASSUME TypeOK, Wires', TabInv, Next
  PROVE  /\ TabInv'
         /\ handled' # handled => EventTenant[handled'[Len(handled')]] = session
<1>0. /\ current \in 1..Len(conns) /\ Len(conns) \in Nat /\ conns' \in Seq(Connection)
      /\ \A d \in 1..Len(conns) : conns[d] \in Connection
      /\ DOMAIN conns = 1..Len(conns)
  BY DEF TypeOK, Wires
<1>1. ASSUME NEW c \in 1..Len(conns), AddClient(c) \/ RemoveClient(c) \/ Break(c)
      PROVE  TabInv' /\ handled' = handled
  <2> DEFINE a == [conns[c] EXCEPT !.server = "registered", !.channel = <<Connected>>]
             b == [conns[c] EXCEPT !.server = "gone"]
             k == [conns[c] EXCEPT !.broken = TRUE]
  <2>1. \A r \in {a, b, k} :
          /\ r.tenant = conns[c].tenant /\ r.browser = conns[c].browser
          /\ r.channel \in {conns[c].channel, <<Connected>>}
    BY <1>0 DEF Connection
  <2>2. /\ Len(conns') = Len(conns)
        /\ \A d \in 1..Len(conns) : d # c => conns'[d] = conns[d]
        /\ conns'[c] \in {a, b, k}
    <3> HIDE DEF a, b, k
    <3>1. CASE AddClient(c)
      BY <3>1, AddClientDoes DEF a
    <3>2. CASE RemoveClient(c)
      BY <3>2, RemoveClientDoes DEF b
    <3>3. CASE Break(c)
      BY <3>3, BreakDoes DEF k
    <3> QED
      BY <1>1, <3>1, <3>2, <3>3
  <2>3. /\ current' = current /\ timer' = timer /\ session' = session /\ handled' = handled
    BY <1>1 DEF AddClient, RemoveClient, Break, history
  <2>4. \A d \in 1..Len(conns) :
          /\ conns'[d].tenant = conns[d].tenant /\ conns'[d].browser = conns[d].browser
          /\ conns'[d].channel \in {conns[d].channel, <<Connected>>}
    <3> HIDE DEF a, b, k
    <3> QED
      BY <2>1, <2>2
  <2> HIDE DEF a, b, k
  <2> QED
    BY <2>2, <2>3, <2>4, KeepsTab
<1>2. CASE Restart
  <2> DEFINE a(d) == [conns[d] EXCEPT !.broken = TRUE, !.server = "gone"]
  <2>1. \A d \in 1..Len(conns) : a(d).tenant = conns[d].tenant
          /\ a(d).browser = conns[d].browser /\ a(d).channel = conns[d].channel
    BY <1>0 DEF Connection
  <2>2. /\ Len(conns') = Len(conns)
        /\ \A d \in 1..Len(conns) : conns'[d] = IF d \in clients THEN a(d) ELSE conns[d]
    BY <1>2, RestartDoes
  <2> HIDE DEF a
  <2>3. /\ current' = current /\ timer' = timer /\ session' = session /\ handled' = handled
    BY Zenon, <1>2 DEF Restart, history
  <2> QED
    BY <2>1, <2>2, <2>3, KeepsTab
<1>3. ASSUME NEW i \in DOMAIN fetches, AnswerFetch(i) \/ FetchReturns(i) \/ FetchFails(i)
      PROVE  TabInv' /\ handled' = handled
  <2>1. /\ current' = current /\ timer' = timer /\ session' = session /\ handled' = handled
        /\ conns' = conns
    BY <1>3 DEF AnswerFetch, FetchReturns, FetchFails, stream, history
  <2> QED
    BY <2>1, KeepsTab
<1>4. ASSUME NEW c \in 1..Len(conns), StreamError(c) PROVE TabInv' /\ handled' = handled
  <2> DEFINE a == [conns[c] EXCEPT !.browser = "closed", !.channel = <<>>]
  <2>1. a.tenant = conns[c].tenant /\ a.browser = "closed" /\ a.channel = <<>>
    BY <1>0 DEF Connection
  <2>2. /\ Len(conns') = Len(conns)
        /\ \A d \in 1..Len(conns) : conns'[d] = IF d = c THEN a ELSE conns[d]
    BY <1>4, StreamErrorDoes
  <2> HIDE DEF a
  <2>3. c = current /\ current' = current /\ session' = session /\ handled' = handled
    BY <1>4 DEF StreamError, TabInv, OneStream
  <2> QED
    BY <1>0, <2>1, <2>2, <2>3, NewStream DEF TabInv, OneStream
<1>5. CASE Reconnect
  <2>1. /\ Len(conns') = Len(conns) + 1
        /\ \A d \in 1..Len(conns) : conns'[d] = conns[d]
        /\ conns'[Len(conns) + 1] = New(conns[current].tenant)
    BY <1>5, ReconnectDoes
  <2>2. New(conns[current].tenant).tenant = conns[current].tenant
        /\ New(conns[current].tenant).channel = <<>>
    BY DEF New
  <2>3. /\ timer /\ ~timer' /\ current' = Len(conns) + 1
        /\ session' = session /\ handled' = handled
    BY <1>5 DEF Reconnect, history
  <2>4. \A d \in 1..Len(conns) : conns[d].browser = "closed"
    BY <1>0, <2>3 DEF TabInv, OneStream
  <2>5. conns[current].tenant = session
    BY DEF TabInv, OneStream
  <2> QED
    BY <1>0, <2>1, <2>2, <2>3, <2>4, <2>5, NewStream
<1>6. ASSUME NEW t \in Tenants, Switch(t) PROVE TabInv' /\ handled' = handled
  <2> DEFINE a == [conns[current] EXCEPT !.browser = "closed", !.channel = <<>>]
  <2>1. a.tenant = conns[current].tenant /\ a.browser = "closed" /\ a.channel = <<>>
        /\ New(t).tenant = t /\ New(t).channel = <<>>
    BY <1>0 DEF Connection, New
  <2>2. /\ Len(conns') = Len(conns) + 1
        /\ conns'[current] = a
        /\ \A d \in 1..Len(conns) : d # current => conns'[d] = conns[d]
        /\ conns'[Len(conns) + 1] = New(t)
    BY <1>0, <1>6, SwitchDoes
  <2> HIDE DEF a
  <2>3. ~timer' /\ current' = Len(conns) + 1 /\ session' = t /\ handled' = handled
    BY <1>6 DEF Switch
  <2>4. \A d \in 1..Len(conns) : d # current => conns[d].browser = "closed"
    BY DEF TabInv, OneStream
  <2> QED
    BY <1>0, <2>1, <2>2, <2>3, <2>4, NewStream
<1>7. ASSUME NEW e \in Events, Broadcast(e) PROVE TabInv' /\ handled' = handled
  BY <1>7, BroadcastKeepsTab DEF Broadcast
<1> QED
  BY <1>0, <1>1, <1>2, <1>3, <1>4, <1>5, <1>6, <1>7, ReceiveKeepsTab DEF Next, Server, Tab

LEMMA TabInit == Init => Budget /\ TabInv
<1> SUFFICES ASSUME Init PROVE Budget /\ TabInv
  OBVIOUS
<1>1. /\ Len(conns) = 1 /\ current = 1 /\ conns[1] = New(session) /\ ~timer
      /\ handled = <<>> /\ switches = 0 /\ faults = 0
  BY DEF Init
<1>2. /\ New(session).tenant = session /\ New(session).channel = <<>>
      /\ New(session).broken = FALSE
  BY DEF New
<1>3. Budget
  BY <1>1, <1>2 DEF Budget, Debt
<1>4. OneStream
  BY <1>1, <1>2 DEF OneStream
<1>5. OwnContent /\ Fresh /\ HandledOnce
  BY <1>1, <1>2 DEF OwnContent, Fresh, HandledOnce
<1> QED
  BY <1>3, <1>4, <1>5 DEF TabInv

LEMMA StutterKeeps ==
  ASSUME TypeOK, Budget, TabInv, UNCHANGED vars
  PROVE  TypeOK' /\ Budget' /\ TabInv'
<1>1. /\ session' = session /\ current' = current /\ timer' = timer /\ conns' = conns
      /\ clients' = clients /\ store' = store /\ fetches' = fetches /\ page' = page
      /\ handled' = handled /\ missed' = missed /\ overtaken' = overtaken
      /\ switches' = switches /\ faults' = faults
  BY DEF vars, stream, lists, history, counters
<1>2. TypeOK'
  BY <1>1 DEF TypeOK
<1>3. Budget'
  BY <1>1 DEF Budget, Debt
<1>4. TabInv'
  BY <1>1, KeepsTab
<1> QED
  BY <1>2, <1>3, <1>4

\* Connections, lists and counters keep their types; the tab opens no more
\* connections than switches and faults call for.
LEMMA StreamStep == TypeOK /\ Budget /\ TabInv /\ [Next]_vars => TypeOK' /\ Budget' /\ TabInv'
<1> SUFFICES ASSUME TypeOK, Budget, TabInv, [Next]_vars PROVE TypeOK' /\ Budget' /\ TabInv'
  OBVIOUS
<1>1. CASE UNCHANGED vars
  BY <1>1, StutterKeeps
<1>2. CASE Next
  <2>1. Others' /\ Wires' /\ Budget'
    BY <1>2, OthersStep, WiresStep DEF TabInv
  <2>2. TabInv'
    BY <1>2, <2>1, TabStep
  <2>3. Len(conns)' <= 1 + switches' + faults'
    <3>1. Debt' \in 0..1
      BY DEF Debt
    <3>2. Len(conns)' \in Nat /\ switches' \in Nat /\ faults' \in Nat
      BY <2>1, StreamAssumption DEF Wires, Others
    <3> QED
      BY <2>1, <3>1, <3>2 DEF Budget
  <2> QED
    BY <2>1, <2>2, <2>3 DEF TypeOK, Others, Wires
<1> QED
  BY <1>1, <1>2

\* The stream of the tab, for every number of tenants, events, switches and
\* faults.
THEOREM StreamInvariant == FairSpec => [](TypeOK /\ Budget /\ TabInv)
<1>1. Init => TypeOK /\ Budget /\ TabInv
  BY InitType, TabInit
<1> QED
  BY <1>1, StreamStep, PTL DEF FairSpec, Spec

\* Every variable keeps its type, and the number of connections its bound.
THEOREM StreamTypes == FairSpec => []TypeOK
<1>1. TypeOK /\ Budget /\ TabInv => TypeOK
  OBVIOUS
<1> QED
  BY <1>1, StreamInvariant, PTL

\* However connections break, and however often the user switches: no event is
\* handled twice.
THEOREM NothingIsHandledTwice == FairSpec => []HandledOnce
<1>1. TypeOK /\ Budget /\ TabInv => HandledOnce
  BY DEF TabInv
<1> QED
  BY <1>1, StreamInvariant, PTL

\* No event of a tenant that the user has left reaches the tab.
THEOREM NoForeignEvent == FairSpec => OwnTenantOnly
<1>1. TypeOK /\ Budget /\ TabInv /\ [Next]_vars =>
        [handled' # handled => EventTenant[handled'[Len(handled')]] = session]_vars
  <2> SUFFICES ASSUME TypeOK, Budget, TabInv, Next
               PROVE  handled' # handled => EventTenant[handled'[Len(handled')]] = session
    OBVIOUS
  <2>1. Wires'
    BY WiresStep DEF TabInv
  <2> QED
    BY <2>1, TabStep
<1> QED
  BY <1>1, StreamInvariant, PTL DEF FairSpec, Spec, OwnTenantOnly

-----------------------------------------------------------------------------
(* What the page misses is what no stream could bring: every event of the  *)
(* tenant is missed, or on its way, or will be in the list the page asked  *)
(* for last.                                                               *)

\* the last request for the list, or the list itself, has the event
Asked(e) ==
  IF fetches = <<>> THEN e \in page
  ELSE /\ fetches[Len(fetches)].tenant = session
       /\ fetches[Len(fetches)].answered => e \in fetches[Len(fetches)].list

OnItsWay(e) ==
  /\ conns[current].browser # "closed"
  /\ \E i \in 1..Len(conns[current].channel) : conns[current].channel[i] = e

\* the server writes to connections it has registered only
Served ==
  \A c \in 1..Len(conns) :
    /\ c \in clients => conns[c].server = "registered"
    /\ conns[c].server = "none" => conns[c].channel = <<>>

Reached ==
  ~overtaken => \A e \in InList(session) : e \in missed \/ OnItsWay(e) \/ Asked(e)

\* Nothing of what the page relies on changes, but that events are added to
\* what is missed.
LEMMA KeepsReached ==
  ASSUME TypeOK, Reached, session' = session, store' = store, current' = current,
         fetches' = fetches, page' = page, overtaken' = overtaken, missed \subseteq missed',
         conns'[current].browser # "closed" <=> conns[current].browser # "closed",
         \A e \in Events : (\E i \in 1..Len(conns[current].channel) : conns[current].channel[i] = e)
            => (\E i \in 1..Len(conns'[current].channel) : conns'[current].channel[i] = e)
  PROVE  Reached'
<1> SUFFICES ASSUME ~overtaken, NEW e \in Events, e \in InList(session)
             PROVE  e \in missed' \/ OnItsWay(e)' \/ Asked(e)'
  BY DEF Reached, InList
<1>1. e \in missed \/ OnItsWay(e) \/ Asked(e)
  BY DEF Reached
<1>2. OnItsWay(e) => OnItsWay(e)'
  BY DEF OnItsWay
<1>3. Asked(e) => Asked(e)'
  BY DEF Asked
<1> QED
  BY <1>1, <1>2, <1>3

\* The page has just asked for the list of its session.
LEMMA AskingReaches ==
  ASSUME NEW s \in Seq(Fetch), fetches' = Append(s, Request(session'))
  PROVE  Reached'
<1>1. /\ fetches' # <<>> /\ fetches'[Len(fetches')] = Request(session')
  BY NewType DEF Request, Fetch
<1>2. Request(session').tenant = session' /\ Request(session').answered = FALSE
  BY DEF Request
<1>3. \A e \in InList(session)' : Asked(e)'
  BY <1>1, <1>2 DEF Asked
<1> QED
  BY <1>3 DEF Reached

LEMMA ServedStep ==
  ASSUME TypeOK, Served, Next
  PROVE  Served'
<1>0. /\ current \in 1..Len(conns) /\ Len(conns) \in Nat /\ clients \subseteq 1..Len(conns)
      /\ \A d \in 1..Len(conns) : conns[d] \in Connection
      /\ DOMAIN conns = 1..Len(conns)
  BY DEF TypeOK
<1>1. ASSUME NEW c \in 1..Len(conns), AddClient(c) PROVE Served'
  <2> DEFINE a == [conns[c] EXCEPT !.server = "registered", !.channel = <<Connected>>]
  <2>1. a.server = "registered"
    BY <1>0 DEF Connection
  <2>2. /\ Len(conns') = Len(conns)
        /\ \A d \in 1..Len(conns) : conns'[d] = IF d = c THEN a ELSE conns[d]
    BY <1>1, AddClientDoes
  <2>3. clients' = clients \cup {c}
    BY <1>1 DEF AddClient
  <2> HIDE DEF a
  <2> QED
    BY <2>1, <2>2, <2>3 DEF Served
<1>2. ASSUME NEW c \in 1..Len(conns), RemoveClient(c) PROVE Served'
  <2> DEFINE a == [conns[c] EXCEPT !.server = "gone"]
  <2>1. a.server = "gone"
    BY <1>0 DEF Connection
  <2>2. /\ Len(conns') = Len(conns)
        /\ \A d \in 1..Len(conns) : conns'[d] = IF d = c THEN a ELSE conns[d]
    BY <1>2, RemoveClientDoes
  <2>3. clients' = clients \ {c}
    BY <1>2 DEF RemoveClient
  <2> HIDE DEF a
  <2> QED
    BY <2>1, <2>2, <2>3 DEF Served
<1>3. ASSUME NEW c \in 1..Len(conns), Break(c) \/ StreamError(c) \/ Receive(c) PROVE Served'
  <2> DEFINE b == [conns[c] EXCEPT !.broken = TRUE]
             k == [conns[c] EXCEPT !.browser = "closed", !.channel = <<>>]
             r == [conns[c] EXCEPT !.channel = Tail(@),
                     !.browser = IF Head(conns[c].channel) = Connected THEN "open" ELSE @]
  <2>1. /\ b.server = conns[c].server /\ k.server = conns[c].server /\ r.server = conns[c].server
        /\ b.channel = conns[c].channel /\ k.channel = <<>>
    BY <1>0 DEF Connection
  <2>2. clients' = clients
    BY <1>3 DEF Break, StreamError, Receive
  <2>3. CASE Break(c)
    <3>1. /\ Len(conns') = Len(conns)
          /\ \A d \in 1..Len(conns) : conns'[d] = IF d = c THEN b ELSE conns[d]
      BY <2>3, BreakDoes
    <3> HIDE DEF b
    <3> QED
      BY <2>1, <2>2, <3>1 DEF Served
  <2>4. CASE StreamError(c)
    <3>1. /\ Len(conns') = Len(conns)
          /\ \A d \in 1..Len(conns) : conns'[d] = IF d = c THEN k ELSE conns[d]
      BY <2>4, StreamErrorDoes
    <3> HIDE DEF k
    <3> QED
      BY <2>1, <2>2, <3>1 DEF Served
  <2>5. CASE Receive(c)
    <3>1. /\ Len(conns') = Len(conns)
          /\ \A d \in 1..Len(conns) : conns'[d] = IF d = c THEN r ELSE conns[d]
      BY <2>5, ReceiveDoes
    <3>2. conns[c].server # "none"
      BY <2>5 DEF Receive, Served
    <3> HIDE DEF r
    <3> QED
      BY <2>1, <2>2, <3>1, <3>2 DEF Served
  <2> QED
    BY <1>3, <2>3, <2>4, <2>5
<1>4. CASE Restart
  <2> DEFINE a(d) == [conns[d] EXCEPT !.broken = TRUE, !.server = "gone"]
  <2>1. \A d \in 1..Len(conns) : a(d).server = "gone"
    BY <1>0 DEF Connection
  <2>2. /\ Len(conns') = Len(conns)
        /\ \A d \in 1..Len(conns) : conns'[d] = IF d \in clients THEN a(d) ELSE conns[d]
    BY <1>4, RestartDoes
  <2>3. clients' = {}
    BY Zenon, <1>4 DEF Restart
  <2> HIDE DEF a
  <2> QED
    BY <2>1, <2>2, <2>3 DEF Served
<1>5. ASSUME NEW e \in Events, Broadcast(e) PROVE Served'
  <2> DEFINE a(d) == [conns[d] EXCEPT !.channel = Append(@, e)]
  <2>1. \A d \in 1..Len(conns) : a(d).server = conns[d].server
    BY <1>0 DEF Connection
  <2>2. /\ Len(conns') = Len(conns)
        /\ \A d \in 1..Len(conns) : conns'[d] = IF d \in Recipients(e) THEN a(d) ELSE conns[d]
    BY <1>5, BroadcastDoes
  <2>3. clients' = clients /\ Recipients(e) \subseteq clients
    BY <1>5 DEF Broadcast, Recipients
  <2> HIDE DEF a
  <2> QED
    BY <2>1, <2>2, <2>3 DEF Served
<1>6. CASE Reconnect
  <2>1. /\ Len(conns') = Len(conns) + 1
        /\ \A d \in 1..Len(conns) : conns'[d] = conns[d]
        /\ conns'[Len(conns) + 1].channel = <<>>
    BY <1>6, ReconnectDoes DEF New
  <2>2. clients' = clients
    BY <1>6 DEF Reconnect
  <2> QED
    BY <1>0, <2>1, <2>2 DEF Served
<1>7. ASSUME NEW t \in Tenants, Switch(t) PROVE Served'
  <2> DEFINE a == [conns[current] EXCEPT !.browser = "closed", !.channel = <<>>]
  <2>1. a.server = conns[current].server /\ a.channel = <<>> /\ New(t).channel = <<>>
    BY <1>0 DEF Connection, New
  <2>2. /\ Len(conns') = Len(conns) + 1
        /\ conns'[current] = a
        /\ \A d \in 1..Len(conns) : d # current => conns'[d] = conns[d]
        /\ conns'[Len(conns) + 1] = New(t)
    BY <1>0, <1>7, SwitchDoes
  <2>3. clients' = clients
    BY <1>7 DEF Switch
  <2> HIDE DEF a
  <2> QED
    BY <1>0, <2>1, <2>2, <2>3 DEF Served
<1>8. ASSUME NEW i \in DOMAIN fetches, AnswerFetch(i) \/ FetchReturns(i) \/ FetchFails(i)
      PROVE  Served'
  <2>1. clients' = clients /\ conns' = conns
    BY <1>8 DEF AnswerFetch, FetchReturns, FetchFails, stream
  <2> QED
    BY <2>1 DEF Served
<1> QED
  BY <1>0, <1>1, <1>2, <1>3, <1>4, <1>5, <1>6, <1>7, <1>8 DEF Next, Server, Tab

\* An event is broadcast: a stream of the tab brings it, or it is missed.
LEMMA BroadcastReaches ==
  ASSUME TypeOK, Reached, NEW n \in Events, Broadcast(n)
  PROVE  Reached'
<1>0. /\ current \in 1..Len(conns) /\ store \in Seq(Events)
      /\ \A d \in 1..Len(conns) : conns[d] \in Connection /\ conns[d].channel \in Seq(Messages)
  BY ChannelType DEF TypeOK
<1>1. /\ session' = session /\ current' = current /\ fetches' = fetches /\ page' = page
      /\ overtaken' = overtaken /\ store' = Append(store, n) /\ missed \subseteq missed'
      /\ (\E c \in Recipients(n) : Alive(c)) \/ n \in missed'
  BY DEF Broadcast
<1> DEFINE a(d) == [conns[d] EXCEPT !.channel = Append(@, n)]
<1>2. \A d \in 1..Len(conns) : /\ a(d).browser = conns[d].browser
                               /\ a(d).channel = Append(conns[d].channel, n)
  BY <1>0 DEF Connection
<1>3. conns'[current] = IF current \in Recipients(n) THEN a(current) ELSE conns[current]
  BY <1>0, BroadcastDoes
<1> HIDE DEF a
<1>4. conns'[current].browser = conns[current].browser
  BY <1>0, <1>2, <1>3
<1>5. \A i \in 1..Len(conns[current].channel) :
        /\ i \in 1..Len(conns'[current].channel)
        /\ conns'[current].channel[i] = conns[current].channel[i]
  <2>1. CASE current \in Recipients(n)
    <3>1. conns'[current].channel = Append(conns[current].channel, n)
      BY <1>0, <1>2, <1>3, <2>1
    <3>2. conns[current].channel \in Seq(Messages) /\ n \in Messages
      BY <1>0 DEF Messages
    <3> QED
      BY <3>1, <3>2
  <2>2. CASE current \notin Recipients(n)
    BY <1>0, <1>3, <2>2
  <2> QED
    BY <2>1, <2>2
<1>6. InList(session)' \subseteq InList(session) \cup {n}
  BY <1>0, <1>1 DEF InList
<1>7. ASSUME ~overtaken, NEW e \in InList(session) PROVE e \in missed' \/ OnItsWay(e)' \/ Asked(e)'
  <2>1. e \in missed \/ OnItsWay(e) \/ Asked(e)
    BY <1>7 DEF Reached
  <2>2. OnItsWay(e) => OnItsWay(e)'
    BY <1>1, <1>4, <1>5 DEF OnItsWay
  <2>3. Asked(e) => Asked(e)'
    BY <1>1 DEF Asked
  <2> QED
    BY <1>1, <2>1, <2>2, <2>3
<1>8. n \in missed' \/ OnItsWay(n)'
  <2>1. CASE \E c \in Recipients(n) : Alive(c)
    <3>1. current \in Recipients(n) /\ conns[current].browser # "closed"
      BY <2>1 DEF Alive
    <3>2. conns'[current].channel = Append(conns[current].channel, n)
      BY <1>0, <1>2, <1>3, <3>1
    <3>3. conns[current].channel \in Seq(Messages) /\ n \in Messages
      BY <1>0 DEF Messages
    <3>4. \E i \in 1..Len(conns'[current].channel) : conns'[current].channel[i] = n
      <4>1. /\ Len(conns[current].channel) + 1 \in 1..Len(conns'[current].channel)
            /\ conns'[current].channel[Len(conns[current].channel) + 1] = n
        BY <3>2, <3>3
      <4> QED
        BY <4>1
    <3> QED
      BY <1>1, <1>4, <3>1, <3>4 DEF OnItsWay
  <2> QED
    BY <1>1, <2>1
<1> QED
  BY <1>1, <1>6, <1>7, <1>8 DEF Reached

\* The tab handles a message: an event makes the page ask.
LEMMA ReceiveReaches ==
  ASSUME TypeOK, TabInv, Reached, NEW c \in 1..Len(conns), Receive(c)
  PROVE  Reached'
<1> DEFINE m == Head(conns[c].channel)
           a == [conns[c] EXCEPT !.channel = Tail(@), !.browser = IF m = Connected THEN "open" ELSE @]
<1>0. /\ conns[c] \in Connection /\ conns[c].channel \in Seq(Messages)
      /\ conns[c].browser # "closed" /\ conns[c].channel # <<>> /\ c = current
      /\ fetches \in Seq(Fetch) /\ Connected \notin Events
  BY ChannelType, StreamAssumption DEF TypeOK, Receive, TabInv, OneStream
<1>1. /\ session' = session /\ current' = current /\ store' = store /\ page' = page
      /\ missed' = missed /\ overtaken' = overtaken
  BY DEF Receive
<1>2. CASE m # Connected
  <2>1. fetches' = Append(fetches, Request(session'))
    BY <1>1, <1>2 DEF Receive, Handle
  <2> QED
    BY <1>0, <2>1, AskingReaches
<1>3. CASE m = Connected
  <2>1. fetches' = fetches
    BY <1>3 DEF Receive, Handle
  <2>2. a.channel = Tail(conns[c].channel) /\ a.browser = "open"
    BY <1>0, <1>3 DEF Connection
  <2>3. conns'[c] = a
    BY ReceiveDoes
  <2> HIDE DEF a
  <2>4. conns'[c].channel = Tail(conns[c].channel) /\ conns'[c].browser = "open"
    BY <2>2, <2>3
  <2>5. \A i \in 1..Len(conns[c].channel) :
          i = 1 \/ (i - 1 \in 1..Len(Tail(conns[c].channel))
                    /\ Tail(conns[c].channel)[i - 1] = conns[c].channel[i])
    BY <1>0, HeadTailProperties
  <2>6. conns[c].channel[1] = Connected
    BY <1>0, <1>3
  <2>7. \A e \in Events : (\E i \in 1..Len(conns[c].channel) : conns[c].channel[i] = e)
          => (\E i \in 1..Len(conns'[c].channel) : conns'[c].channel[i] = e)
    <3> SUFFICES ASSUME NEW e \in Events, NEW i \in 1..Len(conns[c].channel), conns[c].channel[i] = e
                 PROVE  \E j \in 1..Len(conns'[c].channel) : conns'[c].channel[j] = e
      OBVIOUS
    <3>1. i # 1
      BY <1>0, <2>6
    <3>2. i - 1 \in 1..Len(conns'[c].channel) /\ conns'[c].channel[i - 1] = e
      BY <2>4, <2>5, <3>1
    <3> QED
      BY <3>2
  <2> QED
    BY <1>0, <1>1, <2>1, <2>4, <2>7, KeepsReached
<1> QED
  BY <1>2, <1>3

\* A stream ends: what it did not bring is missed.
LEMMA ErrorReaches ==
  ASSUME TypeOK, TabInv, Reached, NEW c \in 1..Len(conns), StreamError(c)
  PROVE  Reached'
<1>1. /\ session' = session /\ current' = current /\ store' = store /\ page' = page
      /\ fetches' = fetches /\ overtaken' = overtaken /\ c = current
      /\ missed' = missed \cup Undelivered(current)
  BY DEF StreamError, lists, TabInv, OneStream
<1>2. conns[current].channel \in Seq(Messages)
  BY <1>1, ChannelType
<1> SUFFICES ASSUME ~overtaken, NEW e \in Events, e \in InList(session)
             PROVE  e \in missed' \/ Asked(e)'
  BY <1>1 DEF Reached, InList
<1>3. e \in missed \/ OnItsWay(e) \/ Asked(e)
  BY DEF Reached
<1>4. OnItsWay(e) => e \in Undelivered(current)
  BY <1>2 DEF OnItsWay, Undelivered
<1>5. Asked(e) => Asked(e)'
  BY <1>1 DEF Asked
<1> QED
  BY <1>1, <1>3, <1>4, <1>5

\* The server answers with the list as it is, and what returns in order is
\* what was asked for last when nothing else is out.
LEMMA FetchReaches ==
  ASSUME TypeOK, Reached, NEW i \in 1..Len(fetches),
         AnswerFetch(i) \/ FetchReturns(i) \/ FetchFails(i)
  PROVE  Reached'
<1>0. fetches \in Seq(Fetch) /\ fetches[i] \in Fetch /\ Len(fetches) \in Nat
      /\ fetches[Len(fetches)] \in Fetch /\ fetches # <<>>
  BY DEF TypeOK
<1>1. /\ session' = session /\ current' = current /\ store' = store /\ conns' = conns
      /\ missed' = missed
  BY DEF AnswerFetch, FetchReturns, FetchFails, stream, history
<1>2. \A e : OnItsWay(e) => OnItsWay(e)'
  BY <1>1 DEF OnItsWay
<1> SUFFICES ASSUME ~overtaken', NEW e \in Events, e \in InList(session), Asked(e)
             PROVE  Asked(e)'
  <2>1. overtaken => overtaken'
    BY DEF AnswerFetch, FetchReturns, FetchFails, history
  <2> QED
    BY <1>1, <1>2, <2>1 DEF Reached, InList
<1>3. /\ fetches[Len(fetches)].tenant = session
      /\ fetches[Len(fetches)].answered => e \in fetches[Len(fetches)].list
  BY <1>0 DEF Asked
<1>4. CASE AnswerFetch(i)
  <2> DEFINE f == [fetches[i] EXCEPT !.answered = TRUE, !.list = InList(fetches[i].tenant)]
  <2>1. f.tenant = fetches[i].tenant /\ f.list = InList(fetches[i].tenant) /\ f \in Fetch
    BY <1>0 DEF Fetch, InList
  <2>2. fetches' = [fetches EXCEPT ![i] = f]
    BY <1>0, <1>4 DEF AnswerFetch
  <2> HIDE DEF f
  <2>3. /\ Len(fetches') = Len(fetches) /\ fetches' # <<>>
        /\ \A j \in 1..Len(fetches) : fetches'[j] = IF j = i THEN f ELSE fetches[j]
    BY <1>0, <2>1, <2>2, ExceptSeq
  <2>4. Len(fetches) \in 1..Len(fetches)
    BY <1>0
  <2>5. CASE i = Len(fetches)
    <3>1. fetches'[Len(fetches')] = f
      BY <2>3, <2>4, <2>5
    <3>2. f.tenant = session' /\ e \in f.list
      BY <1>1, <1>3, <2>1, <2>5
    <3> QED
      BY <2>3, <3>1, <3>2 DEF Asked
  <2>6. CASE i # Len(fetches)
    <3>1. fetches'[Len(fetches')] = fetches[Len(fetches)]
      BY <2>3, <2>4, <2>6
    <3> QED
      BY <1>1, <1>3, <2>3, <3>1 DEF Asked
  <2> QED
    BY <2>5, <2>6
<1>5. CASE FetchReturns(i)
  <2>1. i = 1 /\ fetches[1].answered /\ page' = fetches[1].list
        /\ fetches' = Without(fetches, 1)
    <3>1. ~(i > 1)
      BY <1>5 DEF FetchReturns
    <3>2. i = 1
      BY <1>0, <3>1
    <3> QED
      BY <1>5, <3>2 DEF FetchReturns
  <2>2. fetches' = Tail(fetches)
    <3>1. SubSeq(fetches, 1, 0) = <<>>
      BY SubSeqEmpty
    <3>2. Tail(fetches) = SubSeq(fetches, 2, Len(fetches)) /\ Tail(fetches) \in Seq(Fetch)
      BY <1>0, TailIsSubSeq, HeadTailProperties
    <3>3. <<>> \o Tail(fetches) = Tail(fetches)
      BY <3>2, ConcatEmptySeq
    <3>4. Without(fetches, 1) = SubSeq(fetches, 1, 0) \o SubSeq(fetches, 2, Len(fetches))
      BY DEF Without
    <3> QED
      BY <2>1, <3>1, <3>2, <3>3, <3>4
  <2>3. /\ Len(Tail(fetches)) = Len(fetches) - 1 /\ Tail(fetches) \in Seq(Fetch)
        /\ \A j \in 1..Len(Tail(fetches)) : Tail(fetches)[j] = fetches[j + 1]
    BY <1>0, HeadTailProperties
  <2>4. CASE Len(fetches) = 1
    <3>1. fetches' = <<>>
      BY <2>2, <2>3, <2>4
    <3> QED
      BY <1>3, <2>1, <2>4, <3>1 DEF Asked
  <2>5. CASE Len(fetches) # 1
    <3>0. Len(fetches) \in Nat /\ Len(fetches) >= 1
      BY <1>0
    <3>1. fetches' # <<>> /\ Len(fetches') = Len(fetches) - 1 /\ Len(fetches') \in 1..Len(fetches')
      <4>1. Len(fetches') = Len(fetches) - 1
        BY <2>2, <2>3
      <4>2. Len(fetches') # 0 /\ Len(fetches') \in 1..Len(fetches')
        BY <2>5, <3>0, <4>1
      <4> QED
        BY <4>1, <4>2
    <3>2. fetches'[Len(fetches')] = fetches[Len(fetches)]
      BY <1>0, <2>2, <2>3, <3>1
    <3> QED
      BY <1>1, <1>3, <3>1, <3>2 DEF Asked
  <2> QED
    BY <2>4, <2>5
<1>6. ~FetchFails(i)
  BY DEF FetchFails
<1> QED
  BY <1>4, <1>5, <1>6

\* What the server, the network and the tab do to a connection leaves Reached
\* alone where the tab is not told.
LEMMA ConnectionReaches ==
  ASSUME TypeOK, Served, Reached, NEW c \in 1..Len(conns),
         AddClient(c) \/ RemoveClient(c) \/ Break(c)
  PROVE  Reached'
<1> DEFINE a == [conns[c] EXCEPT !.server = "registered", !.channel = <<Connected>>]
           b == [conns[c] EXCEPT !.server = "gone"]
           k == [conns[c] EXCEPT !.broken = TRUE]
<1>0. current \in 1..Len(conns) /\ conns[c] \in Connection
  BY DEF TypeOK
<1>1. /\ session' = session /\ current' = current /\ store' = store /\ page' = page
      /\ fetches' = fetches /\ overtaken' = overtaken /\ missed' = missed
  BY DEF AddClient, RemoveClient, Break, lists, history
<1>2. /\ a.browser = conns[c].browser /\ b.browser = conns[c].browser /\ k.browser = conns[c].browser
      /\ b.channel = conns[c].channel /\ k.channel = conns[c].channel
  BY <1>0 DEF Connection
<1>3. AddClient(c) => conns[c].channel = <<>>
  BY DEF AddClient, Served
<1>4. AddClient(c) => \A d \in 1..Len(conns) : conns'[d] = IF d = c THEN a ELSE conns[d]
  BY AddClientDoes
<1>5. RemoveClient(c) => \A d \in 1..Len(conns) : conns'[d] = IF d = c THEN b ELSE conns[d]
  BY RemoveClientDoes
<1>6. Break(c) => \A d \in 1..Len(conns) : conns'[d] = IF d = c THEN k ELSE conns[d]
  BY BreakDoes
<1> HIDE DEF a, b, k
<1>7. conns'[current].browser = conns[current].browser
  BY <1>0, <1>2, <1>4, <1>5, <1>6
<1>8. conns[current].channel = <<>> \/ conns'[current].channel = conns[current].channel
  BY <1>0, <1>2, <1>3, <1>4, <1>5, <1>6
<1> QED
  BY <1>1, <1>7, <1>8, KeepsReached

\* A new stream: the one before it was closed when it had been lost.
LEMMA ReconnectReaches ==
  ASSUME TypeOK, TabInv, Reached, Reconnect
  PROVE  Reached'
<1>1. /\ session' = session /\ store' = store /\ page' = page
      /\ fetches' = fetches /\ overtaken' = overtaken /\ missed' = missed
  BY DEF Reconnect, lists, history
<1>2. conns[current].browser = "closed"
  BY DEF Reconnect, TabInv, OneStream
<1>3. \A e : ~OnItsWay(e) /\ (Asked(e) => Asked(e)')
  BY <1>1, <1>2 DEF OnItsWay, Asked
<1> QED
  BY <1>1, <1>3 DEF Reached, InList

LEMMA ReachedStep ==
  ASSUME TypeOK, TabInv, Served, Reached, Next
  PROVE  Reached'
<1>0. DOMAIN conns = 1..Len(conns) /\ DOMAIN fetches = 1..Len(fetches) /\ fetches \in Seq(Fetch)
  BY DEF TypeOK
<1>1. ASSUME NEW c \in 1..Len(conns), AddClient(c) \/ RemoveClient(c) \/ Break(c) PROVE Reached'
  BY <1>1, ConnectionReaches
<1>2. ASSUME NEW c \in 1..Len(conns), Receive(c) PROVE Reached'
  BY <1>2, ReceiveReaches
<1>3. ASSUME NEW c \in 1..Len(conns), StreamError(c) PROVE Reached'
  BY <1>3, ErrorReaches
<1>4. CASE Restart
  <2>1. store' = <<>>
    BY <1>4 DEF Restart
  <2>2. InList(session)' = {}
    BY <2>1 DEF InList
  <2> QED
    BY <2>2 DEF Reached
<1>5. ASSUME NEW e \in Events, Broadcast(e) PROVE Reached'
  BY <1>5, BroadcastReaches
<1>6. CASE Reconnect
  BY <1>6, ReconnectReaches
<1>7. ASSUME NEW t \in Tenants, Switch(t) PROVE Reached'
  <2>1. fetches' = Append(fetches, Request(session'))
    BY <1>7 DEF Switch
  <2> QED
    BY <1>0, <2>1, AskingReaches
<1>8. ASSUME NEW i \in 1..Len(fetches), AnswerFetch(i) \/ FetchReturns(i) \/ FetchFails(i)
      PROVE  Reached'
  BY <1>8, FetchReaches
<1> QED
  BY <1>0, <1>1, <1>2, <1>3, <1>4, <1>5, <1>6, <1>7, <1>8 DEF Next, Server, Tab

\* What the tab has to show of its tenant's notifications never falls out of
\* sight: a stream brings it, the page has asked for it, or it is missed.
THEOREM NothingFallsBetween == FairSpec => [](Served /\ Reached)
<1>1. Init => Served /\ Reached
  <2> SUFFICES ASSUME Init PROVE Served /\ Reached
    OBVIOUS
  <2>1. Len(conns) = 1 /\ conns[1] = New(session) /\ clients = {} /\ store = <<>>
    BY DEF Init
  <2>2. New(session).channel = <<>>
    BY DEF New
  <2>3. InList(session) = {}
    BY <2>1 DEF InList
  <2> QED
    BY <2>1, <2>2, <2>3 DEF Served, Reached
<1>2. TypeOK /\ Budget /\ TabInv /\ Served /\ Reached /\ [Next]_vars => Served' /\ Reached'
  <2>1. ASSUME Served, Reached, UNCHANGED vars PROVE Served' /\ Reached'
    BY <2>1 DEF vars, stream, lists, history, Served, Reached, InList, OnItsWay, Asked
  <2> QED
    BY <2>1, ServedStep, ReachedStep
<1> QED
  BY <1>1, <1>2, StreamInvariant, PTL DEF FairSpec, Spec

\* At rest the page lacks only what no stream could bring.
THEOREM TheListLacksOnlyGaps == FairSpec => []OnlyGapsAreMissed
<1>1. TypeOK /\ Served /\ Reached => OnlyGapsAreMissed
  <2> SUFFICES ASSUME Reached, Quiet, ~overtaken, NEW e \in InList(session), e \notin page
               PROVE  e \in missed
    BY DEF OnlyGapsAreMissed
  <2>1. fetches = <<>> /\ conns[current].channel = <<>>
    BY DEF Quiet
  <2>2. ~OnItsWay(e) /\ ~Asked(e)
    BY <2>1 DEF OnItsWay, Asked
  <2> QED
    BY <2>2 DEF Reached
<1> QED
  BY <1>1, StreamInvariant, NothingFallsBetween, PTL
=============================================================================
