----------------------------- MODULE LiveStream ------------------------------
(***************************************************************************)
(* The live stream: SSEManager of notification-service (sse.ts, the routes *)
(* of server.ts, the list of store.ts) and one browser tab of the host     *)
(* application, that is SSEContext.tsx, the session of AuthContext.tsx and *)
(* NotificationsPage.tsx, which loads its list anew for every event.       *)
(*                                                                         *)
(* A connection is known to both sides, and each learns of the other's end *)
(* in its own time.  What the server writes waits in the connection's      *)
(* channel until the tab handles it.  HTTP requests are answered in any    *)
(* order, and answers reach the tab in any order.  The badge and the toast *)
(* are left out: nothing reads them.                                       *)
(***************************************************************************)
EXTENDS Integers, Sequences, FiniteSets

CONSTANTS
  Tenants,
  Events,       \* events notification-service broadcasts, each once
  EventTenant,  \* Events -> Tenants
  Connected,    \* the handshake message
  MaxSwitches,  \* bound: tenants or users chosen in the navigation bar
  MaxFaults     \* bound: broken connections, failed requests, restarts

ASSUME StreamAssumption ==
  /\ EventTenant \in [Events -> Tenants] /\ Connected \notin Events
  /\ MaxSwitches \in Nat /\ MaxFaults \in Nat

VARIABLES
  session,   \* the tab's tenant
  current,   \* the tab's EventSource
  timer,     \* is a reconnection scheduled?
  conns,     \* all connections ever opened, the tab's and the server's view of each
  clients,   \* SSEManager: connections in the map
  store,     \* NotificationStore: events, newest last
  fetches,   \* the tab's requests for the list, oldest first
  page,      \* the list the tab shows
  handled,   \* history: events the tab has handled
  missed,    \* history: events no stream of the tab could bring it
  overtaken, \* history: has an answer overtaken an older one, or failed?
  switches, faults

stream == <<session, current, timer, conns, clients>>
lists == <<store, fetches, page>>
history == <<handled, missed, overtaken>>
counters == <<switches, faults>>
vars == <<stream, lists, history, counters>>

\* browser: readyState of the EventSource; server: has the request arrived, is its
\* client in the map; broken: the network has dropped it
Connection == [tenant : Tenants, browser : {"connecting", "open", "closed"},
               server : {"none", "registered", "gone"}, broken : BOOLEAN,
               channel : Seq(Events \cup {Connected})]

Fetch == [tenant : Tenants, answered : BOOLEAN, list : SUBSET Events]

New(t) == [tenant |-> t, browser |-> "connecting", server |-> "none",
           broken |-> FALSE, channel |-> <<>>]
Request(t) == [tenant |-> t, answered |-> FALSE, list |-> {}]

TypeOK ==
  /\ session \in Tenants
  /\ conns \in Seq(Connection) /\ current \in 1..Len(conns)
  /\ timer \in BOOLEAN /\ overtaken \in BOOLEAN
  /\ clients \subseteq 1..Len(conns)
  /\ store \in Seq(Events) /\ handled \in Seq(Events)
  /\ fetches \in Seq(Fetch)
  /\ page \subseteq Events /\ missed \subseteq Events
  /\ switches \in 0..MaxSwitches /\ faults \in 0..MaxFaults
  /\ Len(conns) <= 1 + switches + faults

\* the effects of the first rendering
Init ==
  /\ session \in Tenants
  /\ conns = <<New(session)>> /\ current = 1 /\ timer = FALSE
  /\ clients = {} /\ store = <<>>
  /\ fetches = <<Request(session)>> /\ page = {}
  /\ handled = <<>> /\ missed = {} /\ overtaken = FALSE
  /\ switches = 0 /\ faults = 0

Fault == faults < MaxFaults /\ faults' = faults + 1

InList(t) == {e \in Events : EventTenant[e] = t /\ \E i \in DOMAIN store : store[i] = e}
Undelivered(c) == {e \in Events : \E i \in DOMAIN conns[c].channel : conns[c].channel[i] = e}

\* can the tab still handle what the server writes to c?
Alive(c) ==
  c \in clients /\ c = current /\ ~conns[c].broken /\ conns[c].browser # "closed"

-----------------------------------------------------------------------------
(* notification-service                                                    *)

\* GET /api/v1/stream: addClient, and the handshake
AddClient(c) ==
  /\ conns[c].server = "none" /\ conns[c].browser = "connecting" /\ ~conns[c].broken
  /\ conns' = [conns EXCEPT ![c].server = "registered", ![c].channel = <<Connected>>]
  /\ clients' = clients \cup {c}
  /\ UNCHANGED <<session, current, timer, lists, history, counters>>

\* 'close' or 'error' of the response, or a write that throws
RemoveClient(c) ==
  /\ c \in clients /\ (conns[c].broken \/ conns[c].browser = "closed")
  /\ clients' = clients \ {c}
  /\ conns' = [conns EXCEPT ![c].server = "gone"]
  /\ UNCHANGED <<session, current, timer, lists, history, counters>>

\* Every client of the tenant: the test of the recipient has an empty body.
Recipients(e) == {c \in clients : conns[c].tenant = EventTenant[e]}

\* the consumer stores a notification and broadcasts it in one go
Broadcast(e) ==
  /\ \A i \in DOMAIN store : store[i] # e
  /\ e \notin missed /\ \A i \in DOMAIN handled : handled[i] # e
  /\ \A c \in DOMAIN conns : e \notin Undelivered(c)
  /\ store' = Append(store, e)
  /\ conns' = [c \in DOMAIN conns |->
       IF c \in Recipients(e) THEN [conns[c] EXCEPT !.channel = Append(@, e)] ELSE conns[c]]
  /\ missed' = IF \E c \in Recipients(e) : Alive(c) THEN missed ELSE missed \cup {e}
  /\ UNCHANGED <<session, current, timer, clients, fetches, page, handled, overtaken, counters>>

\* The process starts anew: streams and list are gone.
Restart ==
  /\ Fault
  /\ conns' = [c \in DOMAIN conns |->
       IF c \in clients THEN [conns[c] EXCEPT !.broken = TRUE, !.server = "gone"] ELSE conns[c]]
  /\ clients' = {} /\ store' = <<>>
  /\ UNCHANGED <<session, current, timer, fetches, page, history, switches>>

\* GET /api/v1/notifications
AnswerFetch(i) ==
  /\ ~fetches[i].answered
  /\ fetches' = [fetches EXCEPT ![i].answered = TRUE, ![i].list = InList(fetches[i].tenant)]
  /\ UNCHANGED <<stream, store, page, history, counters>>

-----------------------------------------------------------------------------
(* The network.                                                            *)

\* a connection breaks, or the request for it fails
Break(c) ==
  /\ Fault
  /\ conns[c].browser # "closed" /\ ~conns[c].broken
  /\ conns' = [conns EXCEPT ![c].broken = TRUE]
  /\ UNCHANGED <<session, current, timer, clients, lists, history, switches>>

-----------------------------------------------------------------------------
(* The tab: SSEProvider.                                                   *)

\* mutant of Handle: the list is not loaded anew
MutantHandle(c, m) ==
  /\ conns' = [conns EXCEPT ![c].channel = Tail(@),
                            ![c].browser = IF m = Connected THEN "open" ELSE @]
  /\ IF m = Connected THEN UNCHANGED <<handled, fetches>>
     ELSE handled' = Append(handled, m) /\ fetches' = fetches

\* handleIncomingEvent: refreshSignal makes the page load its list
Handle(c, m) ==
  /\ conns' = [conns EXCEPT ![c].channel = Tail(@),
                            ![c].browser = IF m = Connected THEN "open" ELSE @]
  /\ IF m = Connected THEN UNCHANGED <<handled, fetches>>
     ELSE /\ handled' = Append(handled, m)
          /\ fetches' = Append(fetches, Request(session))

\* onopen and the listeners, in the order of the stream
Receive(c) ==
  /\ conns[c].browser # "closed" /\ conns[c].channel # <<>> /\ ~conns[c].broken
  /\ Handle(c, Head(conns[c].channel))
  /\ UNCHANGED <<session, current, timer, clients, store, page, missed, overtaken, counters>>

\* mutant of StreamError: close() and no more
MutantStreamError(c) ==
  /\ conns[c].browser # "closed" /\ conns[c].broken
  /\ conns' = [conns EXCEPT ![c].browser = "closed", ![c].channel = <<>>]
  /\ missed' = missed \cup Undelivered(c)
  /\ UNCHANGED <<session, current, timer, clients, lists, handled, overtaken, counters>>

\* mutant of StreamError: the EventSource, which tries again itself, is not closed
MutantStreamError2(c) ==
  /\ conns[c].browser # "closed" /\ conns[c].broken
  /\ conns' = [conns EXCEPT ![c].channel = <<>>]
  /\ timer' = TRUE
  /\ missed' = missed \cup Undelivered(c)
  /\ UNCHANGED <<session, current, clients, lists, handled, overtaken, counters>>

\* onerror: the EventSource is closed, and opened again in three seconds
StreamError(c) ==
  /\ conns[c].browser # "closed" /\ conns[c].broken
  /\ conns' = [conns EXCEPT ![c].browser = "closed", ![c].channel = <<>>]
  /\ timer' = TRUE
  /\ missed' = missed \cup Undelivered(c)
  /\ UNCHANGED <<session, current, clients, lists, handled, overtaken, counters>>

\* the timeout runs `connect` of the effect that set it
Reconnect ==
  /\ timer /\ timer' = FALSE
  /\ conns' = Append(conns, New(conns[current].tenant))
  /\ current' = Len(conns) + 1
  /\ UNCHANGED <<session, clients, lists, history, counters>>

\* mutant of Switch: the cleanup leaves the stream open
MutantSwitch(t) ==
  /\ switches < MaxSwitches /\ switches' = switches + 1
  /\ session' = t /\ timer' = FALSE
  /\ missed' = missed \cup Undelivered(current)
  /\ conns' = Append(conns, New(t))
  /\ current' = Len(conns) + 1
  /\ fetches' = Append(fetches, Request(t))
  /\ UNCHANGED <<clients, store, page, handled, overtaken, faults>>

\* mutant of Switch: the cleanup does not clear the timeout
MutantSwitch2(t) ==
  /\ switches < MaxSwitches /\ switches' = switches + 1
  /\ session' = t /\ timer' = timer
  /\ missed' = missed \cup Undelivered(current)
  /\ conns' = Append([conns EXCEPT ![current].browser = "closed",
                                   ![current].channel = <<>>], New(t))
  /\ current' = Len(conns) + 1
  /\ fetches' = Append(fetches, Request(t))
  /\ UNCHANGED <<clients, store, page, handled, overtaken, faults>>

\* Another tenant, or another user of the same: the cleanup of the effect clears the
\* timeout and closes the stream, the effect opens one, the page loads its list.
Switch(t) ==
  /\ switches < MaxSwitches /\ switches' = switches + 1
  /\ session' = t /\ timer' = FALSE
  /\ missed' = missed \cup Undelivered(current)
  /\ conns' = Append([conns EXCEPT ![current].browser = "closed",
                                   ![current].channel = <<>>], New(t))
  /\ current' = Len(conns) + 1
  /\ fetches' = Append(fetches, Request(t))
  /\ UNCHANGED <<clients, store, page, handled, overtaken, faults>>

-----------------------------------------------------------------------------
(* The tab: NotificationsPage.                                             *)

Without(seq, i) == SubSeq(seq, 1, i - 1) \o SubSeq(seq, i + 1, Len(seq))

\* whatever has happened since the request, the answer becomes the list
FetchReturns(i) ==
  /\ fetches[i].answered
  /\ page' = fetches[i].list
  /\ fetches' = Without(fetches, i)
  /\ overtaken' = (overtaken \/ i > 1)
  /\ UNCHANGED <<stream, store, handled, missed, counters>>

\* logged, the list stays
FetchFails(i) ==
  /\ Fault
  /\ fetches' = Without(fetches, i) /\ overtaken' = TRUE
  /\ UNCHANGED <<stream, store, page, handled, missed, switches>>

Server ==
  \/ \E c \in DOMAIN conns : AddClient(c) \/ RemoveClient(c)
  \/ \E i \in DOMAIN fetches : AnswerFetch(i)

Tab ==
  \/ \E c \in DOMAIN conns : Receive(c) \/ StreamError(c)
  \/ Reconnect
  \/ \E i \in DOMAIN fetches : FetchReturns(i)

Next ==
  \/ Server \/ Tab
  \/ \E e \in Events : Broadcast(e)
  \/ \E t \in Tenants : Switch(t)
  \/ \E c \in DOMAIN conns : Break(c)
  \/ \E i \in DOMAIN fetches : FetchFails(i)
  \/ Restart

Spec == Init /\ [][Next]_vars

\* Both event loops turn, TCP tells either side of a connection that has ended, and
\* timeouts fire; requests are answered or, as a fault, fail.
FairSpec == Spec /\ WF_vars(Server) /\ WF_vars(Tab)

-----------------------------------------------------------------------------
\* The tab never handles an event of a tenant it has left: neither a stream nor a
\* timeout of the old session survives the switch.
OwnTenantOnly ==
  [][handled' # handled => EventTenant[handled'[Len(handled')]] = session]_vars

\* No event is handled twice: a tab has one stream, and a reconnection replays nothing.
HandledOnce ==
  \A i, j \in DOMAIN handled : i # j => handled[i] # handled[j]

Live(c) ==
  c \in clients /\ conns[c].browser = "open" /\ conns[c].tenant = session
Quiet ==
  fetches = <<>> /\ Live(current) /\ ~conns[current].broken /\ conns[current].channel = <<>>

\* At rest, the page shows every notification of its tenant but those that no stream
\* could bring: broadcast while the tab was connecting, or undelivered when its stream
\* ended.  Nothing loads the list again after a reconnection.  (Stated as long as no
\* answer has failed or overtaken an older one.)
OnlyGapsAreMissed ==
  Quiet /\ ~overtaken => InList(session) \ page \subseteq missed

\* Whatever breaks, in the end the tab has its stream again, and the server's map holds
\* this stream alone.
StreamComesBack == <>[](Live(current) /\ clients = {current})
=============================================================================
