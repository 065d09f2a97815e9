------------------------------ MODULE Dashboard ------------------------------
(***************************************************************************)
(* The overview page of the web dashboard (internal/api/web/js/app.js), fed*)
(* by the handlers of /api/events and /api/threats and by the live feed.   *)
(* A message of the feed makes the page fetch the overview again; nothing  *)
(* else does once it is loaded, not even a reconnection.                   *)
(*                                                                         *)
(* For the hub stands what it implements, Feed.  Events are numbered in the*)
(* order of their timestamps.  The engine stores a published event and the *)
(* hub broadcasts it in goroutines of their own, in any order.  A message  *)
(* is sent and received in one step: one lost on the way was not sent.     *)
(***************************************************************************)
EXTENDS Feed, FiniteSets

CONSTANTS Level,        \* of each event: "none", "medium" or "high"
          EventLimit, ThreatLimit,  \* 10 and 5 in the code
          MaxConnections,           \* bound on the connections the page makes
          MaxOpenCalls              \* bound on the calls under way at a time

ASSUME DashAssumption ==
  /\ {EventLimit, ThreatLimit, MaxOpenCalls} \subseteq Nat
  /\ MaxConnections \in Nat \ {0}
  /\ EventNo \subseteq Nat /\ IsFiniteSet(EventNo)
  /\ Clients = 1..MaxConnections
  /\ Level \in [EventNo -> {"none", "medium", "high"}]

VARIABLES
  stored,     \* those in the table events
  socket,     \* "none" (before the page), "connecting", "open" or "closed"
  conn,       \* the last connection made: the first is 1
  calls,      \* the calls of fetchOverview, in order
  page,       \* what the page shows, and the calls it comes from
  \* History, for the properties:
  unheard     \* events broadcast before they were stored, or not to the page

dashVars == <<feedVars, stored, socket, conn, calls, page, unheard>>

\* A request is open, answered with rows, or with an error.
Open   == [is |-> "open", rows |-> {}]
Failed == [is |-> "failed", rows |-> {}]
Rows(rows) == [is |-> "answered", rows |-> rows]

\* A call is over when it has rendered or was rejected.
NewCall  == [over |-> FALSE, events |-> Open, threats |-> Open]
OverCall == [over |-> TRUE, events |-> Open, threats |-> Open]

\* At a moment of the table: ORDER BY timestamp DESC LIMIT limit.
Newest(rows, limit) == { n \in rows : Cardinality({ m \in rows : m > n }) < limit }
Threats(rows)       == { n \in rows : Level[n] # "none" }

DashTypeOK ==
  /\ stored \subseteq EventNo
  /\ socket \in {"none", "connecting", "open", "closed"}
  /\ conn \in 0..MaxConnections
  /\ joined = (IF socket = "open" THEN {conn} ELSE {})
  /\ \A i \in 1..Len(calls), part \in {"events", "threats"} :
       LET answer == calls[i][part] IN
       /\ answer.rows \subseteq stored
       /\ answer.is # "answered" => answer.rows = {}
  /\ Cardinality(page.events) <= EventLimit
  /\ Cardinality(page.threats) <= ThreatLimit
  /\ page.threats \subseteq Threats(stored)
  /\ {page.eventsFrom, page.threatsFrom} \subseteq 0..Len(calls)
  /\ unheard \subseteq EventNo

DashInit ==
  /\ FeedInit
  /\ stored = {}
  /\ socket = "none"
  /\ conn = 0
  /\ calls = <<>>
  /\ page = [events |-> {}, threats |-> {}, eventsFrom |-> 0, threatsFrom |-> 0]
  /\ unheard = {}

-----------------------------------------------------------------------------
\* The agent.

\* InsertEvent
StoreEvent(n) ==
  /\ n \in EventNo \ stored
  /\ stored' = stored \cup {n}
  /\ UNCHANGED <<feedVars, socket, conn, calls, page, unheard>>

BroadcastEvent(n) ==
  /\ Broadcast(n)
  /\ unheard' = IF n \in stored /\ socket = "open" THEN unheard ELSE unheard \cup {n}
  /\ UNCHANGED <<stored, socket, conn, calls, page>>

\* handleGetEvents and handleGetThreats answer with what is in the table, or
\* with DB_ERROR.
Answer(i, part, limit, rows) ==
  /\ ~calls[i].over /\ calls[i][part] = Open
  /\ \E answer \in {Rows(Newest(rows, limit)), Failed} :
       calls' = [calls EXCEPT ![i][part] = answer]
  /\ UNCHANGED <<feedVars, stored, socket, conn, page, unheard>>

\* Fault for the mutation runs: the limit of the request is not used.
GetEventsAll(i) == Answer(i, "events", Cardinality(EventNo), stored)

GetEvents(i) == Answer(i, "events", EventLimit, stored)
GetThreats(i) == Answer(i, "threats", ThreatLimit, Threats(stored))

-----------------------------------------------------------------------------
\* The page.

Load ==
  /\ socket = "none"
  /\ socket' = "connecting"
  /\ calls' = <<NewCall>>
  /\ UNCHANGED <<feedVars, stored, conn, page, unheard>>

\* The hub registers the connection.
Connect ==
  /\ socket = "connecting"
  /\ socket' = "open"
  /\ conn' = conn + 1
  /\ Join(conn')
  /\ UNCHANGED <<stored, calls, page, unheard>>

\* The event the hub is about to write to the page.
ToHear == IF socket = "open" /\ ~CaughtUp(conn) THEN {log[Len(log)]} ELSE {}

\* onclose: the connection could not be made, which may happen any number of
\* times, or it breaks.
ConnectFails ==
  /\ socket = "connecting"
  /\ socket' = "closed"
  /\ UNCHANGED <<feedVars, stored, conn, calls, page, unheard>>

Close ==
  /\ socket = "open"
  /\ conn < MaxConnections
  /\ socket' = "closed"
  /\ Leave(conn)
  /\ unheard' = unheard \cup ToHear
  /\ UNCHANGED <<stored, conn, calls, page>>

\* Fault for the mutation runs: there is one attempt only.
ReconnectNever == FALSE /\ UNCHANGED dashVars

\* setupWebSocket, 3 seconds after onclose.
Reconnect ==
  /\ socket = "closed"
  /\ socket' = "connecting"
  /\ UNCHANGED <<feedVars, stored, conn, calls, page, unheard>>

\* Fault for the mutation runs: no second call while one is under way.
ReceiveOnce ==
  /\ socket = "open"
  /\ Deliver(conn)
  /\ calls' = IF \A i \in 1..Len(calls) : calls[i].over THEN Append(calls, NewCall) ELSE calls
  /\ UNCHANGED <<stored, socket, conn, page, unheard>>

\* onmessage calls fetchOverview.
Receive ==
  /\ socket = "open"
  /\ Cardinality({ i \in 1..Len(calls) : ~calls[i].over }) < MaxOpenCalls
  /\ Deliver(conn)
  /\ calls' = Append(calls, NewCall)
  /\ UNCHANGED <<stored, socket, conn, page, unheard>>

\* All requests are answered.  A part that failed stays as it is.
Render(i) ==
  LET call == calls[i]
      new(part) == IF call[part].is = "answered" THEN call[part].rows ELSE page[part]
      from(part, old) == IF call[part].is = "answered" THEN i ELSE old
  IN  /\ ~call.over /\ call.events # Open /\ call.threats # Open
      /\ calls' = [calls EXCEPT ![i] = OverCall]
      /\ page' = [events |-> new("events"), threats |-> new("threats"),
                  eventsFrom |-> from("events", page.eventsFrom),
                  threatsFrom |-> from("threats", page.threatsFrom)]
      /\ UNCHANGED <<feedVars, stored, socket, conn, unheard>>

\* A request gets no answer: Promise.all is rejected, nothing is rendered, and
\* what the other requests would answer is of no consequence.
Reject(i) ==
  /\ calls[i] = NewCall
  /\ calls' = [calls EXCEPT ![i] = OverCall]
  /\ UNCHANGED <<feedVars, stored, socket, conn, page, unheard>>

-----------------------------------------------------------------------------
Call(i) == GetEvents(i) \/ GetThreats(i) \/ Render(i) \/ Reject(i)

DashNext ==
  \/ \E n \in EventNo : StoreEvent(n) \/ BroadcastEvent(n)
  \/ Load \/ Connect \/ ConnectFails \/ Close \/ Reconnect \/ Receive
  \/ \E i \in 1..Len(calls) : Call(i)

DashSpec == DashInit /\ [][DashNext]_dashVars

\* The page's timer goes off; the server accepts a connection at last if there
\* is time and again one to accept; each call is answered and rendered.
DashFairness ==
  /\ WF_dashVars(Reconnect)
  /\ SF_dashVars(Connect)
  /\ WF_dashVars(Receive)
  /\ WF_dashVars(\E i \in 1..Len(calls) : Call(i))

DashFairSpec == DashSpec /\ DashFairness

-----------------------------------------------------------------------------
\* fetchOverview's verdict on the threats it shows.
RiskLevel(threats) ==
  CASE \E n \in threats : Level[n] = "high" -> "HIGH"
    [] \A n \in threats : Level[n] # "high" -> IF threats = {} THEN "LOW" ELSE "MEDIUM"

\* Nothing is on its way to the page, and its last call was the last to render.
AtRest(from) ==
  /\ socket = "open" /\ CaughtUp(conn)
  /\ \A n \in stored : \E k \in 1..Len(log) : log[k] = n
  /\ \A i \in 1..Len(calls) : calls[i].over
  /\ from = Len(calls)

\* A page at rest shows the newest events and the risk of the newest threats,
\* but for events whose message it did not get, or got before they were stored.
\* It needs its last call to render last: an older one may overtake it.
RestingPageIsCurrent ==
  /\ AtRest(page.eventsFrom) =>
       Newest(stored, EventLimit) \ page.events \subseteq unheard
  /\ AtRest(page.threatsFrom) =>
       LET threats == Newest(Threats(stored), ThreatLimit) IN
       threats \cap unheard = {} => RiskLevel(page.threats) = RiskLevel(threats)

\* A page that loses its connection gets into the feed again.
DroppedPageComesBack == (socket = "closed") ~> (conn \in joined)

=============================================================================
