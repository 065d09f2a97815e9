--------------------------------- MODULE Hub ---------------------------------
(***************************************************************************)
(* The WebSocket hub (internal/api/websocket.go).  The Manager starts one  *)
(* goroutine for each event, which sends the event into the buffered       *)
(* channel h.broadcast and blocks while it is full.  Run takes the events  *)
(* out one at a time and writes each to every client before it selects     *)
(* again; the writes have no deadline.  A client is removed when a write   *)
(* to it fails, and in no other way: nothing sends to h.unregister.        *)
(*                                                                         *)
(* A connection belongs to one client for good: a dashboard that reconnects*)
(* is another member of Clients.  The peer, the browser's end of it, reads,*)
(* stalls (its socket buffers are full and a write blocks) or is gone (a   *)
(* write fails, or is swallowed by a socket that does not know it yet).    *)
(***************************************************************************)
EXTENDS Naturals, Sequences, FiniteSets

CONSTANTS Clients,
          Capacity,   \* of h.broadcast: 100 in the code
          MaxEvents   \* bound on the events of one run

EventNo == 1..MaxEvents

ASSUME HubAssumption ==
  /\ Capacity \in Nat
  /\ MaxEvents \in Nat

VARIABLES
  spawned,   \* events 1..spawned have been handed to the hub's listener
  senders,   \* listener goroutines that have not sent yet
  broadcast, \* the channel
  clients,   \* h.clients
  pending,   \* clients Run has still to write the current event to
  conn,      \* "new", "registering" (in ServeWS), "member", "closed"
  peer,      \* "reading", "stalled", "gone"
  inbox,     \* what the client has been sent
  log,       \* history: events Run has taken; the last one is current
  since      \* history: length of log when the client was registered

hubVars == <<spawned, senders, broadcast, clients, pending, conn, peer, inbox, log, since>>

\* The elements of a sequence.
Elements(s) == { s[i] : i \in 1..Len(s) }

HubTypeOK ==
  /\ spawned \in 0..MaxEvents
  /\ senders \subseteq EventNo
  /\ broadcast \in Seq(EventNo)
  /\ Len(broadcast) <= Capacity
  /\ clients \subseteq Clients
  /\ pending \subseteq clients
  /\ conn \in [Clients -> {"new", "registering", "member", "closed"}]
  /\ peer \in [Clients -> {"reading", "stalled", "gone"}]
  /\ inbox \in [Clients -> Seq(EventNo)]
  /\ log \in Seq(EventNo)
  /\ since \in [Clients -> Nat]

HubInit ==
  /\ spawned = 0
  /\ senders = {}
  /\ broadcast = <<>>
  /\ clients = {}
  /\ pending = {}
  /\ conn = [c \in Clients |-> "new"]
  /\ peer = [c \in Clients |-> "reading"]
  /\ inbox = [c \in Clients |-> <<>>]
  /\ log = <<>>
  /\ since = [c \in Clients |-> 0]

-----------------------------------------------------------------------------
\* Manager.Publish starts the hub's listener for one more event.
Spawn ==
  /\ spawned < MaxEvents
  /\ spawned' = spawned + 1
  /\ senders' = senders \cup {spawned + 1}
  /\ UNCHANGED <<broadcast, clients, pending, conn, peer, inbox, log, since>>

\* Faults for the mutation runs: a full channel drops the event; the capacity
\* is off by one.
SendOrDrop(n) ==
  /\ n \in senders
  /\ senders' = senders \ {n}
  /\ broadcast' = IF Len(broadcast) < Capacity THEN Append(broadcast, n) ELSE broadcast
  /\ UNCHANGED <<spawned, clients, pending, conn, peer, inbox, log, since>>
SendOneMore(n) ==
  /\ n \in senders
  /\ Len(broadcast) <= Capacity
  /\ senders' = senders \ {n}
  /\ broadcast' = Append(broadcast, n)
  /\ UNCHANGED <<spawned, clients, pending, conn, peer, inbox, log, since>>

\* h.broadcast <- event
Send(n) ==
  /\ n \in senders
  /\ Len(broadcast) < Capacity
  /\ senders' = senders \ {n}
  /\ broadcast' = Append(broadcast, n)
  /\ UNCHANGED <<spawned, clients, pending, conn, peer, inbox, log, since>>

\* ServeWS has upgraded the connection and sends it to h.register.
Upgrade(c) ==
  /\ conn[c] = "new"
  /\ conn' = [conn EXCEPT ![c] = "registering"]
  /\ UNCHANGED <<spawned, senders, broadcast, clients, pending, peer, inbox, log, since>>

-----------------------------------------------------------------------------
\* Run is in its select when it has no write left to do.
Selecting == pending = {}

\* Faults for the mutation runs: ServeWS adds the client itself, and Run's loop
\* over the map meets it; a second client waits until the first is removed.
RegisterInPlace(c) ==
  /\ conn[c] = "registering"
  /\ conn' = [conn EXCEPT ![c] = "member"]
  /\ clients' = clients \cup {c}
  /\ pending' = IF Selecting THEN pending ELSE pending \cup {c}
  /\ since' = [since EXCEPT ![c] = Len(log)]
  /\ UNCHANGED <<spawned, senders, broadcast, peer, inbox, log>>

RegisterOneOnly(c) ==
  /\ Selecting
  /\ conn[c] = "registering"
  /\ clients = {}
  /\ conn' = [conn EXCEPT ![c] = "member"]
  /\ clients' = clients \cup {c}
  /\ since' = [since EXCEPT ![c] = Len(log)]
  /\ UNCHANGED <<spawned, senders, broadcast, pending, peer, inbox, log>>

\* case conn := <-h.register
Register(c) ==
  /\ Selecting
  /\ conn[c] = "registering"
  /\ conn' = [conn EXCEPT ![c] = "member"]
  /\ clients' = clients \cup {c}
  /\ since' = [since EXCEPT ![c] = Len(log)]
  /\ UNCHANGED <<spawned, senders, broadcast, pending, peer, inbox, log>>

\* Faults for the mutation runs: the writes of one event are not waited for; an
\* event stays in the channel as long as there is nobody to write it to.
TakeEarly ==
  /\ broadcast # <<>>
  /\ log' = Append(log, Head(broadcast))
  /\ broadcast' = Tail(broadcast)
  /\ pending' = clients
  /\ UNCHANGED <<spawned, senders, clients, conn, peer, inbox, since>>

TakeForSomeone ==
  /\ Selecting
  /\ broadcast # <<>>
  /\ clients # {}
  /\ log' = Append(log, Head(broadcast))
  /\ broadcast' = Tail(broadcast)
  /\ pending' = clients
  /\ UNCHANGED <<spawned, senders, clients, conn, peer, inbox, since>>

\* case event := <-h.broadcast
Take ==
  /\ Selecting
  /\ broadcast # <<>>
  /\ log' = Append(log, Head(broadcast))
  /\ broadcast' = Tail(broadcast)
  /\ pending' = clients
  /\ UNCHANGED <<spawned, senders, clients, conn, peer, inbox, since>>

\* WriteMessage to a client that reads; the map is in no particular order.
Write(c) ==
  /\ c \in pending
  /\ peer[c] = "reading"
  /\ inbox' = [inbox EXCEPT ![c] = Append(@, log[Len(log)])]
  /\ pending' = pending \ {c}
  /\ UNCHANGED <<spawned, senders, broadcast, clients, conn, peer, log, since>>

\* WriteMessage to a client that is gone succeeds all the same.
WriteSwallowed(c) ==
  /\ c \in pending
  /\ peer[c] = "gone"
  /\ pending' = pending \ {c}
  /\ UNCHANGED <<spawned, senders, broadcast, clients, conn, peer, inbox, log, since>>

\* WriteMessage fails: the connection is closed and the client removed.
WriteFails(c) ==
  /\ c \in pending
  /\ peer[c] = "gone"
  /\ conn' = [conn EXCEPT ![c] = "closed"]
  /\ clients' = clients \ {c}
  /\ pending' = pending \ {c}
  /\ UNCHANGED <<spawned, senders, broadcast, peer, inbox, log, since>>

-----------------------------------------------------------------------------
\* The other end of the connection.

PeerStalls(c) ==
  /\ conn[c] # "new"
  /\ peer[c] = "reading"
  /\ peer' = [peer EXCEPT ![c] = "stalled"]
  /\ UNCHANGED <<spawned, senders, broadcast, clients, pending, conn, inbox, log, since>>

PeerReadsOn(c) ==
  /\ peer[c] = "stalled"
  /\ peer' = [peer EXCEPT ![c] = "reading"]
  /\ UNCHANGED <<spawned, senders, broadcast, clients, pending, conn, inbox, log, since>>

PeerLeaves(c) ==
  /\ conn[c] # "new"
  /\ peer[c] # "gone"
  /\ peer' = [peer EXCEPT ![c] = "gone"]
  /\ UNCHANGED <<spawned, senders, broadcast, clients, pending, conn, inbox, log, since>>

HubNext ==
  \/ Spawn
  \/ \E n \in EventNo : Send(n)
  \/ \E c \in Clients : Upgrade(c)
  \/ \E c \in Clients : Register(c)
  \/ Take
  \/ \E c \in Clients : Write(c)
  \/ \E c \in Clients : WriteSwallowed(c)
  \/ \E c \in Clients : WriteFails(c)
  \/ \E c \in Clients : PeerStalls(c)
  \/ \E c \in Clients : PeerReadsOn(c)
  \/ \E c \in Clients : PeerLeaves(c)

HubSpec == HubInit /\ [][HubNext]_hubVars

WriteReturns(c) == Write(c) \/ WriteSwallowed(c) \/ WriteFails(c)

\* Goroutines blocked on a channel are served first come, first served, and
\* select is not biased: whoever can be served again and again, is.  The same
\* holds of a write whose socket has room again and again.
HubFairness ==
  /\ WF_hubVars(Take)
  /\ \A n \in EventNo : SF_hubVars(Send(n))
  /\ \A c \in Clients : SF_hubVars(Register(c)) /\ SF_hubVars(WriteReturns(c))

\* No peer stalls for ever: it reads on, or leaves.
PeerFairness == \A c \in Clients : WF_hubVars(PeerReadsOn(c))

HubFairSpec == HubSpec /\ HubFairness /\ PeerFairness

\* Only what the program and its runtime do themselves.
HubOnlySpec == HubSpec /\ HubFairness

-----------------------------------------------------------------------------
\* No event is dropped or broadcast twice by the channel or by Run, however
\* full the channel is: each one handed to the listener is with its sender, in
\* the channel or in the log, once.
EveryEventInOnePlace ==
  /\ 1..spawned = senders \cup Elements(broadcast) \cup Elements(log)
  /\ spawned = Cardinality(senders) + Len(broadcast) + Len(log)

\* A client is sent what is broadcast from its registration on, without a gap,
\* a repetition or a change of order; a client that is still there has been sent
\* all of it but the event Run is writing now.
ContiguousFeed ==
  \A c \in Clients :
    /\ since[c] + Len(inbox[c]) <= Len(log)
    /\ inbox[c] = SubSeq(log, since[c] + 1, since[c] + Len(inbox[c]))
    /\ c \in clients /\ peer[c] # "gone" =>
         since[c] + Len(inbox[c]) = Len(log) - (IF c \in pending THEN 1 ELSE 0)

\* The hub implements the feed; a client leaves the feed when its peer does.
FeedOfHub ==
  INSTANCE Feed WITH joined <- { c \in clients : peer[c] # "gone" },
                     since <- [c \in Clients |-> IF peer[c] = "gone" THEN 0 ELSE since[c]],
                     seen <- [c \in Clients |-> Len(inbox[c])]
HubImplementsFeed == FeedOfHub!FeedSpec

\* Every event handed to the hub is broadcast, and every connection that is
\* upgraded gets registered.
EveryEventIsBroadcast == \A n \in EventNo : (n \in senders) ~> (n \in Elements(log))
EveryUpgradeIsRegistered ==
  \A c \in Clients : (conn[c] = "registering") ~> (conn[c] # "registering")

-----------------------------------------------------------------------------
\* README.md: events are "pushed in real-time via WebSockets to connected
\* dashboards": whatever other clients do, a client that reads is sent the
\* events (the specification is HubOnlySpec: peers are owed no fairness).
DocEventsArePushed ==
  \A c \in Clients, n \in EventNo :
    (c \in clients /\ n \in senders) ~> (n \in Elements(inbox[c]) \/ peer[c] # "reading")

=============================================================================
