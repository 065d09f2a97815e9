-------------------------------- MODULE Feed --------------------------------
(***************************************************************************)
(* What the live feed promises a dashboard, without channels and sockets:  *)
(* the events form one log, and a client that joins sees what is logged    *)
(* from then on, in order, without gaps and without repetition, and one    *)
(* event behind the log at most.                                           *)
(***************************************************************************)
EXTENDS Naturals, Sequences

CONSTANTS Clients, EventNo

VARIABLES
  log,      \* the events broadcast so far
  joined,   \* the clients connected now
  since,    \* the length of the log when the client joined
  seen      \* how many events the client has been sent since

feedVars == <<log, joined, since, seen>>

CaughtUp(c) == since[c] + seen[c] = Len(log)

FeedInit ==
  /\ log = <<>>
  /\ joined = {}
  /\ since = [c \in Clients |-> 0]
  /\ seen = [c \in Clients |-> 0]

Join(c) ==
  /\ c \notin joined
  /\ seen[c] = 0
  /\ joined' = joined \cup {c}
  /\ since' = [since EXCEPT ![c] = Len(log)]
  /\ UNCHANGED <<log, seen>>

\* The feed forgets where a client started that has left.
Leave(c) ==
  /\ joined' = joined \ {c}
  /\ since' = [since EXCEPT ![c] = 0]
  /\ UNCHANGED <<log, seen>>

Broadcast(n) ==
  /\ \A i \in 1..Len(log) : log[i] # n
  /\ \A c \in joined : CaughtUp(c)
  /\ log' = Append(log, n)
  /\ UNCHANGED <<joined, since, seen>>

Deliver(c) ==
  /\ c \in joined
  /\ ~CaughtUp(c)
  /\ seen' = [seen EXCEPT ![c] = @ + 1]
  /\ UNCHANGED <<log, joined, since>>

FeedNext ==
  \/ \E c \in Clients : Join(c) \/ Leave(c) \/ Deliver(c)
  \/ \E n \in EventNo : Broadcast(n)

FeedSpec == FeedInit /\ [][FeedNext]_feedVars

-----------------------------------------------------------------------------
\* No event is logged twice, and a client is one event behind the log at most:
\* Run writes to every client before it takes the next event.
FeedPromise ==
  /\ \A i, j \in 1..Len(log) : log[i] = log[j] => i = j
  /\ \A c \in joined : CaughtUp(c) \/ since[c] + seen[c] + 1 = Len(log)

=============================================================================
