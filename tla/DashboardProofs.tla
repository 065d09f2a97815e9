--------------------------- MODULE DashboardProofs ---------------------------
(***************************************************************************)
(* Proofs about the overview page: its types, and that a page at rest is   *)
(* current.  The argument is about the events the page has heard of: those *)
(* among the newest are in each answer to its last call, for that call was *)
(* made after they were stored.                                            *)
(***************************************************************************)
EXTENDS Dashboard, FiniteSetTheorems, SequenceTheorems, TLAPS

-----------------------------------------------------------------------------
\* Finite sets of naturals.

LEMMA Largest ==
  ASSUME NEW T \in SUBSET Nat, IsFiniteSet(T), T # {}
  PROVE  \E y \in T : \A m \in T : m <= y
<1> DEFINE Above(y) == { m \in T : m > y }
           Sets == { Above(y) : y \in T }
<1>1. Sets \subseteq FiniteSubsetsOf(T) /\ Sets # {}
  <2>1. ASSUME NEW y \in T
        PROVE  Above(y) \in FiniteSubsetsOf(T)
    <3>1. Above(y) \in SUBSET T
      OBVIOUS
    <3> HIDE DEF Above
    <3> QED
      BY <3>1, FS_Subset DEF FiniteSubsetsOf
  <2> QED
    BY <2>1
<1>2. IsWellFoundedOn(StrictSubsetOrdering(T), FiniteSubsetsOf(T))
  BY FS_StrictSubsetOrderingWellFounded
<1>3. \E a \in Sets : \A b \in Sets : ~(<<b, a>> \in StrictSubsetOrdering(T))
  <2> HIDE DEF Sets
  <2> QED
    BY <1>1, <1>2, WFMin
<1>4. PICK y \in T : \A m \in T : ~(<<Above(m), Above(y)>> \in StrictSubsetOrdering(T))
  BY <1>3
<1>5. ASSUME NEW m \in T, ~(m <= y)
      PROVE  FALSE
  <2>1. m > y
    BY <1>5
  <2>2. Above(m) \subseteq Above(y) /\ m \in Above(y) /\ m \notin Above(m)
    <3>1. y \in Nat /\ m \in Nat /\ \A k \in T : k \in Nat
      OBVIOUS
    <3>2. \A k \in T : k > m => k > y
      BY <2>1, <3>1
    <3>3. ~(m > m)
      BY <3>1
    <3> QED
      BY <2>1, <3>2, <3>3
  <2>3. <<Above(m), Above(y)>> \in StrictSubsetOrdering(T)
    BY <2>2 DEF StrictSubsetOrdering
  <2> QED
    BY <1>4, <2>3
<1> QED
  BY <1>5

LEMMA Smallest ==
  ASSUME NEW T \in SUBSET Nat, IsFiniteSet(T), T # {}
  PROVE  \E y \in T : \A m \in T : y <= m
<1> DEFINE Under(y) == { m \in T : m < y }
           Sets == { Under(y) : y \in T }
<1>1. Sets \subseteq FiniteSubsetsOf(T) /\ Sets # {}
  <2>1. ASSUME NEW y \in T
        PROVE  Under(y) \in FiniteSubsetsOf(T)
    <3>1. Under(y) \in SUBSET T
      OBVIOUS
    <3> HIDE DEF Under
    <3> QED
      BY <3>1, FS_Subset DEF FiniteSubsetsOf
  <2> QED
    BY <2>1
<1>2. IsWellFoundedOn(StrictSubsetOrdering(T), FiniteSubsetsOf(T))
  BY FS_StrictSubsetOrderingWellFounded
<1>3. \E a \in Sets : \A b \in Sets : ~(<<b, a>> \in StrictSubsetOrdering(T))
  <2> HIDE DEF Sets
  <2> QED
    BY <1>1, <1>2, WFMin
<1>4. PICK y \in T : \A m \in T : ~(<<Under(m), Under(y)>> \in StrictSubsetOrdering(T))
  BY <1>3
<1>5. ASSUME NEW m \in T, ~(y <= m)
      PROVE  FALSE
  <2>1. m < y
    BY <1>5
  <2>2. Under(m) \subseteq Under(y) /\ m \in Under(y) /\ m \notin Under(m)
    <3>1. y \in Nat /\ m \in Nat /\ \A k \in T : k \in Nat
      OBVIOUS
    <3>2. \A k \in T : k < m => k < y
      BY <2>1, <3>1
    <3>3. ~(m < m)
      BY <3>1
    <3> QED
      BY <2>1, <3>2, <3>3
  <2>3. <<Under(m), Under(y)>> \in StrictSubsetOrdering(T)
    BY <2>2 DEF StrictSubsetOrdering
  <2> QED
    BY <1>4, <2>3
<1> QED
  BY <1>5

-----------------------------------------------------------------------------
\* What a request with a limit returns.

LEMMA EventSets ==
  ASSUME NEW S \in SUBSET EventNo
  PROVE  S \subseteq Nat /\ IsFiniteSet(S) /\ Cardinality(S) \in Nat
BY DashAssumption, FS_Subset, FS_CardinalityType

\* Never more than the limit.
LEMMA NewestFits ==
  ASSUME NEW S \in SUBSET EventNo, NEW limit \in Nat
  PROVE  Cardinality(Newest(S, limit)) <= limit
<1> DEFINE N == Newest(S, limit)
<1>1. N \in SUBSET S /\ N \in SUBSET EventNo
  BY DEF Newest
<1>2. IsFiniteSet(N) /\ N \in SUBSET Nat /\ Cardinality(N) \in Nat
  BY <1>1, EventSets
<1>3. CASE N = {}
  BY <1>3, FS_EmptySet
<1>4. CASE N # {}
  <2> HIDE DEF N
  <2>1. PICK y \in N : \A m \in N : y <= m
    BY <1>2, <1>4, Smallest
  <2> DEFINE Later == { m \in S : m > y }
  <2>2. Later \in SUBSET EventNo
    OBVIOUS
  <2>3. IsFiniteSet(Later) /\ Cardinality(Later) \in Nat
    BY <2>2, EventSets
  <2>4. Cardinality(Later) < limit
    BY <2>1 DEF N, Newest
  <2>5. N \ {y} \subseteq Later
    BY <1>1, <1>2, <2>1
  <2>6. Cardinality(N \ {y}) = Cardinality(N) - 1
    BY <1>2, <2>1, FS_RemoveElement
  <2>7. Cardinality(N \ {y}) <= Cardinality(Later)
    BY <2>3, <2>5, FS_Subset
  <2>8. Cardinality(N) <= limit
    <3> HIDE DEF Later
    <3> QED
      BY <1>2, <2>3, <2>4, <2>6, <2>7
  <2> QED
    BY <2>8 DEF N
<1> QED
  BY <1>3, <1>4

\* And as many as the limit if anything is left out.
LEMMA NewestFills ==
  ASSUME NEW S \in SUBSET EventNo, NEW limit \in Nat, S # Newest(S, limit)
  PROVE  Cardinality(Newest(S, limit)) >= limit
<1> DEFINE N == Newest(S, limit)
           T == S \ N
<1>1. N \in SUBSET S /\ N \in SUBSET EventNo /\ T \in SUBSET EventNo /\ T # {}
  BY DEF Newest
<1>2. /\ IsFiniteSet(N) /\ N \in SUBSET Nat /\ Cardinality(N) \in Nat
      /\ IsFiniteSet(T) /\ T \in SUBSET Nat
  BY <1>1, EventSets
<1>3. PICK y \in T : \A m \in T : m <= y
  <2> HIDE DEF T
  <2> QED
    BY <1>1, <1>2, Largest
<1> DEFINE Later == { m \in S : m > y }
<1>4. Later \in SUBSET EventNo
  OBVIOUS
<1>5. Cardinality(Later) \in Nat
  BY <1>4, EventSets
<1>6. ~(Cardinality(Later) < limit)
  BY <1>3 DEF Newest
<1>7. S \subseteq Nat
  BY EventSets
<1>8. Later \subseteq N
  BY <1>2, <1>3, <1>7
<1>9. Cardinality(Later) <= Cardinality(N)
  BY <1>2, <1>8, FS_Subset
<1> QED
  <2> HIDE DEF Later, N
  <2>1. Cardinality(N) >= limit
    BY <1>2, <1>5, <1>6, <1>9
  <2> QED
    BY <2>1 DEF N

\* What is among the newest of many is among the newest of some of them.
LEMMA NewestOfFewer ==
  ASSUME NEW S \in SUBSET EventNo, NEW R \in SUBSET S, NEW limit \in Nat
  PROVE  Newest(S, limit) \cap R \subseteq Newest(R, limit)
<1> SUFFICES ASSUME NEW n \in R, n \in Newest(S, limit)
             PROVE  n \in Newest(R, limit)
  OBVIOUS
<1> DEFINE InS == { m \in S : m > n }
           InR == { m \in R : m > n }
<1>1. InR \in SUBSET InS /\ InS \in SUBSET EventNo /\ InR \in SUBSET EventNo
  OBVIOUS
<1>2. IsFiniteSet(InS) /\ Cardinality(InS) \in Nat /\ Cardinality(InR) \in Nat
  BY <1>1, EventSets
<1>3. Cardinality(InR) <= Cardinality(InS)
  BY <1>1, <1>2, FS_Subset
<1>4. Cardinality(InS) < limit
  BY DEF Newest
<1>5. Cardinality(InR) < limit
  <2> HIDE DEF InS, InR
  <2> QED
    BY <1>2, <1>3, <1>4
<1> QED
  BY <1>5 DEF Newest

\* A page with all of the newest, and room for no more, shows exactly them.
LEMMA NewestAreAll ==
  ASSUME NEW S \in SUBSET EventNo, NEW shown \in SUBSET S, NEW limit \in Nat,
         Cardinality(shown) <= limit, Newest(S, limit) \subseteq shown
  PROVE  shown = Newest(S, limit)
<1> DEFINE N == Newest(S, limit)
<1>1. N \in SUBSET EventNo /\ shown \in SUBSET EventNo
  BY DEF Newest
<1>2. IsFiniteSet(shown) /\ Cardinality(shown) \in Nat /\ Cardinality(N) \in Nat
  BY <1>1, EventSets
<1>3. CASE S = N
  BY <1>3
<1>4. CASE S # N
  <2>1. Cardinality(N) >= limit
    BY <1>4, NewestFills
  <2>2. Cardinality(N) <= Cardinality(shown) /\ (Cardinality(shown) = Cardinality(N) => shown = N)
    BY <1>2, FS_Subset
  <2> HIDE DEF N
  <2>3. Cardinality(shown) = Cardinality(N)
    BY <1>2, <2>1, <2>2
  <2> QED
    BY <2>2, <2>3 DEF N
<1> QED
  BY <1>3, <1>4

-----------------------------------------------------------------------------
\* The invariant.

Answers == [is : {"open", "answered", "failed"}, rows : SUBSET EventNo]
Calls   == [over : BOOLEAN, events : Answers, threats : Answers]
Pages   == [events : SUBSET EventNo, threats : SUBSET EventNo,
            eventsFrom : Nat, threatsFrom : Nat]

DashTypes ==
  /\ stored \subseteq EventNo /\ unheard \subseteq EventNo
  /\ socket \in {"none", "connecting", "open", "closed"}
  /\ conn \in 0..MaxConnections
  /\ calls \in Seq(Calls)
  /\ page \in Pages

\* The feed of the one page, and where its events are.
PageInFeed ==
  /\ log \in Seq(EventNo)
  /\ since \in [Clients -> Nat] /\ seen \in [Clients -> Nat]
  /\ joined = (IF socket = "open" THEN {conn} ELSE {})
  /\ socket = "none" => calls = <<>>
  /\ socket # "none" => Len(calls) > 0
  /\ IF socket = "open" THEN conn \in Clients ELSE conn + 1 \in Clients
  /\ socket = "open" => since[conn] + seen[conn] \in {Len(log) - 1, Len(log)}
  /\ \A k \in 1..Len(log) : log[k] \in stored \cup unheard

AnswerOK(answer, all, limit) ==
  /\ answer.rows \subseteq all
  /\ answer.is # "answered" => answer.rows = {}
  /\ Cardinality(answer.rows) <= limit

CallOK(call) ==
  /\ AnswerOK(call.events, stored, EventLimit)
  /\ AnswerOK(call.threats, Threats(stored), ThreatLimit)

CallsOK == \A i \in 1..Len(calls) : CallOK(calls[i])

PageOK ==
  /\ page.events \subseteq stored /\ Cardinality(page.events) <= EventLimit
  /\ page.threats \subseteq Threats(stored) /\ Cardinality(page.threats) <= ThreatLimit
  /\ {page.eventsFrom, page.threatsFrom} \subseteq 0..Len(calls)

\* The events whose message the page has got after they were stored.
Heard == { log[k] : k \in 1..Len(log) } \ (unheard \cup ToHear)

NewEvents  == Newest(stored, EventLimit) \cap Heard
NewThreats == Newest(Threats(stored), ThreatLimit) \cap Heard

\* They are in the answers to the last call, and on the page if it shows those.
LastCallKnows ==
  Len(calls) > 0 =>
    LET last == calls[Len(calls)] IN
    /\ last.events.is = "answered" => NewEvents \subseteq last.events.rows
    /\ last.threats.is = "answered" => NewThreats \subseteq last.threats.rows

PageKnows ==
  Len(calls) > 0 =>
    /\ page.eventsFrom = Len(calls) => NewEvents \subseteq page.events
    /\ page.threatsFrom = Len(calls) => NewThreats \subseteq page.threats

DashInv ==
  /\ DashTypes /\ PageInFeed /\ CallsOK /\ PageOK
  /\ LastCallKnows /\ PageKnows

-----------------------------------------------------------------------------
LEMMA NewCallOK ==
  /\ NewCall \in Calls /\ CallOK(NewCall) /\ NewCall.events.is = "open" /\ NewCall.threats.is = "open"
  /\ OverCall \in Calls /\ CallOK(OverCall) /\ OverCall.events.is = "open" /\ OverCall.threats.is = "open"
<1>1. Cardinality({}) = 0
  BY FS_EmptySet
<1>2. EventLimit \in Nat /\ ThreatLimit \in Nat
  BY DashAssumption
<1>3. Open \in Answers /\ Open.rows = {} /\ Open.is = "open"
  BY DEF Open, Answers
<1>4. AnswerOK(Open, stored, EventLimit) /\ AnswerOK(Open, Threats(stored), ThreatLimit)
  BY <1>1, <1>2, <1>3 DEF AnswerOK
<1> QED
  BY <1>3, <1>4 DEF NewCall, OverCall, Calls, CallOK

LEMMA DashInvInit == DashInit => DashInv
<1> SUFFICES ASSUME DashInit
             PROVE  DashInv
  OBVIOUS
<1>1. Cardinality({}) = 0 /\ EventLimit \in Nat /\ ThreatLimit \in Nat /\ MaxConnections \in Nat
  BY FS_EmptySet, DashAssumption
<1>2. DashTypes
  BY <1>1 DEF DashInit, DashTypes, Pages
<1>3. PageInFeed
  <2>1. 0 + 1 \in Clients
    BY DashAssumption
  <2> QED
    BY <2>1 DEF DashInit, FeedInit, PageInFeed
<1>4. CallsOK /\ LastCallKnows /\ PageKnows
  BY DEF DashInit, CallsOK, LastCallKnows, PageKnows
<1>5. PageOK
  BY <1>1 DEF DashInit, PageOK
<1> QED
  BY <1>2, <1>3, <1>4, <1>5 DEF DashInv

\* More rows leave fewer of the old ones among the newest.
LEMMA KnowledgeStays ==
  ASSUME stored \subseteq EventNo, stored' \subseteq EventNo, stored \subseteq stored',
         PageInFeed, Heard' \subseteq Heard
  PROVE  NewEvents' \subseteq NewEvents /\ NewThreats' \subseteq NewThreats
<1>1. Heard \subseteq stored
  BY DEF PageInFeed, Heard
<1>2. EventLimit \in Nat /\ ThreatLimit \in Nat
  BY DashAssumption
<1>3. Newest(stored', EventLimit) \cap stored \subseteq Newest(stored, EventLimit)
  BY <1>2, NewestOfFewer
<1>4. Newest(Threats(stored'), ThreatLimit) \cap Threats(stored)
        \subseteq Newest(Threats(stored), ThreatLimit)
  <2>1. Threats(stored) \in SUBSET Threats(stored') /\ Threats(stored') \in SUBSET EventNo
    BY DEF Threats
  <2> QED
    BY <1>2, <2>1, NewestOfFewer
<1>5. Newest(Threats(stored'), ThreatLimit) \cap stored \subseteq Threats(stored)
  BY DEF Newest, Threats
<1> QED
  BY <1>1, <1>3, <1>4, <1>5 DEF NewEvents, NewThreats

\* A step that leaves the calls and the page alone, and tells the page nothing,
\* has only its own part of the invariant to keep.
LEMMA PageUntouched ==
  ASSUME DashInv, DashTypes', PageInFeed', UNCHANGED <<calls, page>>,
         stored \subseteq stored', Heard' \subseteq Heard
  PROVE  DashInv'
<1>1. NewEvents' \subseteq NewEvents /\ NewThreats' \subseteq NewThreats
  BY KnowledgeStays DEF DashInv, DashTypes
<1>2. Threats(stored) \subseteq Threats(stored')
  BY DEF Threats
<1>3. CallsOK'
  BY <1>2 DEF DashInv, CallsOK, CallOK, AnswerOK
<1>4. PageOK'
  BY <1>2 DEF DashInv, PageOK
<1>5. LastCallKnows' /\ PageKnows'
  BY <1>1 DEF DashInv, LastCallKnows, PageKnows
<1> QED
  BY <1>3, <1>4, <1>5 DEF DashInv

-----------------------------------------------------------------------------
\* The agent.

LEMMA StoreKeeps ==
  ASSUME DashInv, NEW n \in EventNo, StoreEvent(n)
  PROVE  DashInv'
<1>1. DashTypes' /\ PageInFeed' /\ Heard' = Heard
  BY DEF DashInv, StoreEvent, feedVars, DashTypes, PageInFeed, Heard, ToHear, CaughtUp
<1> QED
  BY <1>1, PageUntouched DEF StoreEvent

LEMMA BroadcastKeeps ==
  ASSUME DashInv, NEW n \in EventNo, BroadcastEvent(n)
  PROVE  DashInv'
<1>1. DashTypes /\ PageInFeed
  BY DEF DashInv
<1>2. /\ UNCHANGED <<joined, since, seen, stored, socket, conn, calls, page>>
      /\ \A i \in 1..Len(log) : log[i] # n
      /\ socket = "open" => CaughtUp(conn)
      /\ log' = Append(log, n)
      /\ unheard' = IF n \in stored /\ socket = "open" THEN unheard ELSE unheard \cup {n}
  BY <1>1 DEF BroadcastEvent, Broadcast, PageInFeed
<1>3. /\ log' \in Seq(EventNo) /\ Len(log') = Len(log) + 1 /\ log'[Len(log) + 1] = n
      /\ \A k \in 1..Len(log) : log'[k] = log[k]
      /\ Len(log) \in Nat
  BY <1>1, <1>2 DEF PageInFeed
<1>4. DashTypes'
  BY <1>1, <1>2 DEF DashTypes
<1>5. PageInFeed'
  <2>1. \A k \in 1..Len(log') : log'[k] \in stored' \cup unheard'
    BY <1>1, <1>2, <1>3 DEF PageInFeed
  <2>2. socket' = "open" => since'[conn'] + seen'[conn'] \in {Len(log') - 1, Len(log')}
    BY <1>1, <1>2, <1>3 DEF CaughtUp
  <2> QED
    BY <1>1, <1>2, <1>3, <2>1, <2>2 DEF PageInFeed
<1>6. Heard' \subseteq Heard
  <2>1. n \in unheard' \cup ToHear'
    <3>1. CASE socket = "open"
      BY <1>1, <1>2, <1>3, <3>1 DEF ToHear, CaughtUp, PageInFeed
    <3> QED
      BY <1>2, <3>1
  <2>2. ToHear = {}
    BY <1>2 DEF ToHear
  <2>3. { log'[k] : k \in 1..Len(log') } \subseteq { log[k] : k \in 1..Len(log) } \cup {n}
    BY <1>3
  <2> QED
    BY <1>2, <2>1, <2>2, <2>3 DEF Heard
<1> QED
  BY <1>2, <1>4, <1>5, <1>6, PageUntouched

LEMMA SocketKeeps ==
  ASSUME DashInv, Connect \/ ConnectFails \/ Close \/ Reconnect
  PROVE  DashInv'
<1>1. DashTypes /\ PageInFeed
  BY DEF DashInv
<1>2. UNCHANGED <<log, seen, stored, calls, page>> /\ Len(log) \in Nat
  BY <1>1 DEF Connect, ConnectFails, Close, Reconnect, Join, Leave, feedVars, PageInFeed
<1>3. CASE Connect
  <2>1. /\ socket = "connecting" /\ socket' = "open" /\ conn' = conn + 1
        /\ conn' \in Clients /\ unheard' = unheard /\ joined = {} /\ joined' = {conn'}
        /\ seen[conn'] = 0 /\ since' = [since EXCEPT ![conn'] = Len(log)]
    BY <1>1, <1>3 DEF Connect, Join, PageInFeed
  <2>2. since' \in [Clients -> Nat] /\ since'[conn'] = Len(log)
    BY <1>1, <1>2, <2>1 DEF PageInFeed
  <2>3. conn' \in 0..MaxConnections
    BY <2>1, DashAssumption
  <2>4. DashTypes' /\ PageInFeed'
    BY <1>1, <1>2, <2>1, <2>2, <2>3 DEF DashTypes, PageInFeed
  <2>5. Heard' = Heard
    BY <1>2, <2>1, <2>2 DEF Heard, ToHear, CaughtUp
  <2> QED
    BY <1>2, <2>4, <2>5, PageUntouched
<1>4. CASE Close
  <2>1. /\ socket = "open" /\ socket' = "closed" /\ conn' = conn /\ conn \in Clients
        /\ joined' = joined \ {conn} /\ since' = [since EXCEPT ![conn] = 0]
        /\ unheard' = unheard \cup ToHear
    BY <1>1, <1>4 DEF Close, Leave, PageInFeed
  <2>2. ToHear \subseteq EventNo
    <3>1. CASE socket = "open" /\ ~CaughtUp(conn)
      <4>1. Len(log) \in 1..Len(log)
        BY <1>1, <1>2, <2>1, <3>1 DEF PageInFeed, CaughtUp
      <4> QED
        BY <1>1, <4>1 DEF PageInFeed, ToHear
    <3> QED
      BY <3>1 DEF ToHear
  <2>3. conn + 1 \in Clients
    BY <1>1, <1>4, <2>1, DashAssumption DEF Close, DashTypes
  <2>4. DashTypes' /\ PageInFeed'
    BY <1>1, <1>2, <2>1, <2>2, <2>3 DEF DashTypes, PageInFeed
  <2>5. Heard' = Heard
    BY <1>2, <2>1 DEF Heard, ToHear
  <2> QED
    BY <1>2, <2>4, <2>5, PageUntouched
<1>5. CASE ConnectFails \/ Reconnect
  <2>1. /\ socket \in {"connecting", "closed"} /\ socket' \in {"connecting", "closed"}
        /\ UNCHANGED <<conn, joined, since, unheard>>
    BY <1>5 DEF ConnectFails, Reconnect, feedVars
  <2>2. DashTypes'
    BY <1>1, <1>2, <2>1 DEF DashTypes
  <2>3. PageInFeed'
    BY <1>1, <1>2, <2>1 DEF PageInFeed
  <2>4. Heard' = Heard
    BY <1>2, <2>1 DEF Heard, ToHear
  <2> QED
    BY <1>2, <2>2, <2>3, <2>4, PageUntouched
<1> QED
  BY <1>3, <1>4, <1>5

-----------------------------------------------------------------------------
\* The page and its calls.

LEMMA LoadKeeps ==
  ASSUME DashInv, Load
  PROVE  DashInv'
<1>1. DashTypes /\ PageInFeed /\ PageOK
  BY DEF DashInv
<1>2. /\ UNCHANGED <<log, joined, since, seen, stored, page, unheard>>
      /\ socket = "none" /\ socket' = "connecting" /\ conn' = conn
      /\ calls = <<>> /\ calls' = <<NewCall>>
  BY <1>1 DEF Load, feedVars, PageInFeed
<1>3. /\ calls' \in Seq(Calls) /\ Len(calls') = 1 /\ calls'[1] = NewCall
      /\ page'.eventsFrom = 0 /\ page'.threatsFrom = 0
  BY <1>1, <1>2, NewCallOK DEF PageOK
<1>5. DashTypes' /\ PageInFeed'
  BY <1>1, <1>2, <1>3 DEF DashTypes, PageInFeed
<1>6. CallsOK'
  BY <1>2, <1>3, NewCallOK DEF CallsOK, CallOK, AnswerOK
<1>7. PageOK' /\ LastCallKnows' /\ PageKnows'
  BY <1>1, <1>2, <1>3, NewCallOK DEF PageOK, LastCallKnows, PageKnows
<1> QED
  BY <1>5, <1>6, <1>7 DEF DashInv

\* The new call has no answers yet.
LEMMA ReceiveKeeps ==
  ASSUME DashInv, Receive
  PROVE  DashInv'
<1>1. DashTypes /\ PageInFeed /\ CallsOK /\ PageOK
  BY DEF DashInv
<1>2. /\ UNCHANGED <<log, joined, since, stored, socket, conn, page, unheard>>
      /\ socket = "open" /\ conn \in Clients /\ ~CaughtUp(conn)
      /\ seen' = [seen EXCEPT ![conn] = @ + 1]
      /\ calls' = Append(calls, NewCall)
  BY <1>1 DEF Receive, Deliver, PageInFeed
<1>3. /\ calls' \in Seq(Calls) /\ Len(calls') = Len(calls) + 1 /\ calls'[Len(calls')] = NewCall
      /\ \A i \in 1..Len(calls) : calls'[i] = calls[i]
      /\ Len(calls) \in Nat
  BY <1>1, <1>2, NewCallOK DEF DashTypes
<1>4. DashTypes'
  BY <1>1, <1>2, <1>3 DEF DashTypes
<1>5. PageInFeed'
  <2>1. /\ seen' \in [Clients -> Nat] /\ seen'[conn] = seen[conn] + 1
        /\ since[conn] \in Nat /\ seen[conn] \in Nat /\ Len(log) \in Nat
    BY <1>1, <1>2 DEF PageInFeed
  <2>2. since[conn] + seen[conn] = Len(log) - 1
    BY <1>1, <1>2 DEF PageInFeed, CaughtUp
  <2> QED
    BY <1>1, <1>2, <1>3, <2>1, <2>2 DEF PageInFeed
<1>6. CallsOK'
  <2> SUFFICES ASSUME NEW i \in 1..Len(calls')
               PROVE  CallOK(calls[i])'
    BY DEF CallsOK
  <2>1. CASE i = Len(calls')
    BY <1>2, <1>3, <2>1, NewCallOK DEF CallOK, AnswerOK
  <2>2. CASE i \in 1..Len(calls)
    BY <1>1, <1>2, <1>3, <2>2 DEF CallsOK, CallOK, AnswerOK
  <2> QED
    BY <1>3, <2>1, <2>2
<1>7. PageOK' /\ LastCallKnows' /\ PageKnows'
  BY <1>1, <1>2, <1>3, NewCallOK DEF PageOK, LastCallKnows, PageKnows
<1> QED
  BY <1>4, <1>5, <1>6, <1>7 DEF DashInv

\* A step that changes one call and, perhaps, the page.
LEMMA OneCallChanges ==
  ASSUME DashInv, NEW i \in 1..Len(calls), NEW call \in Calls, CallOK(call),
         calls' = [calls EXCEPT ![i] = call],
         UNCHANGED <<feedVars, stored, socket, conn, unheard>>,
         i = Len(calls) /\ call.events.is = "answered" => NewEvents \subseteq call.events.rows,
         i = Len(calls) /\ call.threats.is = "answered" => NewThreats \subseteq call.threats.rows,
         page' \in Pages, PageOK', PageKnows'
  PROVE  DashInv'
<1>1. DashTypes /\ PageInFeed /\ CallsOK /\ LastCallKnows
  BY DEF DashInv
<1>2. /\ calls' \in Seq(Calls) /\ Len(calls') = Len(calls) /\ calls'[i] = call
      /\ \A k \in 1..Len(calls) : k # i => calls'[k] = calls[k]
      /\ Len(calls) \in Nat
  BY <1>1 DEF DashTypes
<1>3. DashTypes' /\ PageInFeed'
  <2>1. UNCHANGED <<log, joined, since, seen>>
    BY DEF feedVars
  <2>2. socket = "none" => FALSE
    BY <1>1 DEF PageInFeed
  <2> QED
    BY <1>1, <1>2, <2>1, <2>2 DEF DashTypes, PageInFeed
<1>4. CallsOK'
  <2> SUFFICES ASSUME NEW k \in 1..Len(calls')
               PROVE  CallOK(calls[k])'
    BY DEF CallsOK
  <2>1. CASE k = i
    BY <1>2, <2>1 DEF CallOK, AnswerOK
  <2>2. CASE k # i
    BY <1>1, <1>2, <2>2 DEF CallsOK, CallOK, AnswerOK
  <2> QED
    BY <2>1, <2>2
<1>5. NewEvents' = NewEvents /\ NewThreats' = NewThreats
  BY DEF NewEvents, NewThreats, Heard, ToHear, CaughtUp, feedVars
<1>6. LastCallKnows'
  <2>1. CASE i = Len(calls)
    BY <1>2, <1>5, <2>1 DEF LastCallKnows
  <2>2. CASE i # Len(calls)
    <3>1. Len(calls) > 0 => calls'[Len(calls')] = calls[Len(calls)]
      BY <1>2, <2>2
    <3> QED
      BY <1>1, <1>2, <1>5, <3>1 DEF LastCallKnows
  <2> QED
    BY <2>1, <2>2
<1> QED
  BY <1>3, <1>4, <1>6 DEF DashInv

LEMMA PageWaits ==
  ASSUME DashInv, NEW i \in 1..Len(calls), NEW call \in Calls,
         calls' = [calls EXCEPT ![i] = call],
         UNCHANGED <<feedVars, stored, socket, conn, page, unheard>>
  PROVE  page' \in Pages /\ PageOK' /\ PageKnows'
<1>1. calls \in Seq(Calls) /\ page \in Pages
  BY DEF DashInv, DashTypes
<1>2. Len(calls') = Len(calls)
  BY <1>1
<1>3. NewEvents' = NewEvents /\ NewThreats' = NewThreats
  BY DEF NewEvents, NewThreats, Heard, ToHear, CaughtUp, feedVars
<1> QED
  BY <1>1, <1>2, <1>3 DEF DashInv, PageOK, PageKnows

\* An answer has the newest rows there are now.
LEMMA RowsOK ==
  ASSUME NEW all \in SUBSET EventNo, NEW limit \in Nat,
         NEW answer \in {Rows(Newest(all, limit)), Failed}
  PROVE  /\ answer \in Answers /\ AnswerOK(answer, all, limit)
         /\ answer.is = "answered" => answer.rows = Newest(all, limit)
<1>1. CASE answer = Rows(Newest(all, limit))
  <2>1. Newest(all, limit) \subseteq all /\ Cardinality(Newest(all, limit)) <= limit
    BY NewestFits DEF Newest
  <2> QED
    BY <1>1, <2>1 DEF Rows, Answers, AnswerOK
<1>2. CASE answer = Failed
  BY <1>2, FS_EmptySet DEF Failed, Answers, AnswerOK
<1> QED
  BY <1>1, <1>2

LEMMA AnswersKeep ==
  ASSUME DashInv, NEW i \in 1..Len(calls), GetEvents(i) \/ GetThreats(i)
  PROVE  DashInv'
<1>1. /\ calls \in Seq(Calls) /\ calls[i] \in Calls /\ CallOK(calls[i])
      /\ stored \in SUBSET EventNo /\ Threats(stored) \in SUBSET EventNo
      /\ LastCallKnows
      /\ EventLimit \in Nat /\ ThreatLimit \in Nat
  <2>1. calls \in Seq(Calls) /\ stored \in SUBSET EventNo /\ CallsOK /\ LastCallKnows
    BY DEF DashInv, DashTypes
  <2>2. calls[i] \in Calls /\ CallOK(calls[i])
    BY <2>1 DEF CallsOK
  <2>3. Threats(stored) \in SUBSET EventNo
    BY <2>1 DEF Threats
  <2> QED
    BY <2>1, <2>2, <2>3, DashAssumption
<1>2. UNCHANGED <<feedVars, stored, socket, conn, page, unheard>>
  BY DEF GetEvents, GetThreats, Answer
<1>3. CASE GetEvents(i)
  <2>1. PICK answer \in {Rows(Newest(stored, EventLimit)), Failed} :
          calls' = [calls EXCEPT ![i]["events"] = answer]
    BY <1>3 DEF GetEvents, Answer
  <2> DEFINE call == [calls[i] EXCEPT !["events"] = answer]
  <2>2. /\ answer \in Answers /\ AnswerOK(answer, stored, EventLimit)
        /\ answer.is = "answered" => answer.rows = Newest(stored, EventLimit)
    BY <1>1, RowsOK
  <2>3. /\ call \in Calls /\ calls' = [calls EXCEPT ![i] = call]
        /\ call.events = answer /\ call.threats = calls[i].threats
    BY <1>1, <2>1, <2>2 DEF Calls
  <2> HIDE DEF call
  <2>4. CallOK(call)
    BY <1>1, <2>2, <2>3 DEF CallOK
  <2>5. /\ call.events.is = "answered" => NewEvents \subseteq call.events.rows
        /\ i = Len(calls) /\ call.threats.is = "answered" => NewThreats \subseteq call.threats.rows
    BY <1>1, <2>2, <2>3 DEF NewEvents, LastCallKnows
  <2> QED
    BY <1>2, <2>3, <2>4, <2>5, PageWaits, OneCallChanges
<1>4. CASE GetThreats(i)
  <2>1. PICK answer \in {Rows(Newest(Threats(stored), ThreatLimit)), Failed} :
          calls' = [calls EXCEPT ![i]["threats"] = answer]
    BY <1>4 DEF GetThreats, Answer
  <2> DEFINE call == [calls[i] EXCEPT !["threats"] = answer]
  <2>2. /\ answer \in Answers /\ AnswerOK(answer, Threats(stored), ThreatLimit)
        /\ answer.is = "answered" => answer.rows = Newest(Threats(stored), ThreatLimit)
    BY <1>1, RowsOK
  <2>3. /\ call \in Calls /\ calls' = [calls EXCEPT ![i] = call]
        /\ call.threats = answer /\ call.events = calls[i].events
    BY <1>1, <2>1, <2>2 DEF Calls
  <2> HIDE DEF call
  <2>4. CallOK(call)
    BY <1>1, <2>2, <2>3 DEF CallOK
  <2>5. /\ call.threats.is = "answered" => NewThreats \subseteq call.threats.rows
        /\ i = Len(calls) /\ call.events.is = "answered" => NewEvents \subseteq call.events.rows
    BY <1>1, <2>2, <2>3 DEF NewThreats, LastCallKnows
  <2> QED
    BY <1>2, <2>3, <2>4, <2>5, PageWaits, OneCallChanges
<1> QED
  BY <1>3, <1>4

LEMMA RejectKeeps ==
  ASSUME DashInv, NEW i \in 1..Len(calls), Reject(i)
  PROVE  DashInv'
<1>1. /\ calls' = [calls EXCEPT ![i] = OverCall]
      /\ UNCHANGED <<feedVars, stored, socket, conn, page, unheard>>
  BY DEF Reject
<1> QED
  BY <1>1, NewCallOK, PageWaits, OneCallChanges

\* What is rendered are the answers to a call; if it is the last, they have what
\* the page should know.
LEMMA RenderKeeps ==
  ASSUME DashInv, NEW i \in 1..Len(calls), Render(i)
  PROVE  DashInv'
<1> DEFINE call == calls[i]
<1>1. /\ calls \in Seq(Calls) /\ page \in Pages /\ PageOK /\ PageKnows /\ LastCallKnows
      /\ call \in Calls /\ CallOK(call) /\ Len(calls) \in Nat
  BY DEF DashInv, DashTypes, CallsOK
<1> HIDE DEF call
<1>2. /\ calls' = [calls EXCEPT ![i] = OverCall] /\ Len(calls') = Len(calls)
      /\ UNCHANGED <<feedVars, stored, socket, conn, unheard>>
      /\ page' = [events |-> IF call.events.is = "answered" THEN call.events.rows ELSE page.events,
                  threats |-> IF call.threats.is = "answered" THEN call.threats.rows ELSE page.threats,
                  eventsFrom |-> IF call.events.is = "answered" THEN i ELSE page.eventsFrom,
                  threatsFrom |-> IF call.threats.is = "answered" THEN i ELSE page.threatsFrom]
  BY <1>1 DEF Render, call
<1>3. NewEvents' = NewEvents /\ NewThreats' = NewThreats
  BY <1>2 DEF NewEvents, NewThreats, Heard, ToHear, CaughtUp, feedVars
<1>4. page' \in Pages
  BY <1>1, <1>2 DEF Pages, Calls, Answers
<1>5. PageOK'
  <2>1. Threats(stored)' = Threats(stored)
    BY <1>2
  <2> QED
    BY <1>1, <1>2, <2>1 DEF PageOK, CallOK, AnswerOK
<1>6. PageKnows'
  <2>1. page'.eventsFrom = Len(calls) => NewEvents \subseteq page'.events
    <3>1. CASE call.events.is = "answered"
      BY <1>1, <1>2, <3>1 DEF LastCallKnows, call
    <3>2. CASE call.events.is # "answered"
      BY <1>1, <1>2, <3>2 DEF PageKnows
    <3> QED
      BY <3>1, <3>2
  <2>2. page'.threatsFrom = Len(calls) => NewThreats \subseteq page'.threats
    <3>1. CASE call.threats.is = "answered"
      BY <1>1, <1>2, <3>1 DEF LastCallKnows, call
    <3>2. CASE call.threats.is # "answered"
      BY <1>1, <1>2, <3>2 DEF PageKnows
    <3> QED
      BY <3>1, <3>2
  <2> QED
    BY <1>2, <1>3, <2>1, <2>2 DEF PageKnows
<1> QED
  BY <1>2, <1>4, <1>5, <1>6, NewCallOK, OneCallChanges

-----------------------------------------------------------------------------
LEMMA DashInvStep == DashInv /\ [DashNext]_dashVars => DashInv'
<1> SUFFICES ASSUME DashInv, [DashNext]_dashVars
             PROVE  DashInv'
  OBVIOUS
<1>1. ASSUME NEW n \in EventNo, StoreEvent(n) \/ BroadcastEvent(n)
      PROVE  DashInv'
  BY <1>1, StoreKeeps, BroadcastKeeps
<1>2. CASE Load
  BY <1>2, LoadKeeps
<1>3. CASE Connect \/ ConnectFails \/ Close \/ Reconnect
  BY <1>3, SocketKeeps
<1>4. CASE Receive
  BY <1>4, ReceiveKeeps
<1>5. ASSUME NEW i \in 1..Len(calls), Call(i)
      PROVE  DashInv'
  BY <1>5, AnswersKeep, RenderKeeps, RejectKeeps DEF Call
<1>6. CASE UNCHANGED dashVars
  <2>1. UNCHANGED <<log, joined, since, seen, stored, socket, conn, calls, page, unheard>>
    BY <1>6 DEF dashVars, feedVars
  <2>2. DashTypes' /\ PageInFeed'
    BY <2>1 DEF DashInv, DashTypes, PageInFeed
  <2>3. Heard' = Heard
    BY <2>1 DEF Heard, ToHear, CaughtUp
  <2> QED
    BY <2>1, <2>2, <2>3, PageUntouched
<1> QED
  BY <1>1, <1>2, <1>3, <1>4, <1>5, <1>6 DEF DashNext

\* The types of the page.
THEOREM DashTypeCorrect == DashSpec => []DashTypeOK
<1>1. DashInv => DashTypeOK
  <2> SUFFICES ASSUME DashInv
               PROVE  DashTypeOK
    OBVIOUS
  <2>1. DashTypes /\ PageInFeed /\ CallsOK /\ PageOK
    BY DEF DashInv
  <2>2. ASSUME NEW i \in 1..Len(calls), NEW part \in {"events", "threats"}
        PROVE  /\ calls[i][part].rows \subseteq stored
               /\ calls[i][part].is # "answered" => calls[i][part].rows = {}
    <3>1. CallOK(calls[i])
      BY <2>1 DEF CallsOK
    <3>2. Threats(stored) \subseteq stored
      BY DEF Threats
    <3>3. CASE part = "events"
      BY <3>1, <3>3 DEF CallOK, AnswerOK
    <3>4. CASE part = "threats"
      BY <3>1, <3>2, <3>4 DEF CallOK, AnswerOK
    <3> QED
      BY <3>3, <3>4
  <2> QED
    BY <2>1, <2>2 DEF DashTypeOK, DashTypes, PageInFeed, PageOK
<1> QED
  BY <1>1, DashInvInit, DashInvStep, PTL DEF DashSpec

\* A page at rest is current, but for events it was not told of in time: for any
\* number of events, calls and connections, and any limits.
THEOREM RestingPages == DashSpec => []RestingPageIsCurrent
<1>1. DashInv => RestingPageIsCurrent
  <2> SUFFICES ASSUME DashInv
               PROVE  RestingPageIsCurrent
    OBVIOUS
  <2>1. DashTypes /\ PageInFeed /\ PageOK /\ PageKnows
    BY DEF DashInv
  <2>2. ASSUME NEW from \in Nat, AtRest(from)
        PROVE  /\ stored \subseteq Heard \cup unheard
               /\ Len(calls) > 0 /\ from = Len(calls)
    <3>1. ToHear = {}
      BY <2>2 DEF AtRest, ToHear
    <3> QED
      BY <2>1, <2>2, <3>1 DEF AtRest, Heard, PageInFeed
  <2>3. ASSUME AtRest(page.eventsFrom)
        PROVE  Newest(stored, EventLimit) \ page.events \subseteq unheard
    <3>1. page.eventsFrom \in Nat
      BY <2>1 DEF DashTypes, Pages
    <3>2. NewEvents \subseteq page.events
      BY <2>1, <2>2, <2>3, <3>1 DEF PageKnows
    <3>3. Newest(stored, EventLimit) \subseteq stored
      BY DEF Newest
    <3> QED
      BY <2>2, <2>3, <3>1, <3>2, <3>3 DEF NewEvents
  <2>4. ASSUME AtRest(page.threatsFrom),
               Newest(Threats(stored), ThreatLimit) \cap unheard = {}
        PROVE  page.threats = Newest(Threats(stored), ThreatLimit)
    <3>1. page.threatsFrom \in Nat /\ ThreatLimit \in Nat /\ Threats(stored) \in SUBSET EventNo
      BY <2>1, DashAssumption DEF DashTypes, Pages, Threats
    <3>2. NewThreats \subseteq page.threats
      BY <2>1, <2>2, <2>4, <3>1 DEF PageKnows
    <3>3. Newest(Threats(stored), ThreatLimit) \subseteq stored
      BY DEF Newest, Threats
    <3>4. Newest(Threats(stored), ThreatLimit) \subseteq page.threats
      BY <2>2, <2>4, <3>1, <3>2, <3>3 DEF NewThreats
    <3> QED
      BY <2>1, <3>1, <3>4, NewestAreAll DEF PageOK
  <2> QED
    BY <2>3, <2>4 DEF RestingPageIsCurrent
<1> QED
  BY <1>1, DashInvInit, DashInvStep, PTL DEF DashSpec

-----------------------------------------------------------------------------
\* The page and the feed.

\* The feed keeps its promise: it broadcasts only when everyone has caught up.
FeedInv ==
  /\ log \in Seq(EventNo)
  /\ since \in [Clients -> Nat] /\ seen \in [Clients -> Nat]
  /\ joined \subseteq Clients
  /\ FeedPromise

LEMMA FeedInvStep == FeedInv /\ [FeedNext]_feedVars => FeedInv'
<1> SUFFICES ASSUME FeedInv, [FeedNext]_feedVars
             PROVE  FeedInv'
  OBVIOUS
<1> USE DEF FeedInv, FeedPromise, CaughtUp
<1>0. Len(log) \in Nat
  OBVIOUS
<1>1. ASSUME NEW c \in Clients, Join(c)
      PROVE  FeedInv'
  BY <1>0, <1>1 DEF Join
<1>2. ASSUME NEW c \in Clients, Leave(c)
      PROVE  FeedInv'
  BY <1>0, <1>2 DEF Leave
<1>3. ASSUME NEW c \in Clients, Deliver(c)
      PROVE  FeedInv'
  BY <1>0, <1>3 DEF Deliver
<1>4. ASSUME NEW n \in EventNo, Broadcast(n)
      PROVE  FeedInv'
  <2>1. /\ log' \in Seq(EventNo) /\ Len(log') = Len(log) + 1 /\ log'[Len(log) + 1] = n
        /\ \A i \in 1..Len(log) : log'[i] = log[i] /\ log[i] # n
        /\ \A c \in joined : since[c] + seen[c] = Len(log)
        /\ UNCHANGED <<joined, since, seen>>
    BY <1>4 DEF Broadcast
  <2>2. \A i \in 1..Len(log') : i \in 1..Len(log) \/ i = Len(log) + 1
    BY <1>0, <2>1
  <2>3. \A i, j \in 1..Len(log') : log'[i] = log'[j] => i = j
    BY <2>1, <2>2
  <2>4. \A c \in joined' : since'[c] + seen'[c] + 1 = Len(log')
    BY <1>0, <2>1
  <2> QED
    BY <2>1, <2>3, <2>4
<1>5. CASE UNCHANGED feedVars
  BY <1>5 DEF feedVars
<1> QED
  BY <1>1, <1>2, <1>3, <1>4, <1>5 DEF FeedNext

\* The feed logs no event twice, and leaves no client more than one behind, for
\* whatever implements it.
THEOREM FeedKeepsItsPromise == FeedSpec => []FeedPromise
<1>1. FeedInit => FeedInv
  BY DEF FeedInit, FeedInv, FeedPromise
<1>2. FeedInv => FeedPromise
  BY DEF FeedInv
<1> QED
  BY <1>1, <1>2, FeedInvStep, PTL DEF FeedSpec

\* The page takes part in the feed as one client at a time, which joins, is
\* sent events and leaves as Feed allows: what the hub implements is what the
\* page was modelled on.
THEOREM PageUsesTheFeed == DashSpec => FeedSpec
<1>1. DashInit => FeedInit
  BY DEF DashInit
<1>2. DashInv /\ [DashNext]_dashVars => [FeedNext]_feedVars
  <2> SUFFICES ASSUME DashInv, [DashNext]_dashVars
               PROVE  FeedNext \/ UNCHANGED feedVars
    OBVIOUS
  <2>0. IF socket = "open" THEN conn \in Clients ELSE conn + 1 \in Clients
    BY DEF DashInv, PageInFeed
  <2>1. ASSUME NEW n \in EventNo, StoreEvent(n) \/ BroadcastEvent(n)
        PROVE  FeedNext \/ UNCHANGED feedVars
    BY <2>1 DEF StoreEvent, BroadcastEvent, FeedNext
  <2>2. CASE Load \/ Connect \/ ConnectFails \/ Close \/ Reconnect \/ Receive
    BY <2>0, <2>2 DEF Load, Connect, ConnectFails, Close, Reconnect, Receive, FeedNext
  <2>3. ASSUME NEW i \in 1..Len(calls), Call(i)
        PROVE  UNCHANGED feedVars
    BY <2>3 DEF Call, GetEvents, GetThreats, Answer, Render, Reject
  <2>4. CASE UNCHANGED dashVars
    BY <2>4 DEF dashVars
  <2> QED
    BY <2>1, <2>2, <2>3, <2>4 DEF DashNext
<1> QED
  BY <1>1, <1>2, DashInvInit, DashInvStep, PTL DEF DashSpec, FeedSpec

=============================================================================
