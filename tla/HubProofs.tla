------------------------------ MODULE HubProofs ------------------------------
(***************************************************************************)
(* The safety properties of Hub for any number of clients and events and   *)
(* any capacity of the channel, and the refinement of Feed.                *)
(***************************************************************************)
EXTENDS Hub, FiniteSetTheorems, SequenceTheorems, TLAPS

-----------------------------------------------------------------------------
\* Sequences.

\* Appending adds one element, and keeps what was there.
LEMMA AppendFacts ==
  ASSUME NEW S, NEW s \in Seq(S), NEW e \in S
  PROVE  /\ Append(s, e) \in Seq(S)
         /\ Len(Append(s, e)) = Len(s) + 1
         /\ Append(s, e)[Len(s) + 1] = e
         /\ \A i \in 1..Len(s) : Append(s, e)[i] = s[i]
         /\ Elements(Append(s, e)) = Elements(s) \cup {e}
<1>1. /\ Append(s, e) \in Seq(S)
      /\ Len(Append(s, e)) = Len(s) + 1
      /\ Append(s, e)[Len(s) + 1] = e
      /\ \A i \in 1..Len(s) : Append(s, e)[i] = s[i]
  OBVIOUS
<1>2. Len(s) \in Nat
  OBVIOUS
<1>3. \A x : x \in Elements(Append(s, e)) <=> x \in Elements(s) \cup {e}
  <2> TAKE x
  <2>1. ASSUME x \in Elements(Append(s, e)) PROVE x \in Elements(s) \cup {e}
    <3>1. PICK i \in 1..(Len(s) + 1) : x = Append(s, e)[i]
      BY <1>1, <2>1 DEF Elements
    <3>2. CASE i = Len(s) + 1
      BY <1>1, <3>1, <3>2
    <3>3. CASE i \in 1..Len(s)
      BY <1>1, <3>1, <3>3 DEF Elements
    <3> QED
      BY <1>2, <3>2, <3>3
  <2>2. ASSUME x \in Elements(s) PROVE x \in Elements(Append(s, e))
    <3>1. PICK i \in 1..Len(s) : x = s[i]
      BY <2>2 DEF Elements
    <3>2. i \in 1..Len(Append(s, e)) /\ x = Append(s, e)[i]
      BY <1>1, <1>2, <3>1
    <3> QED
      BY <3>2 DEF Elements
  <2>3. e \in Elements(Append(s, e))
    <3>1. Len(s) + 1 \in 1..Len(Append(s, e))
      BY <1>1, <1>2
    <3> QED
      BY <1>1, <3>1 DEF Elements
  <2> QED
    BY <2>1, <2>2, <2>3
<1> QED
  BY <1>1, <1>3

\* Head and Tail take one element out.
LEMMA HeadTailFacts ==
  ASSUME NEW S, NEW s \in Seq(S), s # <<>>
  PROVE  /\ Head(s) \in S
         /\ Head(s) = s[1]
         /\ Tail(s) \in Seq(S)
         /\ Len(s) \in Nat \ {0}
         /\ Len(Tail(s)) = Len(s) - 1
         /\ \A i \in 1..Len(Tail(s)) : Tail(s)[i] = s[i + 1]
         /\ Elements(s) = {Head(s)} \cup Elements(Tail(s))
<1>1. /\ Head(s) \in S
      /\ Head(s) = s[1]
      /\ Tail(s) \in Seq(S)
      /\ Len(s) \in Nat \ {0}
      /\ Len(Tail(s)) = Len(s) - 1
      /\ \A i \in 1..Len(Tail(s)) : Tail(s)[i] = s[i + 1]
  OBVIOUS
<1>2. \A x : x \in Elements(s) <=> x \in {Head(s)} \cup Elements(Tail(s))
  <2> TAKE x
  <2>1. ASSUME x \in Elements(s) PROVE x \in {Head(s)} \cup Elements(Tail(s))
    <3>1. PICK i \in 1..Len(s) : x = s[i]
      BY <2>1 DEF Elements
    <3>2. CASE i = 1
      BY <1>1, <3>1, <3>2
    <3>3. CASE i # 1
      <4>1. i - 1 \in 1..Len(Tail(s)) /\ Tail(s)[i - 1] = x
        BY <1>1, <3>1, <3>3
      <4> QED
        BY <4>1 DEF Elements
    <3> QED
      BY <3>2, <3>3
  <2>2. ASSUME x \in Elements(Tail(s)) PROVE x \in Elements(s)
    <3>1. PICK i \in 1..Len(Tail(s)) : x = Tail(s)[i]
      BY <2>2 DEF Elements
    <3>2. i + 1 \in 1..Len(s) /\ x = s[i + 1]
      BY <1>1, <3>1
    <3> QED
      BY <3>2 DEF Elements
  <2>3. Head(s) \in Elements(s)
    BY <1>1 DEF Elements
  <2> QED
    BY <2>1, <2>2, <2>3
<1> QED
  BY <1>1, <1>2

\* The part of a sequence that starts after k elements and is l long.
LEMMA PartFacts ==
  ASSUME NEW S, NEW s \in Seq(S), NEW k \in Nat, NEW l \in Nat, k + l <= Len(s)
  PROVE  /\ SubSeq(s, k + 1, k + l) \in Seq(S)
         /\ Len(SubSeq(s, k + 1, k + l)) = l
         /\ \A i \in 1..l : SubSeq(s, k + 1, k + l)[i] = s[k + i]
<1>1. \A i \in (k + 1)..(k + l) : s[i] \in S
  OBVIOUS
<1>2. /\ SubSeq(s, k + 1, k + l) \in Seq(S)
      /\ Len(SubSeq(s, k + 1, k + l)) =
           IF k + 1 <= k + l THEN (k + l) - (k + 1) + 1 ELSE 0
      /\ \A i \in 1..((k + l) - (k + 1) + 1) :
           SubSeq(s, k + 1, k + l)[i] = s[(k + 1) + i - 1]
  <2>1. k + 1 \in Int /\ k + l \in Int
    OBVIOUS
  <2> QED
    BY <1>1, <2>1, SubSeqProperties
<1>3. (k + l) - (k + 1) + 1 = l
  OBVIOUS
<1>4. (IF k + 1 <= k + l THEN (k + l) - (k + 1) + 1 ELSE 0) = l
  <2>1. CASE l = 0
    BY <2>1
  <2>2. CASE l > 0
    BY <2>2
  <2> QED
    BY <2>1, <2>2
<1>5. \A i \in 1..l : (k + 1) + i - 1 = k + i
  OBVIOUS
<1> QED
  BY <1>2, <1>3, <1>4, <1>5

-----------------------------------------------------------------------------
\* While Run writes there is an event to write.
TypeInv == HubTypeOK /\ (pending # {} => Len(log) > 0)

LEMMA TypeInvInit == HubInit => TypeInv
BY HubAssumption DEF HubInit, TypeInv, HubTypeOK, EventNo

LEMMA TypeInvStep == TypeInv /\ [HubNext]_hubVars => TypeInv'
<1> USE HubAssumption
<1> SUFFICES ASSUME TypeInv, [HubNext]_hubVars
             PROVE  TypeInv'
  OBVIOUS
<1> USE DEF TypeInv, HubTypeOK
<1>1. CASE Spawn
  BY <1>1 DEF Spawn, EventNo
<1>2. ASSUME NEW n \in EventNo, Send(n)
      PROVE  TypeInv'
  <2>1. broadcast' \in Seq(EventNo) /\ Len(broadcast') = Len(broadcast) + 1
    BY <1>2, AppendFacts DEF Send
  <2>2. Len(broadcast) \in Nat
    OBVIOUS
  <2> QED
    BY <1>2, <2>1, <2>2 DEF Send
<1>3. ASSUME NEW c \in Clients, Upgrade(c)
      PROVE  TypeInv'
  BY <1>3 DEF Upgrade
<1>4. ASSUME NEW c \in Clients, Register(c)
      PROVE  TypeInv'
  <2>1. Len(log) \in Nat
    OBVIOUS
  <2> QED
    BY <1>4, <2>1 DEF Register, Selecting
<1>5. CASE Take
  <2>1. /\ Head(broadcast) \in EventNo
        /\ Tail(broadcast) \in Seq(EventNo)
        /\ Len(Tail(broadcast)) <= Capacity
    BY <1>5, HeadTailFacts DEF Take
  <2>2. Append(log, Head(broadcast)) \in Seq(EventNo) /\ Len(Append(log, Head(broadcast))) > 0
    <3>1. log \in Seq(EventNo) /\ Len(log) \in Nat
      OBVIOUS
    <3>2. /\ Append(log, Head(broadcast)) \in Seq(EventNo)
          /\ Len(Append(log, Head(broadcast))) = Len(log) + 1
      BY <2>1, <3>1, AppendFacts
    <3> QED
      BY <3>1, <3>2
  <2> QED
    BY <1>5, <2>1, <2>2 DEF Take
<1>6. ASSUME NEW c \in Clients, Write(c)
      PROVE  TypeInv'
  <2>1. log[Len(log)] \in EventNo
    BY <1>6 DEF Write
  <2>2. Append(inbox[c], log[Len(log)]) \in Seq(EventNo)
    BY <2>1, AppendFacts
  <2> QED
    BY <1>6, <2>2 DEF Write
<1>7. ASSUME NEW c \in Clients, WriteSwallowed(c) \/ WriteFails(c)
      PROVE  TypeInv'
  BY <1>7 DEF WriteSwallowed, WriteFails
<1>8. ASSUME NEW c \in Clients, PeerStalls(c) \/ PeerReadsOn(c) \/ PeerLeaves(c)
      PROVE  TypeInv'
  BY <1>8 DEF PeerStalls, PeerReadsOn, PeerLeaves
<1>9. CASE UNCHANGED hubVars
  BY <1>9 DEF hubVars
<1> QED
  BY <1>1, <1>2, <1>3, <1>4, <1>5, <1>6, <1>7, <1>8, <1>9 DEF HubNext

\* Type correctness of the hub: among others, the channel is never overfull,
\* and Run writes to registered clients only.
THEOREM HubTypeCorrect == HubSpec => []HubTypeOK
<1>1. TypeInv => HubTypeOK
  BY DEF TypeInv
<1> QED
  BY <1>1, TypeInvInit, TypeInvStep, PTL DEF HubSpec

-----------------------------------------------------------------------------
\* A connection that is not registered yet has been sent nothing.
Unregistered ==
  \A c \in Clients :
    conn[c] \in {"new", "registering"} => inbox[c] = <<>> /\ c \notin clients

\* The three conjuncts of ContiguousFeed, for one client.
Contiguous(c) ==
  /\ since[c] + Len(inbox[c]) <= Len(log)
  /\ \A i \in 1..Len(inbox[c]) : inbox[c][i] = log[since[c] + i]
  /\ c \in clients /\ peer[c] # "gone" =>
       since[c] + Len(inbox[c]) = Len(log) - (IF c \in pending THEN 1 ELSE 0)

FeedInv == TypeInv /\ Unregistered /\ \A c \in Clients : Contiguous(c)

LEMMA FeedInvInit == HubInit => FeedInv
BY TypeInvInit DEF HubInit, FeedInv, Unregistered, Contiguous

\* The log grows by an event that every client has still to be sent.
LEMMA TakeIsContiguous == FeedInv /\ Take => \A c \in Clients : Contiguous(c)'
<1> SUFFICES ASSUME FeedInv, Take, NEW c \in Clients
             PROVE  Contiguous(c)'
  OBVIOUS
<1>1. log \in Seq(EventNo) /\ Head(broadcast) \in EventNo
  BY HeadTailFacts DEF FeedInv, TypeInv, HubTypeOK, Take
<1>2. /\ Len(log') = Len(log) + 1 /\ Len(log) \in Nat
      /\ \A i \in 1..Len(log) : log'[i] = log[i]
  BY <1>1, AppendFacts DEF Take
<1>3. since[c] \in Nat /\ Len(inbox[c]) \in Nat /\ Contiguous(c)
  BY DEF FeedInv, TypeInv, HubTypeOK
<1>4. \A i \in 1..Len(inbox[c]) : since[c] + i \in 1..Len(log)
  BY <1>2, <1>3 DEF Contiguous
<1>5. UNCHANGED <<since, inbox, clients, peer>> /\ pending = {} /\ pending' = clients
  BY DEF Take, Selecting
<1>6. \A i \in 1..Len(inbox[c]) : inbox[c][i] = log'[since[c] + i]
  BY <1>2, <1>3, <1>4 DEF Contiguous
<1>7. since[c] + Len(inbox[c]) <= Len(log')
  BY <1>2, <1>3 DEF Contiguous
<1>8. c \in clients /\ peer[c] # "gone" => since[c] + Len(inbox[c]) = Len(log') - 1
  BY <1>2, <1>3, <1>5 DEF Contiguous
<1> QED
  BY <1>5, <1>6, <1>7, <1>8 DEF Contiguous

\* A write brings the client what is last in the log.
LEMMA WriteIsContiguous ==
  ASSUME FeedInv, NEW d \in Clients, Write(d)
  PROVE  \A c \in Clients : Contiguous(c)'
<1> SUFFICES ASSUME NEW c \in Clients
             PROVE  Contiguous(c)'
  OBVIOUS
<1>1. /\ d \in clients /\ d \in pending /\ peer[d] = "reading"
      /\ UNCHANGED <<since, log, clients, peer>> /\ pending' = pending \ {d}
      /\ inbox' = [inbox EXCEPT ![d] = Append(@, log[Len(log)])]
  BY DEF Write, FeedInv, TypeInv, HubTypeOK
<1>2. /\ inbox \in [Clients -> Seq(EventNo)]
      /\ since[c] \in Nat /\ Len(inbox[c]) \in Nat /\ Len(log) \in Nat
      /\ Contiguous(c)
  BY DEF FeedInv, TypeInv, HubTypeOK
<1>3. CASE c # d
  BY <1>1, <1>2, <1>3 DEF Contiguous
<1>4. CASE c = d
  <2>1. log[Len(log)] \in EventNo
    BY <1>1 DEF FeedInv, TypeInv, HubTypeOK
  <2>2. /\ inbox'[c] = Append(inbox[c], log[Len(log)])
        /\ Len(inbox'[c]) = Len(inbox[c]) + 1
        /\ inbox'[c][Len(inbox[c]) + 1] = log[Len(log)]
        /\ \A i \in 1..Len(inbox[c]) : inbox'[c][i] = inbox[c][i]
    BY <1>1, <1>2, <1>4, <2>1, AppendFacts
  <2>3. since[c] + Len(inbox[c]) = Len(log) - 1
    BY <1>1, <1>2, <1>4 DEF Contiguous
  <2>4. \A i \in 1..Len(inbox'[c]) : inbox'[c][i] = log[since[c] + i]
    <3> TAKE i \in 1..Len(inbox'[c])
    <3>1. CASE i = Len(inbox[c]) + 1
      <4>1. since[c] + i = Len(log)
        BY <1>2, <2>3, <3>1
      <4> QED
        BY <2>2, <3>1, <4>1
    <3>2. CASE i # Len(inbox[c]) + 1
      <4>1. i \in 1..Len(inbox[c])
        BY <1>2, <2>2, <3>2
      <4> QED
        BY <1>2, <2>2, <4>1 DEF Contiguous
    <3> QED
      BY <3>1, <3>2
  <2>5. since[c] + Len(inbox'[c]) = Len(log) /\ c \notin pending'
    BY <1>1, <1>2, <1>4, <2>2, <2>3
  <2>6. Len(log) <= Len(log) /\ Len(log) - 0 = Len(log)
    BY <1>2
  <2> QED
    BY <1>1, <2>4, <2>5, <2>6 DEF Contiguous
<1> QED
  BY <1>3, <1>4

LEMMA FeedInvStep == FeedInv /\ [HubNext]_hubVars => FeedInv'
<1> SUFFICES ASSUME FeedInv, [HubNext]_hubVars
             PROVE  Unregistered' /\ \A c \in Clients : Contiguous(c)'
  BY TypeInvStep DEF FeedInv
<1>a. TypeInv /\ Unregistered /\ \A c \in Clients : Contiguous(c)
  BY DEF FeedInv
<1>b. \A c \in Clients : since[c] \in Nat /\ Len(inbox[c]) \in Nat /\ Len(log) \in Nat
  BY <1>a DEF TypeInv, HubTypeOK
<1>1. ASSUME Spawn \/ (\E n \in EventNo : Send(n)) \/ UNCHANGED hubVars
      PROVE  Unregistered' /\ \A c \in Clients : Contiguous(c)'
  <2>1. UNCHANGED <<clients, pending, conn, peer, inbox, log, since>>
    BY <1>1 DEF Spawn, Send, hubVars
  <2> QED
    BY <1>a, <2>1 DEF Unregistered, Contiguous
<1>2. ASSUME NEW d \in Clients, Upgrade(d)
      PROVE  Unregistered' /\ \A c \in Clients : Contiguous(c)'
  BY <1>a, <1>2 DEF Upgrade, Unregistered, Contiguous, TypeInv, HubTypeOK
<1>3. ASSUME NEW d \in Clients, Register(d)
      PROVE  Unregistered' /\ \A c \in Clients : Contiguous(c)'
  <2>1. /\ conn \in [Clients -> {"new", "registering", "member", "closed"}]
        /\ since \in [Clients -> Nat]
        /\ pending = {} /\ inbox[d] = <<>> /\ Len(inbox[d]) = 0
    BY <1>a, <1>3 DEF Register, Selecting, Unregistered, TypeInv, HubTypeOK
  <2>2. Unregistered'
    BY <1>a, <1>3, <2>1 DEF Register, Unregistered
  <2>3. ASSUME NEW c \in Clients
        PROVE  Contiguous(c)'
    <3>1. /\ UNCHANGED <<inbox, log, peer, pending>> /\ clients' = clients \cup {d}
          /\ since' = [since EXCEPT ![d] = Len(log)]
      BY <1>3 DEF Register
    <3>2. CASE c = d
      <4>1. since'[d] = Len(log) /\ Len(log) + 0 = Len(log) /\ Len(log) - 0 = Len(log)
            /\ Len(log) <= Len(log)
        BY <1>b, <2>1, <3>1
      <4>2. Len(inbox'[d]) = 0 /\ 1..0 = {} /\ d \notin pending'
        BY <2>1, <3>1
      <4>3. since'[d] + Len(inbox'[d]) = Len(log')
        BY <3>1, <4>1, <4>2
      <4> QED
        BY <3>1, <3>2, <4>1, <4>2, <4>3 DEF Contiguous
    <3>3. CASE c # d
      <4>1. since'[c] = since[c] /\ (c \in clients' => c \in clients)
        BY <2>1, <3>1, <3>3
      <4> QED
        BY <1>a, <3>1, <4>1 DEF Contiguous
    <3> QED
      BY <3>2, <3>3
  <2> QED
    BY <2>2, <2>3
<1>4. CASE Take
  BY <1>a, <1>4, TakeIsContiguous DEF Take, Unregistered
<1>5. ASSUME NEW d \in Clients, Write(d)
      PROVE  Unregistered' /\ \A c \in Clients : Contiguous(c)'
  <2>1. Unregistered'
    <3>1. d \in clients
      BY <1>a, <1>5 DEF Write, TypeInv, HubTypeOK
    <3> QED
      BY <1>a, <1>5, <3>1 DEF Write, Unregistered, TypeInv, HubTypeOK
  <2> QED
    BY <1>5, <2>1, WriteIsContiguous
<1>6. ASSUME NEW d \in Clients, WriteSwallowed(d) \/ WriteFails(d)
      PROVE  Unregistered' /\ \A c \in Clients : Contiguous(c)'
  <2>1. /\ UNCHANGED <<peer, inbox, log, since>>
        /\ peer[d] = "gone" /\ clients' \subseteq clients /\ pending' = pending \ {d}
        /\ \A c \in Clients : conn'[c] = conn[c] \/ conn'[c] = "closed"
    BY <1>a, <1>6 DEF WriteSwallowed, WriteFails, TypeInv, HubTypeOK
  <2> QED
    BY <1>a, <2>1 DEF Unregistered, Contiguous
<1>7. ASSUME NEW d \in Clients, PeerStalls(d) \/ PeerReadsOn(d) \/ PeerLeaves(d)
      PROVE  Unregistered' /\ \A c \in Clients : Contiguous(c)'
  <2>1. /\ UNCHANGED <<clients, pending, conn, inbox, log, since>>
        /\ \A c \in Clients : peer'[c] # "gone" => peer[c] # "gone"
    BY <1>a, <1>7 DEF PeerStalls, PeerReadsOn, PeerLeaves, TypeInv, HubTypeOK
  <2> QED
    BY <1>a, <2>1 DEF Unregistered, Contiguous
<1> QED
  BY <1>1, <1>2, <1>3, <1>4, <1>5, <1>6, <1>7 DEF HubNext

\* Every client is sent a contiguous part of what is broadcast, from its
\* registration on.
THEOREM FeedIsContiguous == HubSpec => []ContiguousFeed
<1>1. FeedInv => ContiguousFeed
  <2> SUFFICES ASSUME FeedInv, NEW c \in Clients
               PROVE  /\ since[c] + Len(inbox[c]) <= Len(log)
                      /\ inbox[c] = SubSeq(log, since[c] + 1, since[c] + Len(inbox[c]))
                      /\ c \in clients /\ peer[c] # "gone" =>
                           since[c] + Len(inbox[c]) = Len(log) - (IF c \in pending THEN 1 ELSE 0)
    BY DEF ContiguousFeed
  <2>1. /\ Contiguous(c) /\ since[c] \in Nat
        /\ inbox[c] \in Seq(EventNo) /\ log \in Seq(EventNo)
    BY DEF FeedInv, TypeInv, HubTypeOK
  <2> DEFINE part == SubSeq(log, since[c] + 1, since[c] + Len(inbox[c]))
  <2>2. /\ Len(part) = Len(inbox[c])
        /\ \A i \in 1..Len(inbox[c]) : part[i] = log[since[c] + i]
        /\ part \in Seq(EventNo)
    <3>1. Len(inbox[c]) \in Nat /\ since[c] + Len(inbox[c]) <= Len(log)
      BY <2>1 DEF Contiguous
    <3> DEFINE k == since[c]
               l == Len(inbox[c])
    <3>2. k \in Nat /\ l \in Nat /\ k + l <= Len(log) /\ log \in Seq(EventNo)
      BY <2>1, <3>1
    <3> HIDE DEF k, l, part
    <3>3. /\ SubSeq(log, k + 1, k + l) \in Seq(EventNo)
          /\ Len(SubSeq(log, k + 1, k + l)) = l
          /\ \A i \in 1..l : SubSeq(log, k + 1, k + l)[i] = log[k + i]
      BY <3>2, PartFacts
    <3> QED
      BY <3>3 DEF k, l, part
  <2>3. part = inbox[c]
    <3> HIDE DEF part
    <3> QED
      BY <2>1, <2>2, SeqEqual DEF Contiguous
  <2> QED
    BY <2>1, <2>3 DEF Contiguous
<1> QED
  BY <1>1, FeedInvInit, FeedInvStep, PTL DEF HubSpec

-----------------------------------------------------------------------------
\* No event is in two places, so none is taken that was taken before.
Apart ==
  /\ senders \cap Elements(broadcast) = {}
  /\ (senders \cup Elements(broadcast)) \cap Elements(log) = {}
  /\ \A i, j \in 1..Len(broadcast) : broadcast[i] = broadcast[j] => i = j

PlaceInv == TypeInv /\ EveryEventInOnePlace /\ Apart /\ IsFiniteSet(senders)

LEMMA PlaceInvInit == HubInit => PlaceInv
BY TypeInvInit, FS_EmptySet DEF HubInit, PlaceInv, EveryEventInOnePlace, Apart, Elements

LEMMA PlaceInvStep == PlaceInv /\ [HubNext]_hubVars => PlaceInv'
<1> USE HubAssumption
<1> SUFFICES ASSUME PlaceInv, [HubNext]_hubVars
             PROVE  EveryEventInOnePlace' /\ Apart' /\ IsFiniteSet(senders)'
  BY TypeInvStep DEF PlaceInv
<1>a. /\ broadcast \in Seq(EventNo) /\ log \in Seq(EventNo) /\ spawned \in Nat
      /\ 1..spawned = senders \cup Elements(broadcast) \cup Elements(log)
      /\ spawned = Cardinality(senders) + Len(broadcast) + Len(log)
      /\ IsFiniteSet(senders) /\ Cardinality(senders) \in Nat
      /\ Apart
  BY FS_CardinalityType DEF PlaceInv, TypeInv, HubTypeOK, EveryEventInOnePlace
<1>1. CASE Spawn
  <2>1. /\ spawned + 1 \notin senders
        /\ spawned + 1 \notin Elements(broadcast)
        /\ spawned + 1 \notin Elements(log)
    BY <1>a
  <2>2. /\ UNCHANGED <<broadcast, log>> /\ spawned' = spawned + 1
        /\ senders' = senders \cup {spawned + 1}
    BY <1>1 DEF Spawn
  <2>3. IsFiniteSet(senders') /\ Cardinality(senders') = Cardinality(senders) + 1
    BY <1>a, <2>1, <2>2, FS_AddElement
  <2>4. Elements(broadcast)' = Elements(broadcast) /\ Elements(log)' = Elements(log)
    BY <2>2 DEF Elements
  <2>5. 1..(spawned + 1) = (1..spawned) \cup {spawned + 1}
    BY <1>a
  <2>6. EveryEventInOnePlace'
    BY <1>a, <2>2, <2>3, <2>4, <2>5 DEF EveryEventInOnePlace
  <2>7. Apart'
    BY <1>a, <2>1, <2>2, <2>4 DEF Apart
  <2> QED
    BY <2>3, <2>6, <2>7
<1>2. ASSUME NEW n \in EventNo, Send(n)
      PROVE  EveryEventInOnePlace' /\ Apart' /\ IsFiniteSet(senders)'
  <2>1. /\ n \in senders /\ senders' = senders \ {n}
        /\ broadcast' = Append(broadcast, n) /\ UNCHANGED <<spawned, log>>
    BY <1>2 DEF Send
  <2>2. /\ Len(broadcast') = Len(broadcast) + 1 /\ Len(broadcast) \in Nat
        /\ broadcast'[Len(broadcast) + 1] = n
        /\ \A i \in 1..Len(broadcast) : broadcast'[i] = broadcast[i]
        /\ Elements(broadcast)' = Elements(broadcast) \cup {n}
        /\ Elements(log)' = Elements(log)
    <3>1. Elements(broadcast') = Elements(broadcast) \cup {n}
      BY <1>a, <2>1, AppendFacts
    <3> QED
      BY <1>a, <2>1, <3>1, AppendFacts DEF Elements
  <2>3. IsFiniteSet(senders') /\ Cardinality(senders') = Cardinality(senders) - 1
    BY <1>a, <2>1, FS_RemoveElement
  <2>4. EveryEventInOnePlace'
    BY <1>a, <2>1, <2>2, <2>3 DEF EveryEventInOnePlace
  <2>5. \A i \in 1..Len(broadcast) : broadcast[i] # n
    BY <1>a, <2>1 DEF Apart, Elements
  <2>6. ASSUME NEW i \in 1..Len(broadcast'), NEW j \in 1..Len(broadcast'),
               broadcast'[i] = broadcast'[j]
        PROVE  i = j
    <3>1. CASE i \in 1..Len(broadcast) /\ j \in 1..Len(broadcast)
      BY <1>a, <2>2, <2>6, <3>1 DEF Apart
    <3>2. CASE i \notin 1..Len(broadcast) \/ j \notin 1..Len(broadcast)
      BY <2>2, <2>5, <2>6, <3>2
    <3> QED
      BY <3>1, <3>2
  <2>7. Apart'
    BY <1>a, <2>1, <2>2, <2>6 DEF Apart
  <2> QED
    BY <2>3, <2>4, <2>7
<1>3. CASE Take
  <2>1. /\ broadcast # <<>> /\ UNCHANGED <<spawned, senders>>
        /\ log' = Append(log, Head(broadcast)) /\ broadcast' = Tail(broadcast)
    BY <1>3 DEF Take
  <2>2. /\ Head(broadcast) \in EventNo /\ Head(broadcast) = broadcast[1]
        /\ Len(broadcast) \in Nat \ {0} /\ Len(broadcast') = Len(broadcast) - 1
        /\ \A i \in 1..Len(broadcast') : broadcast'[i] = broadcast[i + 1]
        /\ Elements(broadcast) = {Head(broadcast)} \cup Elements(broadcast')
    BY <1>a, <2>1, HeadTailFacts
  <2>3. /\ Len(log') = Len(log) + 1 /\ Len(log) \in Nat
        /\ Elements(log') = Elements(log) \cup {Head(broadcast)}
    BY <1>a, <2>1, <2>2, AppendFacts
  <2>4. Elements(broadcast)' = Elements(broadcast') /\ Elements(log)' = Elements(log')
    BY DEF Elements
  <2>5. EveryEventInOnePlace'
    BY <1>a, <2>1, <2>2, <2>3, <2>4 DEF EveryEventInOnePlace
  <2>6. Head(broadcast) \notin Elements(broadcast')
    <3> SUFFICES ASSUME NEW i \in 1..Len(broadcast'), broadcast'[i] = broadcast[1]
                 PROVE  FALSE
      BY <2>2 DEF Elements
    <3>1. i + 1 \in 1..Len(broadcast) /\ 1 \in 1..Len(broadcast) /\ i + 1 # 1
      BY <2>2
    <3>2. broadcast[i + 1] = broadcast[1]
      BY <2>2
    <3> QED
      BY <1>a, <3>1, <3>2 DEF Apart
  <2>7. ASSUME NEW i \in 1..Len(broadcast'), NEW j \in 1..Len(broadcast'),
               broadcast'[i] = broadcast'[j]
        PROVE  i = j
    <3>1. i + 1 \in 1..Len(broadcast) /\ j + 1 \in 1..Len(broadcast)
      BY <2>2
    <3>2. broadcast[i + 1] = broadcast[j + 1]
      BY <2>2, <2>7
    <3>3. i + 1 = j + 1
      BY <1>a, <3>1, <3>2 DEF Apart
    <3> QED
      BY <3>3
  <2>8. Apart'
    BY <1>a, <2>1, <2>2, <2>3, <2>4, <2>6, <2>7 DEF Apart
  <2> QED
    BY <1>a, <2>1, <2>5, <2>8
<1>4. CASE UNCHANGED <<spawned, senders, broadcast, log>>
  <2>1. Elements(broadcast)' = Elements(broadcast) /\ Elements(log)' = Elements(log)
    BY <1>4 DEF Elements
  <2> QED
    BY <1>a, <1>4, <2>1 DEF EveryEventInOnePlace, Apart
<1> QED
  BY <1>1, <1>2, <1>3, <1>4
     DEF HubNext, hubVars, Upgrade, Register, Write, WriteSwallowed, WriteFails, PeerStalls,
         PeerReadsOn, PeerLeaves

\* Neither the channel nor Run drops or repeats an event, whatever the capacity.
THEOREM NoEventIsLost == HubSpec => []EveryEventInOnePlace
<1>1. PlaceInv => EveryEventInOnePlace
  BY DEF PlaceInv
<1> QED
  BY <1>1, PlaceInvInit, PlaceInvStep, PTL DEF HubSpec

-----------------------------------------------------------------------------
\* The refinement: Take broadcasts, Write delivers, Register joins, PeerLeaves
\* leaves, and every other step stutters.

LEMMA FeedRefInit == HubInit => FeedOfHub!FeedInit
BY DEF HubInit, FeedOfHub!FeedInit

LEMMA FeedRefStep ==
  FeedInv /\ PlaceInv /\ [HubNext]_hubVars => [FeedOfHub!FeedNext]_(FeedOfHub!feedVars)
<1> USE HubAssumption
<1> DEFINE joined == { c \in clients : peer[c] # "gone" }
           from == [c \in Clients |-> IF peer[c] = "gone" THEN 0 ELSE since[c]]
           seen == [c \in Clients |-> Len(inbox[c])]
<1> SUFFICES ASSUME FeedInv, PlaceInv, [HubNext]_hubVars
             PROVE  FeedOfHub!FeedNext \/ UNCHANGED <<log, joined, from, seen>>
  BY DEF FeedOfHub!feedVars
<1>a. /\ HubTypeOK /\ Unregistered /\ \A c \in Clients : Contiguous(c)
      /\ \A c \in Clients : since[c] \in Nat /\ Len(inbox[c]) \in Nat
      /\ Len(log) \in Nat
  BY DEF FeedInv, TypeInv, HubTypeOK
<1>1. CASE Take
  <2>1. /\ Selecting /\ broadcast # <<>> /\ log' = Append(log, Head(broadcast))
        /\ UNCHANGED <<clients, peer, since, inbox>>
    BY <1>1 DEF Take
  <2>2. Head(broadcast) \in EventNo /\ Head(broadcast) \in Elements(broadcast)
    BY <1>a, <2>1, HeadTailFacts DEF HubTypeOK
  <2>3. \A i \in 1..Len(log) : log[i] # Head(broadcast)
    BY <2>2 DEF PlaceInv, Apart, Elements
  <2>4. \A c \in joined : from[c] + seen[c] = Len(log)
    BY <1>a, <2>1 DEF HubTypeOK, Contiguous, Selecting
  <2>5. UNCHANGED <<joined, from, seen>>
    BY <2>1
  <2>6. FeedOfHub!Broadcast(Head(broadcast))
    BY <2>1, <2>3, <2>4, <2>5 DEF FeedOfHub!Broadcast, FeedOfHub!CaughtUp
  <2> QED
    BY <2>2, <2>6 DEF FeedOfHub!FeedNext
<1>2. ASSUME NEW c \in Clients, Write(c)
      PROVE  FeedOfHub!FeedNext
  <2>1. /\ c \in pending /\ c \in clients /\ peer[c] = "reading"
        /\ UNCHANGED <<clients, peer, since, log>>
        /\ inbox' = [inbox EXCEPT ![c] = Append(@, log[Len(log)])]
    BY <1>a, <1>2 DEF Write, HubTypeOK
  <2>2. c \in joined /\ from[c] + seen[c] # Len(log)
    BY <1>a, <2>1 DEF Contiguous
  <2>3. Len(Append(inbox[c], log[Len(log)])) = Len(inbox[c]) + 1
    <3>1. inbox[c] \in Seq(EventNo) /\ log[Len(log)] \in EventNo
      BY <2>1 DEF FeedInv, TypeInv, HubTypeOK
    <3> QED
      BY <3>1, AppendFacts
  <2>4. seen' = [seen EXCEPT ![c] = @ + 1] /\ UNCHANGED <<joined, from>>
    BY <1>a, <2>1, <2>3 DEF HubTypeOK
  <2>5. FeedOfHub!Deliver(c)
    BY <2>1, <2>2, <2>4 DEF FeedOfHub!Deliver, FeedOfHub!CaughtUp
  <2> QED
    BY <2>5 DEF FeedOfHub!FeedNext
<1>3. ASSUME NEW c \in Clients, Register(c)
      PROVE  FeedOfHub!FeedNext \/ UNCHANGED <<log, joined, from, seen>>
  <2>1. /\ c \notin clients /\ inbox[c] = <<>> /\ UNCHANGED <<log, peer, inbox>>
        /\ clients' = clients \cup {c} /\ since' = [since EXCEPT ![c] = Len(log)]
    BY <1>a, <1>3 DEF Register, Unregistered
  <2>2. CASE peer[c] = "gone"
    BY <1>a, <2>1, <2>2 DEF HubTypeOK
  <2>3. CASE peer[c] # "gone"
    <3>1. c \notin joined /\ seen[c] = 0 /\ UNCHANGED seen
      BY <2>1
    <3>2. joined' = joined \cup {c} /\ from' = [from EXCEPT ![c] = Len(log)]
      BY <1>a, <2>1, <2>3 DEF HubTypeOK
    <3>3. FeedOfHub!Join(c)
      BY <2>1, <3>1, <3>2 DEF FeedOfHub!Join
    <3> QED
      BY <3>3 DEF FeedOfHub!FeedNext
  <2> QED
    BY <2>2, <2>3
<1>4. ASSUME NEW c \in Clients, PeerLeaves(c)
      PROVE  FeedOfHub!FeedNext
  <2>1. /\ UNCHANGED <<log, clients, since, inbox>>
        /\ peer' = [peer EXCEPT ![c] = "gone"]
    BY <1>4 DEF PeerLeaves
  <2>2. joined' = joined \ {c} /\ from' = [from EXCEPT ![c] = 0] /\ UNCHANGED seen
    BY <1>a, <2>1 DEF HubTypeOK
  <2>3. FeedOfHub!Leave(c)
    BY <2>1, <2>2 DEF FeedOfHub!Leave
  <2> QED
    BY <2>3 DEF FeedOfHub!FeedNext
<1>5. ASSUME NEW c \in Clients, PeerStalls(c) \/ PeerReadsOn(c)
      PROVE  UNCHANGED <<log, joined, from, seen>>
  <2>1. /\ UNCHANGED <<log, clients, since, inbox>>
        /\ \A d \in Clients : peer'[d] = "gone" <=> peer[d] = "gone"
    BY <1>a, <1>5 DEF PeerStalls, PeerReadsOn, HubTypeOK
  <2> QED
    BY <1>a, <2>1 DEF HubTypeOK
<1>6. ASSUME NEW c \in Clients, WriteSwallowed(c) \/ WriteFails(c)
      PROVE  UNCHANGED <<log, joined, from, seen>>
  <2>1. /\ UNCHANGED <<log, peer, since, inbox>> /\ peer[c] = "gone"
        /\ clients' = clients \/ clients' = clients \ {c}
    BY <1>6 DEF WriteSwallowed, WriteFails
  <2> QED
    BY <2>1
<1>7. CASE Spawn \/ (\E n \in EventNo : Send(n)) \/ (\E c \in Clients : Upgrade(c)) \/ UNCHANGED hubVars
  BY <1>7 DEF Spawn, Send, Upgrade, hubVars
<1> QED
  BY <1>1, <1>2, <1>3, <1>4, <1>5, <1>6, <1>7 DEF HubNext

\* What a dashboard is sent is the feed: one log, from where it joined, in order
\* and one event behind at most.
THEOREM HubRefinesFeed == HubSpec => HubImplementsFeed
<1> QED
  BY FeedInvInit, FeedInvStep, PlaceInvInit, PlaceInvStep, FeedRefInit, FeedRefStep, PTL
     DEF HubSpec, HubImplementsFeed, FeedOfHub!FeedSpec

-----------------------------------------------------------------------------
\* What follows for a client.

\* Only Take extends the log, by an event that was still in the channel.
LogOnce == \A i, j \in 1..Len(log) : log[i] = log[j] => i = j

LEMMA LogOnceStep == PlaceInv /\ LogOnce /\ [HubNext]_hubVars => LogOnce'
<1> SUFFICES ASSUME PlaceInv, LogOnce, [HubNext]_hubVars
             PROVE  LogOnce'
  OBVIOUS
<1>1. CASE UNCHANGED log
  BY <1>1 DEF LogOnce
<1>2. CASE Take
  <2>1. /\ broadcast \in Seq(EventNo) /\ broadcast # <<>> /\ log \in Seq(EventNo)
        /\ log' = Append(log, Head(broadcast))
    BY <1>2 DEF Take, PlaceInv, TypeInv, HubTypeOK
  <2>2. Head(broadcast) \in EventNo /\ Head(broadcast) \in Elements(broadcast)
    BY <2>1, HeadTailFacts
  <2>3. \A i \in 1..Len(log) : log[i] # Head(broadcast)
    BY <2>2 DEF PlaceInv, Apart, Elements
  <2>4. /\ Len(log) \in Nat /\ Len(log') = Len(log) + 1 /\ log'[Len(log) + 1] = Head(broadcast)
        /\ \A i \in 1..Len(log) : log'[i] = log[i]
    BY <2>1, <2>2, AppendFacts
  <2>5. \A i \in 1..Len(log') : i \in 1..Len(log) \/ i = Len(log) + 1
    BY <2>4
  <2> QED
    BY <2>3, <2>4, <2>5 DEF LogOnce
<1> QED
  BY <1>1, <1>2
     DEF HubNext, hubVars, Spawn, Send, Upgrade, Register, Write, WriteSwallowed, WriteFails,
         PeerStalls, PeerReadsOn, PeerLeaves

LEMMA LogOnceAlways == HubSpec => [](FeedInv /\ LogOnce)
<1>1. HubInit => LogOnce
  BY DEF HubInit, LogOnce
<1> QED
  BY <1>1, FeedInvInit, FeedInvStep, PlaceInvInit, PlaceInvStep, LogOnceStep, PTL DEF HubSpec

\* The hub keeps the feed's promise: no event logged twice, and no client that is
\* still there more than one event behind.
THEOREM HubKeepsThePromise == HubSpec => []FeedOfHub!FeedPromise
<1>1. FeedInv /\ LogOnce => FeedOfHub!FeedPromise
  <2> SUFFICES ASSUME FeedInv, LogOnce
               PROVE  FeedOfHub!FeedPromise
    OBVIOUS
  <2>1. clients \subseteq Clients
    BY DEF FeedInv, TypeInv, HubTypeOK
  <2>2. ASSUME NEW c \in clients, peer[c] # "gone"
        PROVE  \/ since[c] + Len(inbox[c]) = Len(log)
               \/ since[c] + Len(inbox[c]) + 1 = Len(log)
    <3>1. c \in Clients /\ since[c] \in Nat /\ Len(inbox[c]) \in Nat /\ Len(log) \in Nat
      BY <2>1 DEF FeedInv, TypeInv, HubTypeOK
    <3>2. since[c] + Len(inbox[c]) = Len(log) - (IF c \in pending THEN 1 ELSE 0)
      BY <2>2, <3>1 DEF FeedInv, Contiguous
    <3> QED
      BY <3>1, <3>2
  <2> QED
    BY <2>1, <2>2 DEF LogOnce, FeedOfHub!FeedPromise, FeedOfHub!CaughtUp
<1> QED
  BY <1>1, LogOnceAlways, PTL

\* No client is sent an event twice, however its connection goes: two places of
\* what it got are two places of the log.
THEOREM NothingIsSentTwice ==
  HubSpec => [](\A c \in Clients : \A i, j \in 1..Len(inbox[c]) : inbox[c][i] = inbox[c][j] => i = j)
<1>1. FeedInv /\ LogOnce =>
        \A c \in Clients : \A i, j \in 1..Len(inbox[c]) : inbox[c][i] = inbox[c][j] => i = j
  <2> SUFFICES ASSUME FeedInv, LogOnce, NEW c \in Clients,
                      NEW i \in 1..Len(inbox[c]), NEW j \in 1..Len(inbox[c]),
                      inbox[c][i] = inbox[c][j]
               PROVE  i = j
    OBVIOUS
  <2>1. since[c] \in Nat /\ Len(inbox[c]) \in Nat /\ Len(log) \in Nat
    BY DEF FeedInv, TypeInv, HubTypeOK
  <2>2. /\ since[c] + Len(inbox[c]) <= Len(log)
        /\ inbox[c][i] = log[since[c] + i] /\ inbox[c][j] = log[since[c] + j]
    BY DEF FeedInv, Contiguous
  <2>3. \A k \in 1..Len(inbox[c]) : since[c] + k \in 1..Len(log)
    <3>1. since[c] + Len(inbox[c]) <= Len(log)
      BY <2>2
    <3> QED
      BY <2>1, <3>1
  <2>4. since[c] + i = since[c] + j
    BY <2>2, <2>3 DEF LogOnce
  <2> QED
    BY <2>1, <2>4
<1> QED
  BY <1>1, LogOnceAlways, PTL

=============================================================================
