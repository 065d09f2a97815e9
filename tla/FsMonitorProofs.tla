--------------------------- MODULE FsMonitorProofs ---------------------------
(***************************************************************************)
(* The properties of FsMonitor for any tree, any roots and exclusions, any *)
(* queue and any limit of the kernel's.                                    *)
(***************************************************************************)
EXTENDS FsMonitor, FiniteSetTheorems, SequenceTheorems, TLAPS

-----------------------------------------------------------------------------
\* Paths.

Below(p) == \E root \in Roots : IsPrefix(root, p)

\* The first n elements of a sequence.
LEMMA StartFacts ==
  ASSUME NEW S, NEW s \in Seq(S), NEW n \in Nat, n <= Len(s)
  PROVE  /\ SubSeq(s, 1, n) \in Seq(S) /\ Len(SubSeq(s, 1, n)) = n
         /\ \A i \in 1..n : SubSeq(s, 1, n)[i] = s[i]
<1>1. \A i \in 1..n : s[i] \in S
  OBVIOUS
<1>2. /\ SubSeq(s, 1, n) \in Seq(S)
      /\ Len(SubSeq(s, 1, n)) = IF 1 <= n THEN n - 1 + 1 ELSE 0
      /\ \A i \in 1..(n - 1 + 1) : SubSeq(s, 1, n)[i] = s[1 + i - 1]
  BY <1>1, SubSeqProperties
<1>3. (IF 1 <= n THEN n - 1 + 1 ELSE 0) = n /\ n - 1 + 1 = n
  OBVIOUS
<1>4. \A i \in 1..n : 1 + i - 1 = i
  OBVIOUS
<1> QED
  BY <1>2, <1>3, <1>4

LEMMA FrontFacts ==
  ASSUME NEW S, NEW s \in Seq(S), s # <<>>
  PROVE  /\ Front(s) \in Seq(S) /\ Len(s) \in Nat \ {0} /\ Len(Front(s)) = Len(s) - 1
         /\ \A i \in 1..(Len(s) - 1) : Front(s)[i] = s[i]
<1>1. Len(s) \in Nat \ {0}
  OBVIOUS
<1>2. Len(s) - 1 \in Nat /\ Len(s) - 1 <= Len(s)
  BY <1>1
<1> QED
  BY <1>1, <1>2, StartFacts DEF Front

\* What is in a directory below a root is below that root.
LEMMA ChildIsBelow ==
  ASSUME NEW p \in Paths, Below(Front(p))
  PROVE  Below(p)
<1>1. p \in Seq(STRING) /\ p # <<>> /\ Roots \subseteq Seq(STRING)
  BY FsAssumption
<1>2. PICK root \in Roots : IsPrefix(root, Front(p))
  BY DEF Below
<1>3. /\ Front(p) \in Seq(STRING) /\ Len(p) \in Nat \ {0} /\ Len(Front(p)) = Len(p) - 1
      /\ \A i \in 1..(Len(p) - 1) : Front(p)[i] = p[i]
  BY <1>1, FrontFacts
<1> DEFINE n == Len(root)
<1>4. n \in Nat /\ n <= Len(Front(p)) /\ n <= Len(p)
      /\ SubSeq(root, 1, n) = SubSeq(Front(p), 1, n)
  BY <1>1, <1>2, <1>3 DEF IsPrefix
<1> HIDE DEF n
<1>5. SubSeq(Front(p), 1, n) = SubSeq(p, 1, n)
  <2>1. /\ SubSeq(Front(p), 1, n) \in Seq(STRING) /\ Len(SubSeq(Front(p), 1, n)) = n
        /\ \A i \in 1..n : SubSeq(Front(p), 1, n)[i] = Front(p)[i]
    BY <1>3, <1>4, StartFacts
  <2>2. /\ SubSeq(p, 1, n) \in Seq(STRING) /\ Len(SubSeq(p, 1, n)) = n
        /\ \A i \in 1..n : SubSeq(p, 1, n)[i] = p[i]
    BY <1>1, <1>4, StartFacts
  <2>3. \A i \in 1..n : Front(p)[i] = p[i]
    BY <1>3, <1>4
  <2> QED
    BY <2>1, <2>2, <2>3, SeqEqual
<1>6. IsPrefix(root, p)
  BY <1>4, <1>5 DEF IsPrefix, n
<1> QED
  BY <1>6 DEF Below

LEMMA RootIsBelow ==
  ASSUME NEW root \in Roots
  PROVE  Below(root)
<1>1. root \in Seq(STRING) /\ Len(root) <= Len(root)
  BY FsAssumption
<1> QED
  BY <1>1 DEF Below, IsPrefix

-----------------------------------------------------------------------------
\* The queue.

InQueue(e) == \E i \in 1..Len(queue) : queue[i] = e

LEMMA EventFacts ==
  /\ \A op \in {"Create", "Write", "Remove", "Rename", "Chmod"}, p \in Paths :
       [op |-> op, path |-> p] \in FsEvents
  /\ Overflow.op = "Overflow"
BY DEF FsEvents, EventType, Overflow

\* What Notify does to the queue: it keeps what was there, and adds events of
\* the change and perhaps an overflow.
LEMMA NotifyFacts ==
  ASSUME queue \in Seq(FsEvents \cup {Overflow}), Len(queue) <= QueueCapacity + 1,
         NEW events \in Seq(FsEvents), Notify(events)
  PROVE  /\ queue' \in Seq(FsEvents \cup {Overflow}) /\ Len(queue') <= QueueCapacity + 1
         /\ \A e : InQueue(e) => InQueue(e)'
         /\ \A e : InQueue(e)' => InQueue(e) \/ e = Overflow
                                  \/ \E i \in 1..Len(events) : events[i] = e
         /\ Queued(events) # <<>> =>
              events # <<>> /\ \E i \in 1..Len(queue') : queue'[i] = events[1]
<1> DEFINE All == FsEvents \cup {Overflow}
           room == QueueCapacity - Len(queue)
           n == IF room < Len(events) THEN room ELSE Len(events)
           part == Queued(events)
<1>1. /\ QueueCapacity \in Nat /\ Len(queue) \in Nat /\ Len(events) \in Nat
      /\ queue \in Seq(All) /\ Len(queue) <= QueueCapacity + 1
  BY FsAssumption
<1>2. part = SubSeq(events, 1, n)
  BY DEF Queued
<1>3. /\ part \in Seq(FsEvents) /\ Len(part) \in 0..Len(events)
      /\ Len(part) = IF 1 <= n THEN n ELSE 0
      /\ \A i \in 1..Len(part) : part[i] = events[i]
  <2>1. n \in Int /\ n <= Len(events)
    BY <1>1
  <2>2. \A i \in 1..n : events[i] \in FsEvents
    BY <2>1
  <2> HIDE DEF n
  <2>3. /\ SubSeq(events, 1, n) \in Seq(FsEvents)
        /\ Len(SubSeq(events, 1, n)) = IF 1 <= n THEN n - 1 + 1 ELSE 0
        /\ \A i \in 1..(n - 1 + 1) : SubSeq(events, 1, n)[i] = events[1 + i - 1]
    BY <2>1, <2>2, SubSeqProperties
  <2>4. n - 1 + 1 = n /\ \A i \in 1..n : 1 + i - 1 = i
    BY <2>1
  <2> QED
    BY <1>1, <1>2, <2>1, <2>3, <2>4
<1>4. n <= room
  BY <1>1
<1> DEFINE rest == IF part = events \/ Len(queue) > QueueCapacity THEN part
                   ELSE part \o <<Overflow>>
<1>5. queue' = queue \o rest
  BY DEF Notify, Added
<1>6. /\ rest \in Seq(All)
      /\ \A i \in 1..Len(rest) : rest[i] = Overflow \/ \E k \in 1..Len(events) : events[k] = rest[i]
      /\ Len(queue) + Len(rest) <= QueueCapacity + 1
      /\ Len(part) <= Len(rest)
      /\ \A i \in 1..Len(part) : rest[i] = part[i]
  <2> HIDE DEF n, part, room
  <2>1. part \in Seq(All) /\ <<Overflow>> \in Seq(All) /\ Len(<<Overflow>>) = 1
    BY <1>3
  <2>2. CASE part = events \/ Len(queue) > QueueCapacity
    <3>1. rest = part
      BY <2>2
    <3>2. Len(queue) + Len(part) <= QueueCapacity + 1
      BY <1>1, <1>3, <1>4 DEF room
    <3> QED
      BY <1>3, <2>1, <3>1, <3>2
  <2>3. CASE ~(part = events \/ Len(queue) > QueueCapacity)
    <3>1. rest = part \o <<Overflow>>
      BY <2>3
    <3>2. Len(queue) + Len(part) <= QueueCapacity
      BY <1>1, <1>3, <1>4, <2>3 DEF room
    <3>3. /\ rest \in Seq(All) /\ Len(rest) = Len(part) + 1
          /\ \A i \in 1..Len(part) : rest[i] = part[i]
          /\ rest[Len(part) + 1] = Overflow
      <4> DEFINE last == <<Overflow>>
      <4>1. Len(part) \in Nat /\ last[1] = Overflow /\ last \in Seq(All) /\ Len(last) = 1
        BY <1>3, <2>1
      <4>a. rest = part \o last
        BY <3>1
      <4> HIDE DEF last, rest, All
      <4>b. /\ part \o last \in Seq(All) /\ Len(part \o last) = Len(part) + Len(last)
            /\ \A i \in 1..Len(part) + Len(last) :
                 (part \o last)[i] = IF i <= Len(part) THEN part[i] ELSE last[i - Len(part)]
        BY <2>1, <4>1, ConcatProperties
      <4>2. /\ rest \in Seq(All) /\ Len(rest) = Len(part) + 1
            /\ \A i \in 1..(Len(part) + 1) :
                 rest[i] = IF i <= Len(part) THEN part[i] ELSE last[i - Len(part)]
        BY <4>1, <4>a, <4>b
      <4>3. (Len(part) + 1) - Len(part) = 1 /\ ~(Len(part) + 1 <= Len(part))
        BY <4>1
      <4>4. rest[Len(part) + 1] = Overflow
        BY <4>1, <4>2, <4>3
      <4> QED
        BY <4>1, <4>2, <4>4
    <3>4. \A i \in 1..Len(rest) : i \in 1..Len(part) \/ i = Len(part) + 1
      BY <1>3, <3>3
    <3>5. ASSUME NEW i \in 1..Len(rest), rest[i] # Overflow
          PROVE  \E k \in 1..Len(events) : events[k] = rest[i]
      <4>1. i \in 1..Len(part)
        BY <3>3, <3>4, <3>5
      <4>2. rest[i] = part[i]
        BY <3>3, <4>1
      <4> HIDE DEF rest
      <4> QED
        BY <1>3, <4>1, <4>2
    <3>6. Len(queue) + Len(rest) <= QueueCapacity + 1 /\ Len(part) <= Len(rest)
      <4>1. Len(queue) \in Nat /\ Len(part) \in Nat /\ QueueCapacity \in Nat
        BY <1>1, <1>3
      <4> HIDE DEF rest
      <4> QED
        BY <3>2, <3>3, <4>1
    <3> HIDE DEF rest
    <3> QED
      BY <3>3, <3>5, <3>6
  <2> QED
    BY <2>2, <2>3
<1> HIDE DEF rest, part, n, room
<1>7. /\ queue' \in Seq(All) /\ Len(queue') = Len(queue) + Len(rest)
      /\ \A i \in 1..Len(queue) : queue'[i] = queue[i]
      /\ \A i \in 1..Len(rest) : queue'[Len(queue) + i] = rest[i]
  BY <1>1, <1>5, <1>6, ConcatProperties
<1>8. Len(rest) \in Nat
  BY <1>6
<1>9. ASSUME NEW e, InQueue(e)
      PROVE  InQueue(e)'
  BY <1>1, <1>7, <1>8, <1>9 DEF InQueue
<1>10. ASSUME NEW e, InQueue(e)'
       PROVE  InQueue(e) \/ e = Overflow \/ \E i \in 1..Len(events) : events[i] = e
  <2>1. PICK i \in 1..Len(queue') : queue'[i] = e
    BY <1>10 DEF InQueue
  <2>2. CASE i \in 1..Len(queue)
    BY <1>7, <2>1, <2>2 DEF InQueue
  <2>3. CASE i \notin 1..Len(queue)
    <3>1. i - Len(queue) \in 1..Len(rest) /\ Len(queue) + (i - Len(queue)) = i
      BY <1>1, <1>7, <1>8, <2>3
    <3>2. rest[i - Len(queue)] = e
      BY <1>7, <2>1, <3>1
    <3> QED
      BY <1>6, <3>1, <3>2
  <2> QED
    BY <2>2, <2>3
<1>11. ASSUME part # <<>>
       PROVE  events # <<>> /\ \E i \in 1..Len(queue') : queue'[i] = events[1]
  <2>1. Len(part) >= 1
    BY <1>3, <1>11
  <2>2. Len(events) >= 1 /\ rest[1] = events[1] /\ Len(rest) >= 1
    BY <1>1, <1>3, <1>6, <1>8, <2>1
  <2>3. queue'[Len(queue) + 1] = events[1] /\ Len(queue) + 1 \in 1..Len(queue')
    BY <1>1, <1>7, <1>8, <2>2
  <2> QED
    BY <2>2, <2>3
<1> QED
  BY <1>1, <1>6, <1>7, <1>9, <1>10, <1>11 DEF part

-----------------------------------------------------------------------------
\* The inductive invariant, in parts.

\* Where there is a walk, and what there is of it.
WalkPhases ==
  /\ loop \notin {"starting", "walking"} => walk = {} /\ reading = {}
  /\ loop # "starting" => roots = {}
  /\ loop = "new" => watched = {}
  /\ reading = {} => names = {}
  /\ \A p \in reading : reading = {p} /\ ~IsExcluded(p)

\* watchedDirs against the watches.
WatchesInv ==
  /\ watched \subseteq watchedDirs
  /\ stopping # "closed" => watchedDirs \subseteq watched \cup unwatched
  /\ \A p \in watched : ~IsExcluded(p)

\* All that the monitor works on is below a root.
AllBelow ==
  /\ \A p \in watched \cup walk \cup reading \cup names : Below(p)
  /\ \A e : InQueue(e) => e = Overflow \/ Below(e.path)
  /\ current = Overflow \/ Below(current.path)

\* A directory that ought to be watched once its parent has been read, and the
\* places where it may be.
Candidate(p) ==
  /\ tree[p] = "dir" /\ ~IsExcluded(p)
  /\ (p \in Roots /\ loop # "new") \/ Parent(p) \in watched \cup reading

ToCome(p) ==
  \/ \E e : InQueue(e) /\ e.op = "Create" /\ e.path = p
  \/ loop = "busy" /\ current.op = "Create" /\ current.path = p

Accounted(p) ==
  \/ p \in watched \cup ToVisit \cup unwatched \cup missed \cup refused \cup unread
  \/ ToCome(p)

NoBlindSpot == stopping # "closed" => \A p \in Paths : Candidate(p) => Accounted(p)

FsInv ==
  /\ FsTypeOK
  /\ WalkPhases
  /\ WatchesInv
  /\ AllBelow
  /\ NoBlindSpot

LEMMA FsInvInit == FsInit => FsInv
<1> SUFFICES ASSUME FsInit
             PROVE  FsInv
  OBVIOUS
<1>1. FsTypeOK
  BY FsAssumption DEF FsInit, FsTypeOK
<1>2. ~ \E e : InQueue(e)
  BY DEF FsInit, InQueue
<1>3. WalkPhases /\ WatchesInv /\ AllBelow
  BY <1>2 DEF FsInit, WalkPhases, WatchesInv, AllBelow
<1>4. NoBlindSpot
  BY DEF FsInit, NoBlindSpot, Candidate
<1> QED
  BY <1>1, <1>3, <1>4 DEF FsInv

-----------------------------------------------------------------------------
\* The changes of the tree.

\* What the four changes have in common: the walk and the loop stay, events go
\* into the queue, and a directory that was there before is as accounted for as
\* it was, unless it is the one that goes.
LEMMA ChangeKeeps ==
  ASSUME FsInv, Change, NEW events \in Seq(FsEvents), Notify(events),
         \A i \in 1..Len(events) : Below(events[i].path),
         tree' \in [Paths -> {"absent", "file", "dir", "link"}],
         watched' \subseteq watched, unwatched \subseteq unwatched',
         watched \subseteq watched' \cup unwatched', unwatched' \subseteq unwatched \cup watched,
         watched' \subseteq { p \in Paths : tree'[p] # "absent" },
         missed' \subseteq Paths, refused' \subseteq Paths, unread' \subseteq Paths,
         \A p \in Paths : tree'[p] = "dir" =>
           /\ p \in missed => p \in missed'
           /\ p \in refused => p \in refused'
           /\ p \in unread => p \in unread'
           /\ tree[p] = "dir" \/ (Candidate(p)' => Accounted(p)')
  PROVE  FsInv'
<1>1. FsTypeOK /\ WalkPhases /\ WatchesInv /\ AllBelow /\ NoBlindSpot
  BY DEF FsInv
<1>2. /\ UNCHANGED <<watchedDirs, roots, walk, reading, names, loop, stopping, current, failures>>
      /\ changes' = changes + 1 /\ changes < MaxChanges
  BY DEF Change, walkVars
<1>3. /\ queue' \in Seq(FsEvents \cup {Overflow}) /\ Len(queue') <= QueueCapacity + 1
      /\ \A e : InQueue(e) => InQueue(e)'
      /\ \A e : InQueue(e)' => InQueue(e) \/ e = Overflow
                               \/ \E i \in 1..Len(events) : events[i] = e
  BY <1>1, NotifyFacts DEF FsTypeOK
<1>4. FsTypeOK'
  <2>1. changes' \in 0..MaxChanges
    BY <1>1, <1>2, FsAssumption DEF FsTypeOK
  <2>2. unwatched' \subseteq watchedDirs
    BY <1>1 DEF FsTypeOK, WatchesInv
  <2> QED
    BY <1>1, <1>2, <1>3, <2>1, <2>2 DEF FsTypeOK
<1>5. WalkPhases' /\ WatchesInv'
  BY <1>1, <1>2 DEF WalkPhases, WatchesInv
<1>6. AllBelow'
  <2>1. \A e : InQueue(e)' => e = Overflow \/ Below(e.path)
    BY <1>1, <1>3 DEF AllBelow
  <2> QED
    BY <1>1, <1>2, <2>1 DEF AllBelow
<1>7. NoBlindSpot'
  <2> SUFFICES ASSUME stopping # "closed", NEW p \in Paths, Candidate(p)'
               PROVE  Accounted(p)'
    BY <1>2 DEF NoBlindSpot
  <2>1. CASE tree[p] = "dir"
    <3>1. Candidate(p)
      BY <1>2, <2>1 DEF Candidate, Parent
    <3>2. Accounted(p)
      BY <1>1, <3>1 DEF NoBlindSpot
    <3>3. ToCome(p) => ToCome(p)'
      BY <1>2, <1>3 DEF ToCome
    <3>4. tree'[p] = "dir"
      BY DEF Candidate
    <3> QED
      BY <1>2, <3>2, <3>3, <3>4 DEF Accounted, ToVisit
  <2>2. CASE tree[p] # "dir"
    BY <2>2 DEF Candidate
  <2> QED
    BY <2>1, <2>2
<1> QED
  BY <1>4, <1>5, <1>6, <1>7 DEF FsInv

\* The events of one change: they are below a root, as the watches are.
LEMMA EventOf ==
  ASSUME FsInv, NEW op \in {"Create", "Write", "Remove", "Rename", "Chmod"}, NEW p \in Paths
  PROVE  /\ Event(op, p) \in Seq(FsEvents)
         /\ \A i \in 1..Len(Event(op, p)) : Below(Event(op, p)[i].path)
         /\ Event(op, p) # <<>> => Event(op, p)[1] = [op |-> op, path |-> p]
<1> DEFINE e == [op |-> op, path |-> p]
<1>1. e \in FsEvents /\ e.path = p
  BY EventFacts
<1> HIDE DEF e
<1>2. CASE Notices(p)
  <2>1. Below(p)
    BY <1>2, ChildIsBelow DEF Notices, Parent, FsInv, AllBelow
  <2>2. Event(op, p) = <<e>>
    BY <1>2 DEF Event, e
  <2> QED
    BY <1>1, <2>1, <2>2 DEF e
<1>3. CASE ~Notices(p)
  BY <1>3 DEF Event
<1> QED
  BY <1>2, <1>3

LEMMA MakeKeeps ==
  ASSUME FsInv, NEW p \in Paths, NEW kind \in {"file", "dir"}, Make(p, kind)
  PROVE  FsInv'
<1> DEFINE events == Event("Create", p)
<1>1. FsTypeOK
  BY DEF FsInv
<1>2. /\ Change /\ Notify(events) /\ UNCHANGED <<watched, unwatched, refused, unread>>
      /\ tree[p] = "absent" /\ tree' = [tree EXCEPT ![p] = kind]
      /\ missed' = IF ComesUnseen(p) THEN missed \cup {p} ELSE missed
      /\ ComesUnseen(p) <=>
           /\ Queued(events) = <<>> /\ p \notin ToVisit
           /\ Notices(p) \/ Parent(p) \in reading \/ (p \in Roots /\ loop # "new")
  BY DEF Make, ComesUnseen
<1>3. /\ events \in Seq(FsEvents) /\ \A i \in 1..Len(events) : Below(events[i].path)
      /\ events # <<>> => events[1] = [op |-> "Create", path |-> p]
  BY EventOf
<1> HIDE DEF events
<1>4. /\ tree' \in [Paths -> {"absent", "file", "dir", "link"}] /\ tree'[p] = kind
      /\ \A q \in Paths : q # p => tree'[q] = tree[q]
  BY <1>1, <1>2 DEF FsTypeOK
<1>5. Candidate(p)' => Accounted(p)'
  <2>a. UNCHANGED <<roots, walk, reading, names, loop>>
    BY <1>2 DEF Change, walkVars
  <2>1. CASE Queued(events) = <<>>
    <3>1. Candidate(p)' => Notices(p) \/ Parent(p) \in reading \/ (p \in Roots /\ loop # "new")
      BY <1>2, <2>a DEF Candidate, Parent, Notices
    <3>2. p \in ToVisit => p \in ToVisit'
      BY <2>a DEF ToVisit
    <3>3. Candidate(p)' => p \in missed' \cup ToVisit'
      BY <1>2, <2>1, <3>1, <3>2
    <3> QED
      BY <3>3 DEF Accounted
  <2>2. CASE Queued(events) # <<>>
    <3>1. events # <<>> /\ \E i \in 1..Len(queue') : queue'[i] = events[1]
      BY <1>1, <1>2, <1>3, <2>2, NotifyFacts DEF FsTypeOK
    <3>2. events[1].op = "Create" /\ events[1].path = p
      BY <1>3, <3>1
    <3> QED
      BY <3>1, <3>2 DEF InQueue, ToCome, Accounted
  <2> QED
    BY <2>1, <2>2
<1>6. /\ missed \subseteq missed' /\ missed' \subseteq Paths
      /\ watched' \subseteq { q \in Paths : tree'[q] # "absent" }
  BY <1>1, <1>2, <1>4 DEF FsTypeOK
<1> QED
  BY <1>1, <1>2, <1>3, <1>4, <1>5, <1>6, ChangeKeeps DEF FsTypeOK

LEMMA UnlinkKeeps ==
  ASSUME FsInv, NEW p \in Paths, Unlink(p)
  PROVE  FsInv'
<1> DEFINE events == IF p \in watched THEN <<[op |-> "Remove", path |-> p]>> ELSE Event("Remove", p)
<1>1. FsTypeOK
  BY DEF FsInv
<1>2. /\ Change /\ Notify(events)
      /\ tree' = [tree EXCEPT ![p] = "absent"]
      /\ watched' = watched \ {p} /\ unwatched' = unwatched \cup (watched \cap {p})
      /\ missed' = missed \ {p} /\ refused' = refused \ {p} /\ unread' = unread \ {p}
  BY DEF Unlink
<1>3. events \in Seq(FsEvents) /\ \A i \in 1..Len(events) : Below(events[i].path)
  <2>1. CASE p \in watched
    <3>1. [op |-> "Remove", path |-> p] \in FsEvents /\ Below(p)
      BY <2>1, EventFacts DEF FsInv, AllBelow
    <3> QED
      BY <2>1, <3>1
  <2>2. CASE p \notin watched
    BY <2>2, EventOf
  <2> QED
    BY <2>1, <2>2
<1>4. /\ tree' \in [Paths -> {"absent", "file", "dir", "link"}] /\ tree'[p] = "absent"
      /\ \A q \in Paths : q # p => tree'[q] = tree[q]
  BY <1>1, <1>2 DEF FsTypeOK
<1>5. /\ missed' \subseteq Paths /\ refused' \subseteq Paths /\ unread' \subseteq Paths
      /\ watched' \subseteq { q \in Paths : tree'[q] # "absent" }
  BY <1>1, <1>2, <1>4 DEF FsTypeOK
<1> HIDE DEF events
<1> QED
  BY <1>2, <1>3, <1>4, <1>5, ChangeKeeps

LEMMA RenameFileKeeps ==
  ASSUME FsInv, NEW p \in Paths, NEW q \in Paths, RenameFile(p, q)
  PROVE  FsInv'
<1> DEFINE left  == Event("Rename", p)
           right == Event("Create", q)
<1>1. FsTypeOK
  BY DEF FsInv
<1>2. /\ Change /\ Notify(left \o right)
      /\ tree[p] = "file" /\ tree[q] = "absent"
      /\ tree' = [tree EXCEPT ![p] = "absent", ![q] = "file"]
      /\ watched' = watched \ {p} /\ unwatched' = unwatched \cup (watched \cap {p})
      /\ missed' = missed \ {p} /\ UNCHANGED <<refused, unread>>
  BY DEF RenameFile
<1>3. /\ left \in Seq(FsEvents) /\ \A i \in 1..Len(left) : Below(left[i].path)
      /\ right \in Seq(FsEvents) /\ \A i \in 1..Len(right) : Below(right[i].path)
  BY EventOf
<1>4. /\ tree' \in [Paths -> {"absent", "file", "dir", "link"}]
      /\ p # q /\ tree'[p] = "absent" /\ tree'[q] = "file"
      /\ \A r \in Paths : r # p /\ r # q => tree'[r] = tree[r]
  BY <1>1, <1>2 DEF FsTypeOK
<1>5. /\ missed' \subseteq Paths /\ refused' \subseteq Paths /\ unread' \subseteq Paths
      /\ watched' \subseteq { r \in Paths : tree'[r] # "absent" }
  BY <1>1, <1>2, <1>4 DEF FsTypeOK
<1> HIDE DEF left, right
<1>6. left \o right \in Seq(FsEvents) /\ \A i \in 1..Len(left \o right) : Below((left \o right)[i].path)
  <2>1. /\ left \o right \in Seq(FsEvents) /\ Len(left \o right) = Len(left) + Len(right)
        /\ \A i \in 1..Len(left) + Len(right) :
             (left \o right)[i] = IF i <= Len(left) THEN left[i] ELSE right[i - Len(left)]
    BY <1>3, ConcatProperties
  <2>2. Len(left) \in Nat /\ Len(right) \in Nat
    BY <1>3
  <2> SUFFICES ASSUME NEW i \in 1..Len(left) + Len(right)
               PROVE  Below((left \o right)[i].path)
    BY <2>1
  <2>3. CASE i <= Len(left)
    BY <1>3, <2>1, <2>2, <2>3
  <2>4. CASE ~(i <= Len(left))
    <3>1. i - Len(left) \in 1..Len(right)
      BY <2>2, <2>4
    <3> QED
      BY <1>3, <2>1, <2>4, <3>1
  <2> QED
    BY <2>3, <2>4
<1> QED
  BY <1>2, <1>4, <1>5, <1>6, ChangeKeeps

LEMMA TouchKeeps ==
  ASSUME FsInv, NEW p \in Paths, NEW op \in {"Write", "Chmod"}, Touch(p, op)
  PROVE  FsInv'
<1>1. /\ Change /\ Notify(Event(op, p))
      /\ UNCHANGED <<tree, watched, unwatched, missed, refused, unread>>
  BY DEF Touch
<1>2. /\ Event(op, p) \in Seq(FsEvents)
      /\ \A i \in 1..Len(Event(op, p)) : Below(Event(op, p)[i].path)
  BY EventOf
<1>3. FsTypeOK
  BY DEF FsInv
<1> QED
  BY <1>1, <1>2, <1>3, ChangeKeeps DEF FsTypeOK

-----------------------------------------------------------------------------
\* The walk.

LEMMA WalkNextIsStep == WalkNext => WalkStep
BY DEF WalkNext, Visit, VisitFails, Visits, AddWatch, AddFails, GoesOn

\* A visit reads a directory: what is in it is read with it.
LEMMA VisitKeeps ==
  ASSUME FsInv, NEW p \in Paths, Visit(p)
  PROVE  FsInv'
<1>1. FsTypeOK /\ WalkPhases /\ WatchesInv /\ AllBelow /\ NoBlindSpot
  BY DEF FsInv
<1>2. /\ UNCHANGED <<tree, changes, queue, loop, stopping, roots, current, unwatched,
                     watched, watchedDirs, refused, failures>>
      /\ reading = {} /\ names = {} /\ p \in walk
      /\ walk' = walk \ {p} /\ missed' = missed \ {p} /\ unread' = unread \ {p}
      /\ IF tree[p] = "dir" /\ ~IsExcluded(p)
         THEN reading' = {p} /\ names' = Children(tree, p)
         ELSE UNCHANGED <<reading, names>>
  BY <1>1 DEF Visit, Visits, WalkStep, treeVars, WalkPhases
<1>3. /\ Children(tree, p) \subseteq Paths
      /\ \A q \in Paths : q \in Children(tree, p) <=> tree[q] # "absent" /\ Front(q) = p
  <2>1. DOMAIN tree = Paths /\ \A q \in Paths : q # <<>>
    BY <1>1, FsAssumption DEF FsTypeOK
  <2> QED
    BY <2>1 DEF Children
<1>4. FsTypeOK'
  BY <1>1, <1>2, <1>3 DEF FsTypeOK
<1>5. WalkPhases' /\ WatchesInv'
  BY <1>1, <1>2 DEF WalkPhases, WatchesInv
<1>6. AllBelow'
  <2>1. Below(p) /\ \A q \in Children(tree, p) : Below(q)
    BY <1>1, <1>2, <1>3, ChildIsBelow DEF AllBelow
  <2> QED
    BY <1>1, <1>2, <2>1 DEF AllBelow, InQueue
<1>7. NoBlindSpot'
  <2> SUFFICES ASSUME stopping # "closed", NEW q \in Paths, Candidate(q)'
               PROVE  Accounted(q)'
    BY <1>2 DEF NoBlindSpot
  <2>1. CASE Candidate(q)
    <3>1. Accounted(q)
      BY <1>1, <2>1 DEF NoBlindSpot
    <3>2. ToCome(q) => ToCome(q)'
      BY <1>2 DEF ToCome, InQueue
    <3>3. q = p => q \in reading'
      BY <1>2, <2>1 DEF Candidate
    <3> QED
      BY <1>2, <3>1, <3>2, <3>3 DEF Accounted, ToVisit
  <2>2. CASE ~Candidate(q)
    <3>1. q \in names'
      BY <1>2, <1>3, <2>2 DEF Candidate, Parent
    <3> QED
      BY <3>1 DEF Accounted, ToVisit
  <2> QED
    BY <2>1, <2>2
<1> QED
  BY <1>4, <1>5, <1>6, <1>7 DEF FsInv

\* A visit that fails leaves the directory unread.
LEMMA VisitFailsKeeps ==
  ASSUME FsInv, NEW p \in Paths, VisitFails(p)
  PROVE  FsInv'
<1>1. FsTypeOK /\ WalkPhases /\ WatchesInv /\ AllBelow /\ NoBlindSpot
  BY DEF FsInv
<1>2. /\ UNCHANGED <<tree, changes, queue, loop, stopping, roots, current, unwatched,
                     watched, watchedDirs, refused, reading, names, missed>>
      /\ p \in walk /\ walk' = walk \ {p} /\ unread' = unread \cup {p}
      /\ failures < MaxFailures /\ failures' = failures + 1
  BY DEF VisitFails, Visits, Fails, WalkStep, treeVars
<1>3. FsTypeOK'
  <2>1. failures' \in 0..MaxFailures
    BY <1>1, <1>2, FsAssumption DEF FsTypeOK
  <2> QED
    BY <1>1, <1>2, <2>1 DEF FsTypeOK
<1>4. WalkPhases' /\ WatchesInv' /\ AllBelow'
  BY <1>1, <1>2 DEF WalkPhases, WatchesInv, AllBelow, InQueue
<1>5. NoBlindSpot'
  <2> SUFFICES ASSUME stopping # "closed", NEW q \in Paths, Candidate(q)'
               PROVE  Accounted(q)'
    BY <1>2 DEF NoBlindSpot
  <2>1. Candidate(q)
    BY <1>2 DEF Candidate, Parent
  <2>2. Accounted(q)
    BY <1>1, <2>1 DEF NoBlindSpot
  <2>3. ToCome(q) => ToCome(q)'
    BY <1>2 DEF ToCome, InQueue
  <2> QED
    BY <1>2, <2>2, <2>3 DEF Accounted, ToVisit
<1> QED
  BY <1>3, <1>4, <1>5 DEF FsInv

\* Then the watch is added, unless there is one, there was one, there is nothing
\* to watch any more, or the kernel refuses.
LEMMA AddWatchKeeps ==
  ASSUME FsInv, NEW p \in Paths, AddWatch(p) \/ AddFails(p)
  PROVE  FsInv'
<1>1. FsTypeOK /\ WalkPhases /\ WatchesInv /\ AllBelow /\ NoBlindSpot
  BY DEF FsInv
<1>2. /\ UNCHANGED <<tree, changes, queue, loop, stopping, roots, current, unwatched, missed, unread>>
      /\ p \in reading /\ reading = {p} /\ ~IsExcluded(p)
      /\ reading' = {} /\ names' = {} /\ walk' = walk \cup names
  BY <1>1 DEF AddWatch, AddFails, GoesOn, WalkStep, treeVars, WalkPhases
<1>a. failures' \in 0..MaxFailures
  BY <1>1, FsAssumption DEF AddWatch, AddFails, Fails, FsTypeOK
<1>3. /\ watched \subseteq watched' /\ watched' \subseteq watched \cup {p}
      /\ watchedDirs \subseteq watchedDirs' /\ refused \subseteq refused'
      /\ refused' \subseteq refused \cup {p}
      /\ p \in watched' \/ watched' = watched
      /\ watched' # watched => watchedDirs' = watchedDirs \cup {p} /\ tree[p] # "absent"
      /\ \/ watchedDirs' = watchedDirs
         \/ watchedDirs' = watchedDirs \cup {p} /\ p \in watched'
      /\ stopping # "closed" /\ tree[p] = "dir" => p \in watched' \cup watchedDirs \cup refused'
  <2>1. Calls(p) => tree[p] # "absent"
    BY DEF Calls
  <2>2. stopping # "closed" /\ tree[p] = "dir" => Calls(p) \/ p \in watchedDirs
    BY DEF Calls
  <2>3. CASE AddWatch(p)
    <3> DEFINE room == Cardinality(watched) < WatchLimit
    <3>1. /\ watched' = IF Calls(p) /\ room THEN watched \cup {p} ELSE watched
          /\ watchedDirs' = IF Calls(p) /\ room THEN watchedDirs \cup {p} ELSE watchedDirs
          /\ refused' = IF Calls(p) /\ ~room THEN refused \cup {p} ELSE refused
      BY <2>3 DEF AddWatch, AddOne
    <3> HIDE DEF room
    <3>2. CASE Calls(p) /\ room
      BY <2>1, <3>1, <3>2
    <3>3. CASE Calls(p) /\ ~room
      BY <3>1, <3>3
    <3>4. CASE ~Calls(p)
      BY <2>2, <3>1, <3>4
    <3> QED
      BY <3>2, <3>3, <3>4
  <2>4. CASE AddFails(p)
    <3>1. refused' = refused \cup {p} /\ UNCHANGED <<watched, watchedDirs>>
      BY <2>4 DEF AddFails
    <3> QED
      BY <3>1
  <2> QED
    BY <2>3, <2>4
<1>4. FsTypeOK'
  BY <1>1, <1>2, <1>3, <1>a DEF FsTypeOK
<1>5. WalkPhases' /\ WatchesInv'
  BY <1>1, <1>2, <1>3 DEF WalkPhases, WatchesInv
<1>6. AllBelow'
  BY <1>1, <1>2, <1>3 DEF AllBelow, InQueue
<1>7. NoBlindSpot'
  <2> SUFFICES ASSUME stopping # "closed", NEW q \in Paths, Candidate(q)'
               PROVE  Accounted(q)'
    BY <1>2 DEF NoBlindSpot
  <2>1. Candidate(q)
    BY <1>2, <1>3 DEF Candidate, Parent
  <2>2. Accounted(q)
    BY <1>1, <2>1 DEF NoBlindSpot
  <2>3. ToCome(q) => ToCome(q)'
    BY <1>2 DEF ToCome, InQueue
  <2>4. q = p => q \in watched' \cup unwatched \cup refused'
    BY <1>1, <1>3, <2>1 DEF WatchesInv, Candidate
  <2> QED
    BY <1>2, <1>3, <2>2, <2>3, <2>4 DEF Accounted, ToVisit
<1> QED
  BY <1>4, <1>5, <1>6, <1>7 DEF FsInv

-----------------------------------------------------------------------------
\* Start and the loop.

\* A step of the loop that leaves the queue alone, or takes its first event: it
\* has to account for what it takes out of roots, walk or current.
LEMMA LoopKeeps ==
  ASSUME FsInv,
         UNCHANGED <<tree, changes, watched, watchedDirs, reading, names, stopping,
                     unwatched, missed, refused>>,
         unread \subseteq unread', unread' \subseteq Paths, failures' \in 0..MaxFailures,
         loop' \in {"starting", "idle", "busy", "walking", "exited"}, loop # "exited",
         queue' \in Seq(FsEvents \cup {Overflow}), Len(queue') <= QueueCapacity + 1,
         \A e : InQueue(e)' => InQueue(e),
         roots' \subseteq Roots, walk' \subseteq Paths, \A p \in walk' : Below(p),
         current' \in FsEvents \cup {Overflow},
         current' = Overflow \/ Below(current'.path),
         loop' \notin {"starting", "walking"} => walk' = {} /\ reading = {},
         loop' # "starting" => roots' = {},
         \A p \in Paths : tree[p] = "dir" /\ ~IsExcluded(p) =>
           /\ p \in roots \cup walk => p \in roots' \cup walk'
           /\ p \in Roots /\ loop = "new" => p \in roots'
           /\ ToCome(p) => ToCome(p)' \/ p \in walk' \/ p \in unread'
  PROVE  FsInv'
<1>1. FsTypeOK /\ WalkPhases /\ WatchesInv /\ AllBelow /\ NoBlindSpot
  BY DEF FsInv
<1>2. FsTypeOK'
  BY <1>1 DEF FsTypeOK
<1>3. WalkPhases' /\ WatchesInv'
  BY <1>1 DEF WalkPhases, WatchesInv
<1>4. AllBelow'
  BY <1>1 DEF AllBelow
<1>5. NoBlindSpot'
  <2> SUFFICES ASSUME stopping # "closed", NEW p \in Paths, Candidate(p)'
               PROVE  Accounted(p)'
    BY DEF NoBlindSpot
  <2>1. tree[p] = "dir" /\ ~IsExcluded(p)
    BY DEF Candidate
  <2>2. CASE Candidate(p)
    <3>1. Accounted(p)
      BY <1>1, <2>2 DEF NoBlindSpot
    <3> QED
      BY <2>1, <3>1 DEF Accounted, ToVisit
  <2>3. CASE ~Candidate(p)
    <3>1. p \in Roots /\ loop = "new"
      BY <2>3 DEF Candidate, Parent
    <3> QED
      BY <2>1, <3>1 DEF Accounted, ToVisit
  <2> QED
    BY <2>2, <2>3
<1> QED
  BY <1>2, <1>3, <1>4, <1>5 DEF FsInv

\* The steps of the loop but for TakeEvent leave the queue alone.
LEMMA LoopStepKeeps ==
  ASSUME FsInv, Start \/ (\E root \in Roots : WalkRoot(root)) \/ StartLoop
                \/ Handle \/ LoopExits
  PROVE  FsInv'
<1>1. FsTypeOK /\ WalkPhases /\ AllBelow
  BY DEF FsInv
<1>2. /\ UNCHANGED <<tree, changes, watched, watchedDirs, reading, names, stopping,
                     unwatched, missed, refused, queue, current>>
      /\ loop' \in {"starting", "idle", "walking", "exited"} /\ loop # "exited"
  BY DEF Start, WalkRoot, StartLoop, Handle, Ignore, PublishEvent, EnterDirectory,
         PublishUnread, PublishDirectory, LoopExits, LoopStep, LoopGoes, treeVars
<1>a. PublishUnread \/ UNCHANGED <<failures, unread>>
  BY DEF Start, WalkRoot, StartLoop, Handle, Ignore, PublishEvent, EnterDirectory,
         PublishDirectory, LoopExits, LoopStep, failVars
<1>b. unread \subseteq unread' /\ unread' \subseteq Paths /\ failures' \in 0..MaxFailures
  <2>1. CASE PublishUnread
    <3>1. current \in FsEvents /\ current.path \in Paths
      BY <1>1, <2>1 DEF PublishUnread, FsTypeOK, FsEvents
    <3> QED
      BY <1>1, <2>1, <3>1, FsAssumption DEF PublishUnread, Fails, FsTypeOK
  <2>2. CASE UNCHANGED <<failures, unread>>
    BY <1>1, <2>2 DEF FsTypeOK
  <2> QED
    BY <1>a, <2>1, <2>2
<1>3. /\ queue' \in Seq(FsEvents \cup {Overflow}) /\ Len(queue') <= QueueCapacity + 1
      /\ \A e : InQueue(e)' => InQueue(e)
      /\ current' \in FsEvents \cup {Overflow}
      /\ current' = Overflow \/ Below(current'.path)
  BY <1>1, <1>2 DEF FsTypeOK, AllBelow, InQueue
<1>4. \A p \in Paths : ToCome(p) => ToCome(p)' \/ (loop = "busy" /\ current.op = "Create" /\ current.path = p)
  BY <1>2 DEF ToCome, InQueue
<1>5. CASE Start
  <2>1. /\ loop = "new" /\ loop' = "starting" /\ roots' = Roots /\ walk' = walk
    BY <1>5 DEF Start, LoopStep, LoopGoes
  <2> QED
    BY <1>1, <1>2, <1>b, <1>3, <1>4, <2>1, LoopKeeps DEF FsTypeOK, AllBelow, WalkPhases
<1>6. ASSUME NEW root \in Roots, WalkRoot(root)
      PROVE  FsInv'
  <2>1. /\ loop = "starting" /\ loop' = "starting" /\ walk = {} /\ reading = {}
        /\ roots' = roots \ {root} /\ walk' = IF IsExcluded(root) THEN {} ELSE {root}
    BY <1>6 DEF WalkRoot, LoopStep, LoopGoes, Walking
  <2>2. Below(root) /\ root \in Paths
    BY RootIsBelow, FsAssumption
  <2>3. roots' \subseteq Roots /\ walk' \subseteq Paths /\ \A p \in walk' : Below(p)
    BY <1>1, <2>1, <2>2 DEF FsTypeOK
  <2>4. \A p \in Paths : ~IsExcluded(p) /\ p \in roots \cup walk => p \in roots' \cup walk'
    BY <2>1
  <2> QED
    BY <1>2, <1>b, <1>3, <1>4, <2>1, <2>3, <2>4, LoopKeeps
<1>7. CASE StartLoop
  <2>1. /\ loop = "starting" /\ loop' = "idle" /\ walk = {} /\ reading = {} /\ roots = {}
        /\ UNCHANGED <<roots, walk>>
    BY <1>7 DEF StartLoop, LoopStep, LoopGoes, Walking
  <2> QED
    BY <1>2, <1>b, <1>3, <1>4, <2>1, LoopKeeps
<1>8. CASE Ignore \/ PublishEvent
  <2>1. /\ loop = "busy" /\ loop' = "idle" /\ UNCHANGED <<roots, walk>>
        /\ roots = {} /\ walk = {} /\ reading = {}
    BY <1>1, <1>8 DEF Ignore, PublishEvent, LoopStep, LoopGoes, WalkPhases
  <2>2. ~(current.op = "Create" /\ tree[current.path] = "dir" /\ ~IsExcluded(current.path))
    BY <1>8, EventFacts DEF Ignore, PublishEvent, IsNewDirectory
  <2> QED
    BY <1>2, <1>b, <1>3, <1>4, <2>1, <2>2, LoopKeeps
<1>9. CASE EnterDirectory
  <2>1. /\ loop = "busy" /\ loop' = "walking" /\ UNCHANGED roots
        /\ walk' = {current.path} /\ current # Overflow
        /\ roots = {} /\ walk = {} /\ reading = {}
    BY <1>1, <1>9 DEF EnterDirectory, LoopStep, LoopGoes, WalkPhases
  <2>2. current.path \in Paths /\ Below(current.path)
    <3>1. current \in FsEvents
      BY <1>1, <2>1 DEF FsTypeOK
    <3> QED
      BY <1>1, <2>1, <3>1 DEF FsEvents, AllBelow
  <2> QED
    BY <1>2, <1>b, <1>3, <1>4, <2>1, <2>2, LoopKeeps
<1>c. CASE PublishUnread
  <2>1. /\ loop = "busy" /\ loop' = "idle" /\ UNCHANGED <<roots, walk>>
        /\ roots = {} /\ walk = {} /\ reading = {} /\ current.path \in unread'
    BY <1>1, <1>c DEF PublishUnread, LoopGoes, WalkPhases
  <2> QED
    BY <1>2, <1>b, <1>3, <1>4, <2>1, LoopKeeps
<1>10. CASE PublishDirectory
  <2>1. /\ loop = "walking" /\ loop' = "idle" /\ UNCHANGED <<roots, walk>>
        /\ roots = {} /\ walk = {} /\ reading = {}
    BY <1>1, <1>10 DEF PublishDirectory, LoopStep, LoopGoes, Walking, WalkPhases
  <2> QED
    BY <1>2, <1>b, <1>3, <1>4, <2>1, LoopKeeps
<1>11. CASE LoopExits
  <2>1. /\ loop = "idle" /\ loop' = "exited" /\ UNCHANGED <<roots, walk>>
        /\ roots = {} /\ walk = {} /\ reading = {}
    BY <1>1, <1>11 DEF LoopExits, LoopStep, LoopGoes, WalkPhases
  <2> QED
    BY <1>2, <1>b, <1>3, <1>4, <2>1, LoopKeeps
<1> QED
  BY <1>5, <1>6, <1>7, <1>8, <1>9, <1>c, <1>10, <1>11 DEF Handle

\* The first event becomes the current one, and is as much to come as before.
LEMMA TakeEventKeeps == FsInv /\ TakeEvent => FsInv'
<1> SUFFICES ASSUME FsInv, TakeEvent
             PROVE  FsInv'
  OBVIOUS
<1>1. FsTypeOK /\ WalkPhases /\ AllBelow
  BY DEF FsInv
<1>2. /\ UNCHANGED <<tree, changes, watched, watchedDirs, reading, names, stopping,
                     unwatched, missed, refused, failures, unread, roots, walk>>
      /\ loop = "idle" /\ loop' = "busy" /\ queue # <<>>
      /\ current' = Head(queue) /\ queue' = Tail(queue)
      /\ roots = {} /\ walk = {} /\ reading = {}
  BY <1>1 DEF TakeEvent, LoopStep, LoopGoes, treeVars, failVars, WalkPhases
<1>3. /\ queue \in Seq(FsEvents \cup {Overflow}) /\ Len(queue) \in Nat \ {0}
      /\ current' = queue[1] /\ current' \in FsEvents \cup {Overflow}
      /\ queue' \in Seq(FsEvents \cup {Overflow}) /\ Len(queue') = Len(queue) - 1
      /\ \A i \in 1..Len(queue') : queue'[i] = queue[i + 1]
  BY <1>1, <1>2 DEF FsTypeOK
<1>4. InQueue(queue[1])
  BY <1>3 DEF InQueue
<1>5. ASSUME NEW e
      PROVE  /\ InQueue(e)' => InQueue(e)
             /\ InQueue(e) => InQueue(e)' \/ e = current'
  <2>1. ASSUME InQueue(e)'
        PROVE  InQueue(e)
    BY <1>3, <2>1 DEF InQueue
  <2>2. ASSUME InQueue(e)
        PROVE  InQueue(e)' \/ e = current'
    <3>1. PICK i \in 1..Len(queue) : queue[i] = e
      BY <2>2 DEF InQueue
    <3>2. CASE i = 1
      BY <1>3, <3>1, <3>2
    <3>3. CASE i # 1
      <4>1. i - 1 \in 1..Len(queue') /\ queue'[i - 1] = e
        BY <1>3, <3>1, <3>3
      <4> QED
        BY <4>1 DEF InQueue
    <3> QED
      BY <3>2, <3>3
  <2> QED
    BY <2>1, <2>2
<1>6. current' = Overflow \/ Below(current'.path)
  BY <1>1, <1>3, <1>4 DEF AllBelow
<1>7. \A p \in Paths : ToCome(p) => ToCome(p)'
  BY <1>2, <1>5 DEF ToCome
<1>8. Len(queue') <= QueueCapacity + 1
  BY <1>1, <1>3, FsAssumption DEF FsTypeOK
<1>9. unread \subseteq unread' /\ unread' \subseteq Paths /\ failures' \in 0..MaxFailures
  BY <1>1, <1>2 DEF FsTypeOK
<1> QED
  BY <1>9, <1>1, <1>2, <1>3, <1>5, <1>6, <1>7, <1>8, LoopKeeps DEF FsTypeOK

LEMMA StopKeeps == FsInv /\ (Cancel \/ CloseWatcher) => FsInv'
<1> SUFFICES ASSUME FsInv, Cancel \/ CloseWatcher
             PROVE  FsInv'
  OBVIOUS
<1>1. FsTypeOK /\ WalkPhases /\ WatchesInv /\ AllBelow /\ NoBlindSpot
  BY DEF FsInv
<1>2. UNCHANGED <<tree, changes, watchedDirs, roots, walk, reading, names, loop, current,
                  unwatched, missed, refused, failures, unread>>
  BY DEF Cancel, CloseWatcher, treeVars, walkVars, failVars
<1>3. CASE Cancel
  <2>1. stopping = "no" /\ stopping' = "cancelled" /\ UNCHANGED <<watched, queue>>
    BY <1>3 DEF Cancel
  <2>2. \A p \in Paths : (Candidate(p)' <=> Candidate(p)) /\ (Accounted(p)' <=> Accounted(p))
    BY <1>2, <2>1 DEF Candidate, Parent, Accounted, ToVisit, ToCome, InQueue
  <2>3. NoBlindSpot'
    BY <1>1, <2>1, <2>2 DEF NoBlindSpot
  <2> QED
    BY <1>1, <1>2, <2>1, <2>3 DEF FsInv, FsTypeOK, WalkPhases, WatchesInv, AllBelow, InQueue
<1>4. CASE CloseWatcher
  <2>1. stopping' = "closed" /\ watched' = {} /\ queue' = <<>>
    BY <1>4 DEF CloseWatcher
  <2>2. FsTypeOK'
    BY <1>1, <1>2, <2>1, FsAssumption DEF FsTypeOK
  <2>3. ~ \E e : InQueue(e)'
    BY <2>1 DEF InQueue
  <2> QED
    BY <1>1, <1>2, <2>1, <2>2, <2>3 DEF FsInv, WalkPhases, WatchesInv, AllBelow, NoBlindSpot
<1> QED
  BY <1>3, <1>4

LEMMA FsInvStep == FsInv /\ [FsNext]_fsVars => FsInv'
<1> SUFFICES ASSUME FsInv, [FsNext]_fsVars
             PROVE  FsInv'
  OBVIOUS
<1>1. CASE UNCHANGED fsVars
  <2>1. UNCHANGED <<tree, changes, watchedDirs, roots, walk, reading, names, loop, current,
                    unwatched, missed, refused, failures, unread, watched, queue, stopping>>
    BY <1>1 DEF fsVars, treeVars, walkVars, failVars
  <2>2. \A p \in Paths : (Candidate(p)' <=> Candidate(p)) /\ (Accounted(p)' <=> Accounted(p))
    BY <2>1 DEF Candidate, Parent, Accounted, ToVisit, ToCome, InQueue
  <2>3. NoBlindSpot'
    BY <2>1, <2>2 DEF FsInv, NoBlindSpot
  <2> QED
    BY <2>1, <2>3 DEF FsInv, FsTypeOK, WalkPhases, WatchesInv, AllBelow, InQueue
<1>2. CASE Environment
  BY <1>2, MakeKeeps, UnlinkKeeps, RenameFileKeeps, TouchKeeps DEF Environment
<1>3. CASE WalkNext
  BY <1>3, VisitKeeps, VisitFailsKeeps, AddWatchKeeps DEF WalkNext
<1> QED
  BY <1>1, <1>2, <1>3, LoopStepKeeps, TakeEventKeeps, StopKeeps DEF FsNext

-----------------------------------------------------------------------------
\* Type correctness of the filesystem monitor.
THEOREM FsTypeCorrect == FsSpec => []FsTypeOK
<1>1. FsInv => FsTypeOK
  BY DEF FsInv
<1> QED
  BY <1>1, FsInvInit, FsInvStep, PTL DEF FsSpec

\* Every directory that ought to be watched and is not has one of the known
\* reasons.
THEOREM BlindSpotsHaveReasons == FsSpec => []BlindSpotsAreKnown
<1>1. FsInv => BlindSpotsAreKnown
  <2> SUFFICES ASSUME FsInv, loop # "new", stopping # "closed", NEW p \in Paths, Watchable(p)
               PROVE  p \in watched \cup ToVisit \cup Announced
                               \cup unwatched \cup missed \cup refused \cup unread
    BY DEF BlindSpotsAreKnown
  <2>1. Candidate(p)
    BY DEF Watchable, Notices, Candidate
  <2>2. Accounted(p)
    BY <2>1 DEF FsInv, NoBlindSpot
  <2>3. ToCome(p) => p \in Announced
    <3>1. queue \in Seq(FsEvents \cup {Overflow})
      BY DEF FsInv, FsTypeOK
    <3>2. DOMAIN queue = 1..Len(queue)
      BY <3>1
    <3> QED
      BY <3>2 DEF ToCome, InQueue, Announced
  <2> QED
    BY <2>2, <2>3 DEF Accounted
<1> QED
  BY <1>1, FsInvInit, FsInvStep, PTL DEF FsSpec

\* Whatever happens, only paths below a root that are not excluded are watched.
THEOREM WatchesStayInside == FsSpec => []WatchesAreKept
<1>1. FsInv => WatchesAreKept
  BY DEF FsInv, WatchesInv, AllBelow, Below, WatchesAreKept
<1> QED
  BY <1>1, FsInvInit, FsInvStep, PTL DEF FsSpec

-----------------------------------------------------------------------------
\* What is published.

Entries == FsEvents \cup {Overflow}

PublishedSoFar ==
  /\ noticed \in Seq(Entries) /\ published \in Seq(Entries)
  /\ queue \in Seq(Entries) /\ Done \in Nat
  /\ loop = "walking" => Wanted(current)
  /\ Len(published) = Cardinality(WantedIn(Done))
  /\ \A i \in WantedIn(Done) : published[Cardinality(WantedIn(i))] = noticed[i]
  /\ InHand = 1 => current = noticed[Done + 1]
  /\ \A k \in 1..Len(queue) : queue[k] = noticed[Done + InHand + k]

PublishInv == stopping # "closed" => PublishedSoFar

\* The places of the wanted events grow with what is looked at.
LEMMA WantedFacts ==
  ASSUME NEW n \in Nat
  PROVE  /\ IsFiniteSet(WantedIn(n)) /\ Cardinality(WantedIn(n)) \in Nat
         /\ \A i \in WantedIn(n) : Cardinality(WantedIn(i)) \in 1..Cardinality(WantedIn(n))
         /\ Cardinality(WantedIn(n + 1)) =
              IF Wanted(noticed[n + 1]) THEN Cardinality(WantedIn(n)) + 1
              ELSE Cardinality(WantedIn(n))
<1>1. \A m \in Nat : IsFiniteSet(WantedIn(m)) /\ Cardinality(WantedIn(m)) \in Nat
  <2> SUFFICES ASSUME NEW m \in Nat
               PROVE  IsFiniteSet(WantedIn(m)) /\ Cardinality(WantedIn(m)) \in Nat
    OBVIOUS
  <2>1. IsFiniteSet(1..m) /\ WantedIn(m) \in SUBSET (1..m)
    BY FS_Interval DEF WantedIn
  <2> QED
    BY <2>1, FS_Subset, FS_CardinalityType
<1>2. ASSUME NEW i \in WantedIn(n)
      PROVE  Cardinality(WantedIn(i)) \in 1..Cardinality(WantedIn(n))
  <2>1. i \in Nat /\ WantedIn(i) \in SUBSET WantedIn(n) /\ i \in WantedIn(i)
    BY DEF WantedIn
  <2>2. Cardinality(WantedIn(i)) <= Cardinality(WantedIn(n))
    BY <1>1, <2>1, FS_Subset
  <2>3. Cardinality(WantedIn(i)) # 0
    BY <1>1, <2>1, FS_EmptySet
  <2> QED
    BY <1>1, <2>1, <2>2, <2>3
<1>3. Cardinality(WantedIn(n + 1)) =
        IF Wanted(noticed[n + 1]) THEN Cardinality(WantedIn(n)) + 1 ELSE Cardinality(WantedIn(n))
  <2>1. \A i : i \in 1..(n + 1) <=> i \in 1..n \/ i = n + 1
    OBVIOUS
  <2>2. n + 1 \notin WantedIn(n)
    BY DEF WantedIn
  <2>3. CASE Wanted(noticed[n + 1])
    <3>1. WantedIn(n + 1) = WantedIn(n) \cup {n + 1}
      BY <2>1, <2>3 DEF WantedIn
    <3> QED
      BY <1>1, <2>2, <2>3, <3>1, FS_AddElement
  <2>4. CASE ~Wanted(noticed[n + 1])
    <3>1. WantedIn(n + 1) = WantedIn(n)
      BY <2>1, <2>4 DEF WantedIn
    <3> QED
      BY <2>4, <3>1
  <2> QED
    BY <2>3, <2>4
<1> QED
  BY <1>1, <1>2, <1>3

\* A change of the tree puts entries into the queue, and notices them.
LEMMA ChangesAreNoticed ==
  ASSUME FsInv, Environment
  PROVE  /\ \E added \in Seq(Entries) : queue' = queue \o added /\ noticed' = noticed \o added
         /\ UNCHANGED <<loop, stopping, current, published>>
<1>1. ASSUME NEW events \in Seq(FsEvents), Notify(events), Change
      PROVE  /\ \E added \in Seq(Entries) : queue' = queue \o added /\ noticed' = noticed \o added
             /\ UNCHANGED <<loop, stopping, current, published>>
  <2>1. Queued(events) \in Seq(Entries)
    <3> DEFINE room == QueueCapacity - Len(queue)
               n == IF room < Len(events) THEN room ELSE Len(events)
    <3>1. Len(queue) \in Nat /\ QueueCapacity \in Nat
      BY FsAssumption DEF FsInv, FsTypeOK
    <3>2. n \in Int /\ n <= Len(events)
      BY <3>1
    <3>3. \A i \in 1..n : events[i] \in Entries
      BY <3>2 DEF Entries
    <3> HIDE DEF n
    <3>4. SubSeq(events, 1, n) \in Seq(Entries)
      BY <3>2, <3>3, SubSeqProperties
    <3> QED
      BY <3>4 DEF Queued, n
  <2>2. <<Overflow>> \in Seq(Entries)
    BY DEF Entries
  <2>3. Added(events) \in Seq(Entries)
    BY <2>1, <2>2, ConcatProperties DEF Added
  <2> QED
    BY <1>1, <2>3 DEF Notify, Change, walkVars
<1>2. ASSUME NEW p \in Paths, NEW kind \in {"file", "dir"}, Make(p, kind)
      PROVE  \E events \in Seq(FsEvents) : Notify(events) /\ Change
  BY <1>2, EventOf DEF Make
<1>3. ASSUME NEW p \in Paths, Unlink(p)
      PROVE  \E events \in Seq(FsEvents) : Notify(events) /\ Change
  <2>1. <<[op |-> "Remove", path |-> p]>> \in Seq(FsEvents)
    BY EventFacts
  <2> QED
    BY <1>3, <2>1, EventOf DEF Unlink
<1>4. ASSUME NEW p \in Paths, NEW q \in Paths, RenameFile(p, q)
      PROVE  \E events \in Seq(FsEvents) : Notify(events) /\ Change
  <2>1. Event("Rename", p) \o Event("Create", q) \in Seq(FsEvents)
    BY EventOf, ConcatProperties
  <2> QED
    BY <1>4, <2>1 DEF RenameFile
<1>5. ASSUME NEW p \in Paths, NEW op \in {"Write", "Chmod"}, Touch(p, op)
      PROVE  \E events \in Seq(FsEvents) : Notify(events) /\ Change
  BY <1>5, EventOf DEF Touch
<1> QED
  BY <1>1, <1>2, <1>3, <1>4, <1>5 DEF Environment

LEMMA NoticingKeeps ==
  ASSUME PublishedSoFar, NEW added \in Seq(Entries),
         queue' = queue \o added, noticed' = noticed \o added,
         UNCHANGED <<loop, current, published>>
  PROVE  PublishedSoFar'
<1> DEFINE here == Done + InHand
<1>1. /\ noticed \in Seq(Entries) /\ queue \in Seq(Entries) /\ Done \in Nat
      /\ Len(noticed) \in Nat /\ Len(queue) \in Nat /\ Len(added) \in Nat
      /\ InHand \in {0, 1} /\ Done = Len(noticed) - Len(queue) - InHand
  BY DEF PublishedSoFar, Done, InHand
<1>2. /\ noticed' \in Seq(Entries) /\ Len(noticed') = Len(noticed) + Len(added)
      /\ \A i \in 1..Len(noticed) + Len(added) :
           noticed'[i] = IF i <= Len(noticed) THEN noticed[i] ELSE added[i - Len(noticed)]
      /\ queue' \in Seq(Entries) /\ Len(queue') = Len(queue) + Len(added)
      /\ \A i \in 1..Len(queue) + Len(added) :
           queue'[i] = IF i <= Len(queue) THEN queue[i] ELSE added[i - Len(queue)]
  BY <1>1, ConcatProperties
<1>3. InHand' = InHand /\ Done' = Done
  <2>1. InHand' = InHand
    BY DEF InHand
  <2>2. Done' = Len(noticed') - Len(queue') - InHand'
    BY DEF Done
  <2> QED
    BY <1>1, <1>2, <2>1, <2>2
<1>4. \A i \in 1..Len(noticed) : noticed'[i] = noticed[i]
  BY <1>1, <1>2
<1>5. \A n \in 0..Len(noticed) : WantedIn(n)' = WantedIn(n)
  BY <1>1, <1>4 DEF WantedIn, Wanted
<1>6. \A i \in WantedIn(Done) : i \in 1..Len(noticed)
  BY <1>1 DEF WantedIn
<1>7. ASSUME NEW k \in 1..Len(queue')
      PROVE  queue'[k] = noticed'[Done' + InHand' + k]
  <2>1. Done' + InHand' + k = Len(noticed) - Len(queue) + k
    BY <1>1, <1>2, <1>3
  <2>2. CASE k <= Len(queue)
    <3>1. queue'[k] = queue[k] /\ queue[k] = noticed[Done + InHand + k]
      BY <1>1, <1>2, <2>2 DEF PublishedSoFar
    <3>2. Done + InHand + k \in 1..Len(noticed)
      BY <1>1, <1>2, <2>2
    <3> QED
      BY <1>3, <1>4, <3>1, <3>2
  <2>3. CASE ~(k <= Len(queue))
    <3> DEFINE j == Len(noticed) - Len(queue) + k
    <3>1. /\ j \in 1..Len(noticed) + Len(added) /\ ~(j <= Len(noticed))
          /\ j - Len(noticed) = k - Len(queue)
      BY <1>1, <1>2, <2>3
    <3>2. queue'[k] = added[k - Len(queue)]
      BY <1>1, <1>2, <2>3
    <3> HIDE DEF j
    <3>3. noticed'[j] = added[j - Len(noticed)]
      BY <1>2, <3>1
    <3> QED
      BY <2>1, <3>1, <3>2, <3>3 DEF j
  <2> QED
    BY <2>2, <2>3
<1>8. /\ Len(published') = Cardinality(WantedIn(Done)')
      /\ \A i \in WantedIn(Done)' : published'[Cardinality(WantedIn(i)')] = noticed'[i]
  <2>1. Done \in 0..Len(noticed)
    BY <1>1
  <2>2. WantedIn(Done)' = WantedIn(Done)
    BY <1>3, <1>5, <2>1
  <2>3. ASSUME NEW i \in WantedIn(Done)
        PROVE  published'[Cardinality(WantedIn(i)')] = noticed'[i]
    <3>1. WantedIn(i)' = WantedIn(i)
      BY <1>1, <1>5, <1>6, <2>3
    <3> QED
      BY <1>4, <1>6, <2>3, <3>1 DEF PublishedSoFar
  <2> QED
    BY <2>2, <2>3 DEF PublishedSoFar
<1>9. InHand' = 1 => current' = noticed'[Done' + 1]
  <2> SUFFICES ASSUME InHand = 1
               PROVE  current = noticed'[Done + 1]
    BY <1>3
  <2>1. Done + 1 \in 1..Len(noticed)
    BY <1>1
  <2> QED
    BY <1>4, <2>1 DEF PublishedSoFar
<1> QED
  BY <1>1, <1>2, <1>3, <1>7, <1>8, <1>9 DEF PublishedSoFar, Wanted

\* The loop is done with what it had in hand: published if it was wanted.
LEMMA FinishingKeeps ==
  ASSUME PublishedSoFar, InHand = 1, loop' \in {"idle"},
         current \in Entries,
         UNCHANGED <<queue, noticed, current>>,
         published' = IF Wanted(current) THEN Append(published, current) ELSE published
  PROVE  PublishedSoFar'
<1>1. /\ noticed \in Seq(Entries) /\ published \in Seq(Entries)
      /\ Done \in Nat /\ Len(noticed) \in Nat /\ Len(queue) \in Nat /\ Len(published) \in Nat
      /\ Done = Len(noticed) - Len(queue) - 1
      /\ current = noticed[Done + 1]
      /\ Len(published) = Cardinality(WantedIn(Done))
  BY DEF PublishedSoFar, Done
<1>2. InHand' = 0 /\ Done' = Done + 1
  <2>1. InHand' = 0
    BY DEF InHand
  <2>2. Done' = Len(noticed') - Len(queue') - InHand'
    BY DEF Done
  <2> QED
    BY <1>1, <2>1, <2>2
<1>3. \A n : WantedIn(n)' = WantedIn(n)
  BY DEF WantedIn, Wanted
<1>4. /\ published' \in Seq(Entries)
      /\ Len(published') = IF Wanted(current) THEN Len(published) + 1 ELSE Len(published)
      /\ \A i \in 1..Len(published) : published'[i] = published[i]
      /\ Wanted(current) => published'[Len(published) + 1] = current
  BY <1>1, AppendProperties
<1>5. Len(published') = Cardinality(WantedIn(Done + 1))
  BY <1>1, <1>4, WantedFacts
<1>6. ASSUME NEW i \in WantedIn(Done + 1)
      PROVE  published'[Cardinality(WantedIn(i))] = noticed[i]
  <2>1. CASE i \in WantedIn(Done)
    <3>1. Cardinality(WantedIn(i)) \in 1..Len(published)
      BY <1>1, <2>1, WantedFacts
    <3> QED
      BY <1>4, <2>1, <3>1 DEF PublishedSoFar
  <2>2. CASE i \notin WantedIn(Done)
    <3>1. i \in 1..(Done + 1) /\ Wanted(noticed[i])
      BY <1>6 DEF WantedIn
    <3>2. i \notin 1..Done
      BY <2>2, <3>1 DEF WantedIn
    <3>3. i = Done + 1
      <4>1. \A d \in Nat : \A k \in 1..(d + 1) : k \notin 1..d => k = d + 1
        OBVIOUS
      <4>2. Done \in Nat
        BY <1>1
      <4> QED
        BY <3>1, <3>2, <4>1, <4>2
    <3>4. Wanted(current)
      BY <1>1, <3>1, <3>3
    <3> QED
      BY <1>1, <1>4, <1>5, <3>3, <3>4
  <2> QED
    BY <2>1, <2>2
<1>7. ASSUME NEW k \in 1..Len(queue')
      PROVE  queue'[k] = noticed'[Done' + InHand' + k]
  <2>1. Done' + InHand' + k = Done + InHand + k
    BY <1>1, <1>2
  <2> QED
    BY <2>1 DEF PublishedSoFar
<1>8. WantedIn(Done)' = WantedIn(Done + 1)
  BY <1>2, <1>3
<1>9. Done' \in Nat
  BY <1>1, <1>2
<1>10. \A i \in WantedIn(Done)' : published'[Cardinality(WantedIn(i)')] = noticed'[i]
  BY <1>3, <1>6, <1>8
<1>11. Len(published') = Cardinality(WantedIn(Done)')
  BY <1>5, <1>8
<1>12. /\ noticed' \in Seq(Entries) /\ published' \in Seq(Entries) /\ queue' \in Seq(Entries)
       /\ loop' # "walking" /\ InHand' # 1
  BY <1>1, <1>2, <1>4 DEF PublishedSoFar
<1> QED
  BY <1>7, <1>9, <1>10, <1>11, <1>12 DEF PublishedSoFar

\* It takes the first event of the queue.
LEMMA TakingKeeps ==
  ASSUME PublishedSoFar, loop = "idle", loop' = "busy", queue # <<>>,
         current' = Head(queue), queue' = Tail(queue), UNCHANGED <<noticed, published>>
  PROVE  PublishedSoFar'
<1>1. /\ noticed \in Seq(Entries) /\ queue \in Seq(Entries)
      /\ Done \in Nat /\ Len(noticed) \in Nat /\ Len(queue) \in Nat \ {0}
      /\ InHand = 0 /\ Done = Len(noticed) - Len(queue) - 0
      /\ \A k \in 1..Len(queue) : queue[k] = noticed[Done + 0 + k]
  BY DEF PublishedSoFar, Done, InHand
<1>2. /\ queue' \in Seq(Entries) /\ Len(queue') = Len(queue) - 1
      /\ \A k \in 1..Len(queue') : queue'[k] = queue[k + 1]
      /\ current' = queue[1]
  BY <1>1, HeadTailProperties
<1>3. InHand' = 1 /\ Done' = Done
  <2>1. InHand' = 1
    BY DEF InHand
  <2>2. Done' = Len(noticed') - Len(queue') - InHand'
    BY DEF Done
  <2> QED
    BY <1>1, <1>2, <2>1, <2>2
<1>4. \A n : WantedIn(n)' = WantedIn(n)
  BY DEF WantedIn, Wanted
<1>5. current' = noticed'[Done' + 1]
  <2>1. Done + 0 + 1 = Done + 1
    BY <1>1
  <2> QED
    BY <1>1, <1>2, <1>3, <2>1
<1>6. ASSUME NEW k \in 1..Len(queue')
      PROVE  queue'[k] = noticed'[Done' + InHand' + k]
  <2>1. k + 1 \in 1..Len(queue) /\ Done' + InHand' + k = Done + 0 + (k + 1)
    BY <1>1, <1>2, <1>3
  <2> QED
    BY <1>1, <1>2, <2>1
<1> QED
  BY <1>1, <1>2, <1>3, <1>4, <1>5, <1>6 DEF PublishedSoFar

LEMMA PublishInvStep == FsInv /\ PublishInv /\ [FsNext]_fsVars => PublishInv'
<1> SUFFICES ASSUME FsInv, PublishInv, [FsNext]_fsVars, stopping' # "closed"
             PROVE  PublishedSoFar'
  BY DEF PublishInv
<1>1. stopping # "closed"
  BY WalkNextIsStep
     DEF FsNext, Environment, Make, Unlink, RenameFile, Touch, Change, WalkStep,
         Start, WalkRoot, StartLoop, TakeEvent, Handle, Ignore, PublishEvent,
         PublishUnread, EnterDirectory, PublishDirectory, LoopExits, LoopStep, LoopGoes, Cancel, CloseWatcher, fsVars
<1>2. PublishedSoFar /\ current \in Entries
  BY <1>1 DEF PublishInv, FsInv, FsTypeOK, Entries
<1>3. ASSUME UNCHANGED <<queue, noticed, published, current>>, InHand' = InHand,
             loop' = "walking" => Wanted(current)
      PROVE  PublishedSoFar'
  <2>1. Done' = Done /\ \A n : WantedIn(n)' = WantedIn(n)
    BY <1>3 DEF Done, WantedIn, Wanted
  <2> QED
    BY <1>2, <1>3, <2>1 DEF PublishedSoFar, Wanted
<1>4. CASE Environment
  BY <1>2, <1>4, ChangesAreNoticed, NoticingKeeps
<1>5. CASE WalkNext \/ Cancel \/ UNCHANGED fsVars
  <2>1. UNCHANGED <<queue, noticed, published, current, loop>>
    BY <1>5, WalkNextIsStep DEF WalkStep, treeVars, Cancel, fsVars
  <2> QED
    BY <1>2, <1>3, <2>1 DEF InHand, PublishedSoFar
<1>6. CASE Start \/ (\E root \in Roots : WalkRoot(root)) \/ StartLoop \/ LoopExits
  <2>1. /\ UNCHANGED <<queue, noticed, published, current>>
        /\ loop \in {"new", "starting", "idle"} /\ loop' \in {"starting", "idle", "exited"}
    BY <1>6 DEF Start, WalkRoot, StartLoop, LoopExits, LoopStep, LoopGoes, treeVars
  <2> QED
    BY <1>3, <2>1 DEF InHand
<1>7. CASE TakeEvent
  BY <1>2, <1>7, TakingKeeps DEF TakeEvent, LoopStep, LoopGoes, treeVars
<1>8. CASE EnterDirectory
  <2>1. /\ UNCHANGED <<queue, noticed, published, current>>
        /\ loop = "busy" /\ loop' = "walking" /\ Wanted(current)
    BY <1>8 DEF EnterDirectory, LoopStep, LoopGoes, treeVars, Wanted
  <2> QED
    BY <1>3, <2>1 DEF InHand
<1>9. CASE Ignore
  <2>1. /\ loop = "busy" /\ loop' = "idle" /\ ~Wanted(current)
        /\ UNCHANGED <<queue, noticed, published, current>>
    BY <1>9 DEF Ignore, LoopStep, LoopGoes, treeVars, Wanted
  <2> QED
    BY <1>2, <2>1, FinishingKeeps DEF InHand
<1>10. CASE PublishEvent \/ PublishUnread \/ PublishDirectory
  <2>1. /\ loop \in {"busy", "walking"} /\ loop' = "idle" /\ Wanted(current)
        /\ UNCHANGED <<queue, noticed, current>> /\ published' = Append(published, current)
    BY <1>2, <1>10 DEF PublishEvent, PublishUnread, PublishDirectory, Publishes, LoopStep,
                       LoopGoes, treeVars, Wanted, PublishedSoFar
  <2> QED
    BY <1>2, <2>1, FinishingKeeps DEF InHand
<1>11. CASE CloseWatcher
  BY <1>11 DEF CloseWatcher
<1> QED
  BY <1>4, <1>5, <1>6, <1>7, <1>8, <1>9, <1>10, <1>11 DEF FsNext, Handle

LEMMA PublishInvInit == FsInit => PublishInv
<1> SUFFICES ASSUME FsInit
             PROVE  PublishedSoFar
  BY DEF PublishInv
<1>1. InHand = 0 /\ Len(queue) = 0 /\ Len(noticed) = 0
  BY DEF FsInit, InHand
<1>2. Done = 0
  BY <1>1 DEF Done
<1>3. WantedIn(0) = {}
  BY DEF WantedIn
<1>4. WantedIn(Done) = {} /\ Cardinality(WantedIn(Done)) = 0
  BY <1>2, <1>3, FS_EmptySet
<1> QED
  BY <1>1, <1>2, <1>4 DEF FsInit, PublishedSoFar

\* Whatever the tree, the exclusions and the queue, every noticed event of a
\* path that is not excluded is published once, in the order of the queue.
THEOREM EventsArePublishedOnce == FsSpec => []EachEventIsPublishedOnce
<1>1. FsSpec => []FsInv
  BY FsInvInit, FsInvStep, PTL DEF FsSpec
<1>2. PublishInv => EachEventIsPublishedOnce
  BY DEF PublishInv, PublishedSoFar, EachEventIsPublishedOnce
<1> QED
  BY <1>1, <1>2, PublishInvInit, PublishInvStep, PTL DEF FsSpec

-----------------------------------------------------------------------------
\* What a scan returns.

\* The start of a start of a sequence.
LEMMA StartOfStart ==
  ASSUME NEW S, NEW s \in Seq(S), NEW n \in Nat, n <= Len(s), NEW k \in Nat, k <= n
  PROVE  SubSeq(SubSeq(s, 1, n), 1, k) = SubSeq(s, 1, k)
<1> DEFINE start == SubSeq(s, 1, n)
<1>1. start \in Seq(S) /\ Len(start) = n /\ \A i \in 1..n : start[i] = s[i]
  BY StartFacts
<1> HIDE DEF start
<1>2. /\ SubSeq(start, 1, k) \in Seq(S) /\ Len(SubSeq(start, 1, k)) = k
      /\ \A i \in 1..k : SubSeq(start, 1, k)[i] = start[i]
  BY <1>1, StartFacts
<1>3. /\ SubSeq(s, 1, k) \in Seq(S) /\ Len(SubSeq(s, 1, k)) = k
      /\ \A i \in 1..k : SubSeq(s, 1, k)[i] = s[i]
  <2>1. k <= Len(s)
    OBVIOUS
  <2> QED
    BY <2>1, StartFacts
<1>4. \A i \in 1..k : i \in 1..n
  OBVIOUS
<1>5. SubSeq(start, 1, k) = SubSeq(s, 1, k)
  BY <1>1, <1>2, <1>3, <1>4, SeqEqual
<1> QED
  BY <1>5 DEF start

\* A whole sequence is its own start.
LEMMA WholeStart ==
  ASSUME NEW S, NEW s \in Seq(S)
  PROVE  SubSeq(s, 1, Len(s)) = s
<1>1. /\ SubSeq(s, 1, Len(s)) \in Seq(S) /\ Len(SubSeq(s, 1, Len(s))) = Len(s)
      /\ \A i \in 1..Len(s) : SubSeq(s, 1, Len(s))[i] = s[i]
  BY StartFacts
<1> QED
  BY <1>1, SeqEqual

\* What is on the way from a root to a path below it: directories of interest,
\* the root first and the parent last.
LEMMA WayFacts ==
  ASSUME NEW root \in Roots, NEW p \in Paths, IsPrefix(root, p)
  PROVE  /\ root \in Seq(STRING) /\ p \in Seq(STRING) /\ Len(root) \in Nat /\ Len(p) \in Nat
         /\ Len(root) <= Len(p) /\ (Len(root) = Len(p) <=> root = p)
         /\ \A q \in Way(root, p) :
              /\ q \in Paths /\ Len(q) \in Len(root)..(Len(p) - 1)
              /\ q = SubSeq(p, 1, Len(q))
              /\ IsPrefix(root, q) /\ IsStrictPrefix(q, p)
              /\ Way(root, q) \subseteq Way(root, p)
         /\ root # p => /\ root \in Way(root, p) /\ Front(p) \in Way(root, p)
                        /\ Len(Front(p)) = Len(p) - 1
                        /\ \A q \in Way(root, p) : q = Front(p) \/ q \in Way(root, Front(p))
<1>1. \A a, b \in Nat : a <= b /\ a # b => a \in a..(b - 1) /\ b - 1 \in a..(b - 1)
  OBVIOUS
<1>2. /\ root \in Seq(STRING) /\ p \in Seq(STRING) /\ p # <<>> /\ Len(root) \in Nat /\ Len(p) \in Nat
      /\ Len(root) <= Len(p) /\ Way(root, p) \subseteq Paths
      /\ SubSeq(root, 1, Len(root)) = root /\ SubSeq(p, 1, Len(p)) = p
      /\ SubSeq(p, 1, Len(root)) = root
  <2>1. root \in Seq(STRING) /\ p \in Seq(STRING) /\ p # <<>> /\ Way(root, p) \subseteq Paths
    BY FsAssumption
  <2>2. SubSeq(root, 1, Len(root)) = root /\ SubSeq(p, 1, Len(p)) = p
    BY <2>1, WholeStart
  <2> QED
    BY <2>1, <2>2 DEF IsPrefix
<1>3. Len(root) = Len(p) <=> root = p
  BY <1>2
<1>4. Len(root) \in Nat /\ Len(p) \in Nat
  BY <1>2
<1>5. ASSUME NEW n \in Len(root)..(Len(p) - 1)
      PROVE  /\ n \in 0..(Len(p) - 1) /\ n # Len(p) /\ n <= Len(p)
             /\ n # Len(p) - 1 => n \in Len(root)..(Len(p) - 1 - 1)
  BY <1>4
<1>6. ASSUME NEW n \in Len(root)..(Len(p) - 1)
      PROVE  /\ SubSeq(p, 1, n) \in Seq(STRING) /\ Len(SubSeq(p, 1, n)) = n
             /\ \A k \in 0..n : SubSeq(SubSeq(p, 1, n), 1, k) = SubSeq(p, 1, k)
  <2>1. n \in Nat /\ n <= Len(p)
    BY <1>2
  <2> QED
    BY <1>2, <2>1, StartFacts, StartOfStart
<1>7. ASSUME NEW q \in Way(root, p)
      PROVE  /\ q \in Paths /\ Len(q) \in Len(root)..(Len(p) - 1)
             /\ q = SubSeq(p, 1, Len(q))
             /\ IsPrefix(root, q) /\ IsStrictPrefix(q, p)
             /\ Way(root, q) \subseteq Way(root, p)
  <2>1. PICK n \in Len(root)..(Len(p) - 1) : q = SubSeq(p, 1, n)
    BY DEF Way
  <2>2. q \in Paths /\ Len(q) = n /\ n \in Nat
    BY <1>2, <1>6, <2>1
  <2>3. IsPrefix(root, q)
    <3>1. SubSeq(q, 1, Len(root)) = SubSeq(p, 1, Len(root))
      BY <1>2, <1>6, <2>1
    <3> QED
      BY <1>2, <2>2, <3>1 DEF IsPrefix
  <2>4. IsStrictPrefix(q, p)
    <3>1. SubSeq(q, 1, Len(q)) = SubSeq(p, 1, Len(q))
      BY <1>2, <1>6, <2>1, <2>2
    <3>2. n # Len(p) /\ n <= Len(p)
      BY <1>5, <2>1
    <3> QED
      BY <2>2, <3>1, <3>2 DEF IsStrictPrefix, IsPrefix
  <2>5. Way(root, q) \subseteq Way(root, p)
    <3> SUFFICES ASSUME NEW k \in Len(root)..(Len(q) - 1)
                 PROVE  SubSeq(q, 1, k) \in Way(root, p)
      BY DEF Way
    <3>1. k \in 0..n /\ k \in Len(root)..(Len(p) - 1)
      BY <1>2, <2>1, <2>2
    <3>2. SubSeq(q, 1, k) = SubSeq(p, 1, k)
      BY <1>6, <2>1, <3>1
    <3> QED
      BY <3>1, <3>2 DEF Way
  <2> QED
    BY <2>1, <2>2, <2>3, <2>4, <2>5
<1>8. ASSUME root # p
      PROVE  /\ root \in Way(root, p) /\ Front(p) \in Way(root, p)
             /\ Len(Front(p)) = Len(p) - 1
             /\ \A q \in Way(root, p) : q = Front(p) \/ q \in Way(root, Front(p))
  <2>1. Len(root) \in Len(root)..(Len(p) - 1) /\ Len(p) - 1 \in Len(root)..(Len(p) - 1)
    <3>1. Len(root) # Len(p)
      BY <1>3, <1>8
    <3> QED
      BY <1>1, <1>2, <3>1
  <2>2. root \in Way(root, p)
    BY <1>2, <2>1 DEF Way
  <2>3. Front(p) = SubSeq(p, 1, Len(p) - 1)
    BY DEF Front
  <2>4. Front(p) \in Way(root, p) /\ Len(Front(p)) = Len(p) - 1
    BY <1>6, <2>1, <2>3 DEF Way
  <2>5. ASSUME NEW q \in Way(root, p), q # Front(p)
        PROVE  q \in Way(root, Front(p))
    <3>1. PICK n \in Len(root)..(Len(p) - 1) : q = SubSeq(p, 1, n)
      BY <2>5 DEF Way
    <3>2. n # Len(p) - 1
      BY <2>3, <2>5, <3>1
    <3>3. n \in Len(root)..(Len(Front(p)) - 1) /\ n \in 0..(Len(p) - 1)
      <4>1. n \in Len(root)..(Len(p) - 1 - 1) /\ n \in 0..(Len(p) - 1)
        BY <1>5, <3>1, <3>2
      <4> QED
        BY <2>4, <4>1
    <3>4. SubSeq(Front(p), 1, n) = q
      BY <1>6, <2>1, <2>3, <3>1, <3>3
    <3> QED
      BY <3>3, <3>4 DEF Way
  <2> QED
    BY <2>2, <2>4, <2>5
<1> QED
  BY <1>2, <1>3, <1>7, <1>8

\* What is in the tree has directories above it, up to each root.
TreeInv ==
  \A root \in Roots, p \in Paths :
    IsPrefix(root, p) /\ tree[p] # "absent" => \A q \in Way(root, p) : tree[q] = "dir"

\* Where something can be made there are directories all the way.
LEMMA CanHoldFacts ==
  ASSUME TreeInv, NEW root \in Roots, NEW p \in Paths, IsPrefix(root, p), CanHold(p)
  PROVE  \A q \in Way(root, p) : tree[q] = "dir"
<1>1. CASE root = p
  <2>1. Way(root, p) = {}
    BY <1>1, WayFacts DEF Way
  <2> QED
    BY <2>1
<1>2. CASE root # p
  <2>1. /\ Front(p) \in Way(root, p) /\ Front(p) \in Paths /\ IsPrefix(root, Front(p))
        /\ \A q \in Way(root, p) : q = Front(p) \/ q \in Way(root, Front(p))
    BY <1>2, WayFacts
  <2>2. tree[Front(p)] = "dir"
    BY <2>1 DEF CanHold, Parent
  <2>3. \A q \in Way(root, Front(p)) : tree[q] = "dir"
    BY <2>1, <2>2 DEF TreeInv
  <2> QED
    BY <2>1, <2>2, <2>3
<1> QED
  BY <1>1, <1>2

\* Nothing is on a way through a directory that is empty.
LEMMA EmptyFacts ==
  ASSUME TreeInv, FsTypeOK, NEW root \in Roots, NEW p \in Paths, IsPrefix(root, p),
         NEW gone \in Way(root, p), Children(tree, gone) = {}
  PROVE  tree[p] = "absent"
<1> SUFFICES ASSUME tree[p] # "absent"
             PROVE  FALSE
  OBVIOUS
<1> DEFINE n == Len(gone) + 1
           child == SubSeq(p, 1, n)
<1>1. /\ p \in Seq(STRING) /\ Len(root) \in Nat /\ Len(p) \in Nat
      /\ Len(gone) \in Len(root)..(Len(p) - 1) /\ gone = SubSeq(p, 1, Len(gone))
  BY WayFacts
<1>2. n \in Nat /\ n <= Len(p) /\ n # 0 /\ n - 1 = Len(gone)
  BY <1>1
<1> HIDE DEF n
<1>3. child \in Paths /\ tree[child] # "absent"
  <2>1. CASE n = Len(p)
    BY <1>1, <2>1, WholeStart
  <2>2. CASE n # Len(p)
    <3>1. n \in Len(root)..(Len(p) - 1)
      BY <1>1, <1>2, <2>2
    <3>2. child \in Way(root, p)
      BY <3>1 DEF Way
    <3> QED
      BY <3>2, WayFacts DEF TreeInv
  <2> QED
    BY <2>1, <2>2
<1>4. Len(child) = n /\ SubSeq(child, 1, n - 1) = SubSeq(p, 1, n - 1)
  BY <1>1, <1>2, StartFacts, StartOfStart
<1>5. Front(child) = gone
  BY <1>1, <1>2, <1>4 DEF Front
<1>6. child \in DOMAIN tree /\ child # <<>>
  BY <1>3, FsAssumption DEF FsTypeOK
<1> QED
  BY <1>3, <1>5, <1>6 DEF Children

LEMMA TreeInvStep == FsTypeOK /\ TreeInv /\ [FsNext]_fsVars => TreeInv'
<1> SUFFICES ASSUME FsTypeOK, TreeInv, [FsNext]_fsVars,
                    NEW root \in Roots, NEW p \in Paths, IsPrefix(root, p), tree'[p] # "absent",
                    NEW q \in Way(root, p)
             PROVE  tree'[q] = "dir"
  BY DEF TreeInv
<1>1. q \in Paths /\ tree \in [Paths -> {"absent", "file", "dir", "link"}]
  BY WayFacts DEF FsTypeOK
<1>2. CASE UNCHANGED tree
  BY <1>2 DEF TreeInv
<1>3. ASSUME NEW m \in Paths, NEW kind \in {"file", "dir"}, Make(m, kind)
      PROVE  tree'[q] = "dir"
  <2>1. tree[m] = "absent" /\ CanHold(m) /\ tree' = [tree EXCEPT ![m] = kind]
    BY <1>3 DEF Make
  <2>2. tree[q] = "dir"
    BY <1>1, <2>1, CanHoldFacts DEF TreeInv
  <2> QED
    BY <1>1, <2>1, <2>2
<1>4. ASSUME NEW m \in Paths, Unlink(m)
      PROVE  tree'[q] = "dir"
  <2>1. Children(tree, m) = {} /\ tree' = [tree EXCEPT ![m] = "absent"]
    BY <1>4 DEF Unlink
  <2>2. tree[p] # "absent" /\ tree[q] = "dir"
    BY <1>1, <2>1 DEF TreeInv
  <2>3. q # m
    BY <2>1, <2>2, EmptyFacts
  <2> QED
    BY <1>1, <2>1, <2>2, <2>3
<1>5. ASSUME NEW m \in Paths, NEW to \in Paths, RenameFile(m, to)
      PROVE  tree'[q] = "dir"
  <2>1. /\ tree[m] = "file" /\ tree[to] = "absent" /\ CanHold(to)
        /\ tree' = [tree EXCEPT ![m] = "absent", ![to] = "file"]
    BY <1>5 DEF RenameFile
  <2>2. tree[q] = "dir"
    BY <1>1, <2>1, CanHoldFacts DEF TreeInv
  <2> QED
    BY <1>1, <2>1, <2>2
<1>6. CASE Environment
  <2>1. ASSUME NEW m \in Paths, NEW op \in {"Write", "Chmod"}, Touch(m, op)
        PROVE  UNCHANGED tree
    BY <2>1 DEF Touch
  <2> QED
    BY <1>2, <1>3, <1>4, <1>5, <1>6, <2>1 DEF Environment
<1>7. CASE ~Environment
  <2>1. UNCHANGED tree
    BY <1>7, WalkNextIsStep DEF FsNext, WalkStep, Start, WalkRoot, StartLoop,
       TakeEvent, Handle, Ignore, PublishEvent, PublishUnread, EnterDirectory, PublishDirectory, LoopExits,
       LoopStep, LoopGoes, Cancel, CloseWatcher, treeVars, fsVars
  <2> QED
    BY <1>2, <2>1
<1> QED
  BY <1>6, <1>7

\* What is below an excluded path is excluded.
LEMMA ExcludedBelow ==
  ASSUME NEW p \in Seq(STRING), NEW q \in Seq(STRING), q # <<>>, IsStrictPrefix(q, p), IsExcluded(q)
  PROVE  IsExcluded(p)
<1>1. PICK i \in DOMAIN ExcludedPaths :
        \/ q = excludedPaths[i]
        \/ excludedPaths[i] # <<>> /\ IsStrictPrefix(excludedPaths[i], q)
  BY DEF IsExcluded
<1> DEFINE e == excludedPaths[i]
<1>2. e \in Seq(STRING)
  BY FsAssumption
<1> HIDE DEF e
<1>3. CASE q = e
  BY <1>3 DEF IsExcluded, e
<1>4. CASE e # <<>> /\ IsStrictPrefix(e, q)
  <2>1. /\ Len(e) \in Nat /\ Len(q) \in Nat /\ Len(p) \in Nat
        /\ Len(e) <= Len(q) /\ Len(q) <= Len(p)
        /\ SubSeq(e, 1, Len(e)) = SubSeq(q, 1, Len(e))
        /\ SubSeq(q, 1, Len(q)) = SubSeq(p, 1, Len(q))
    BY <1>2, <1>4 DEF IsStrictPrefix, IsPrefix
  <2>2. SubSeq(e, 1, Len(e)) = e /\ SubSeq(q, 1, Len(q)) = q
    BY <1>2, WholeStart
  <2>3. SubSeq(q, 1, Len(e)) = SubSeq(p, 1, Len(e))
    BY <2>1, <2>2, StartOfStart
  <2>4. IsPrefix(e, p)
    BY <2>1, <2>3 DEF IsPrefix
  <2>5. e # p
    <3> SUFFICES ASSUME e = p
                 PROVE  FALSE
      OBVIOUS
    <3>1. Len(e) = Len(q)
      BY <2>1
    <3>2. e = q
      BY <2>1, <2>2, <3>1
    <3> QED
      BY <1>4, <3>2 DEF IsStrictPrefix
  <2> QED
    BY <1>4, <2>4, <2>5 DEF IsExcluded, IsStrictPrefix, e
<1> QED
  BY <1>1, <1>3, <1>4 DEF e

\* What a scan from one root returns, for any limit of depth, 0 being none, and
\* whatever cannot be looked at or read.
LEMMA ScanRootFacts ==
  ASSUME FsTypeOK, TreeInv, NEW root \in Roots, NEW depth \in Nat, NEW failing, NEW p \in Paths
  PROVE  p \in ScanRoot(tree, failing, root, depth) <=>
           /\ ~IsExcluded(root) /\ ~IsExcluded(p)
           /\ (Way(root, p) \cup {p}) \cap failing = {}
           /\ \/ p = root /\ tree[p] \notin {"absent", "dir"}
              \/ /\ IsStrictPrefix(root, p) /\ tree[p] = "file"
                 /\ depth > 0 => Len(p) - Len(root) <= depth + 1
<1>1. root \in Paths /\ DOMAIN tree = Paths /\ \A q \in Paths : q \in Seq(STRING) /\ q # <<>>
  BY FsAssumption DEF FsTypeOK
<1>2. ASSUME IsStrictPrefix(root, p)
      PROVE  root \in Way(root, p) /\ (tree[p] = "file" => tree[root] = "dir")
  <2>1. IsPrefix(root, p) /\ root # p
    BY <1>2 DEF IsStrictPrefix
  <2> QED
    BY <2>1, WayFacts DEF TreeInv
<1>3. CASE IsExcluded(root) \/ tree[root] \in {"absent"} \/ root \in failing
  BY <1>2, <1>3 DEF ScanRoot
<1>4. CASE ~IsExcluded(root) /\ tree[root] \notin {"absent", "dir"} /\ root \notin failing
  <2>1. Way(root, root) = {}
    <3>1. IsPrefix(root, root) /\ Len(root) \in Nat
      BY <1>1 DEF IsPrefix
    <3>2. Len(root)..(Len(root) - 1) = {}
      BY <3>1
    <3> QED
      BY <3>2 DEF Way
  <2> QED
    BY <1>2, <1>4, <2>1 DEF ScanRoot, IsStrictPrefix
<1>5. CASE ~IsExcluded(root) /\ tree[root] = "dir" /\ root \notin failing
  <2>1. ScanRoot(tree, failing, root, depth) =
          { m \in Visited(tree, failing, root, depth) : tree[m] = "file" /\ ~IsExcluded(m) }
    BY <1>5 DEF ScanRoot
  <2>2. CASE ~(IsStrictPrefix(root, p) /\ tree[p] = "file" /\ ~IsExcluded(p))
    BY <1>5, <2>1, <2>2 DEF Visited, IsStrictPrefix
  <2>3. CASE IsStrictPrefix(root, p) /\ tree[p] = "file" /\ ~IsExcluded(p)
    <3>1. IsPrefix(root, p) /\ root # p
      BY <2>3 DEF IsStrictPrefix
    <3>2. p \in ScanRoot(tree, failing, root, depth) <=>
            /\ (Way(root, p) \cup {p}) \cap failing = {}
            /\ \A q \in Way(root, p) : ~SkipsDir(root, q, depth)
      <4>1. \A q \in Way(root, p) : q \in Paths /\ tree[q] = "dir"
        BY <2>3, <3>1, WayFacts DEF TreeInv
      <4>2. p \in Visited(tree, failing, root, depth) <=>
              /\ p \notin failing
              /\ \A q \in Way(root, p) : q \notin failing /\ ~SkipsDir(root, q, depth)
        BY <1>1, <2>3, <3>1, <4>1 DEF Visited
      <4> QED
        BY <2>1, <2>3, <4>2
    <3>3. \A q \in Way(root, p) : ~IsExcluded(q)
      BY <1>1, <2>3, <3>1, WayFacts, ExcludedBelow
    <3>4. \A q \in Way(root, p) : SkipsDir(root, q, depth) <=> depth > 0 /\ Depth(root, q) > depth
      BY <3>3 DEF SkipsDir
    <3>5. /\ Len(root) \in Nat /\ Len(p) \in Nat /\ Len(root) < Len(p)
          /\ \A q \in Way(root, p) : Len(q) \in Len(root)..(Len(p) - 1)
          /\ Front(p) \in Way(root, p) /\ Len(Front(p)) = Len(p) - 1
      BY <3>1, WayFacts
    <3>6. \A q \in Way(root, p) : Depth(root, q) = IF q = root THEN 1 ELSE Len(q) - Len(root)
      BY DEF Depth
    <3>7. ASSUME depth > 0, Len(p) - Len(root) <= depth + 1, NEW q \in Way(root, p)
          PROVE  Depth(root, q) <= depth
      BY <3>5, <3>6, <3>7
    <3>8. ASSUME depth > 0, Depth(root, Front(p)) <= depth
          PROVE  Len(p) - Len(root) <= depth + 1
      BY <3>5, <3>6, <3>8
    <3>9. \A q \in Way(root, p) : Depth(root, q) \in Int
      BY <3>5, <3>6
    <3>10. (\A q \in Way(root, p) : ~SkipsDir(root, q, depth))
             <=> (depth > 0 => Len(p) - Len(root) <= depth + 1)
      BY <3>4, <3>5, <3>7, <3>8, <3>9
    <3> QED
      BY <1>5, <2>3, <3>1, <3>2, <3>10
  <2> QED
    BY <2>2, <2>3
<1> QED
  BY <1>3, <1>4, <1>5

\* In any tree that can come about, at rest or not, with any roots, exclusions and
\* overlaps, any limit of depth and whatever cannot be looked at or read: a scan
\* returns each file that can be reached down to the limit, once for each root
\* above it, and beyond that only what ScanIsRight lets through.
THEOREM ScansAreRight ==
  FsSpec => [](/\ \A depth \in Nat, failing \in SUBSET Paths : ScanIsRight(failing, depth)
               /\ ScanFindsEachFile)
<1>1. FsInit => TreeInv
  BY FsAssumption DEF FsInit, TreeInv
<1>2. FsTypeOK /\ TreeInv => \A depth \in Nat, failing \in SUBSET Paths : ScanIsRight(failing, depth)
  <2> SUFFICES ASSUME FsTypeOK, TreeInv, NEW depth \in Nat, NEW failing \in SUBSET Paths
               PROVE  ScanIsRight(failing, depth)
    OBVIOUS
  <2> DEFINE reached(root, p) == /\ IsPrefix(root, p) /\ ~IsExcluded(root) /\ ~IsExcluded(p)
                                 /\ (Way(root, p) \cup {p}) \cap failing = {}
             below(root, p)   == Len(p) - Len(root)
  <2>1. ASSUME NEW i \in DOMAIN MonitoredPaths, NEW p \in Paths
        PROVE  /\ /\ reached(monitoredPaths[i], p) /\ tree[p] = "file"
                  /\ depth > 0 => below(monitoredPaths[i], p) <= depth
                  => <<i, p>> \in ScanDirectories(tree, failing, depth)
               /\ <<i, p>> \in ScanDirectories(tree, failing, depth) =>
                    /\ reached(monitoredPaths[i], p) /\ tree[p] \notin {"absent", "dir"}
                    /\ tree[p] = "link" => p = monitoredPaths[i]
                    /\ depth > 0 => below(monitoredPaths[i], p) <= depth + 1
    <3> DEFINE root == monitoredPaths[i]
    <3>1. <<i, p>> \in ScanDirectories(tree, failing, depth) <=> p \in ScanRoot(tree, failing, root, depth)
      BY DEF ScanDirectories
    <3>2. root \in Roots /\ root \in Seq(STRING) /\ p \in Seq(STRING)
      BY FsAssumption DEF Roots
    <3>3. Len(root) \in Nat /\ Len(p) \in Nat /\ (p = root => IsPrefix(root, p))
      BY <3>2 DEF IsPrefix
    <3>4. below(root, p) \in Int /\ (p = root => below(root, p) = 0)
          /\ (below(root, p) <= depth => below(root, p) <= depth + 1)
      <4> HIDE DEF root
      <4>1. below(root, p) \in Int /\ (p = root => below(root, p) = 0)
        BY <3>3
      <4> HIDE DEF below
      <4>2. below(root, p) <= depth => below(root, p) <= depth + 1
        BY <4>1
      <4> QED
        BY <4>1, <4>2
    <3>5. IsPrefix(root, p) <=> p = root \/ IsStrictPrefix(root, p)
      BY <3>3 DEF IsStrictPrefix
    <3>6. p \in ScanRoot(tree, failing, root, depth) <=>
            /\ ~IsExcluded(root) /\ ~IsExcluded(p)
            /\ (Way(root, p) \cup {p}) \cap failing = {}
            /\ \/ p = root /\ tree[p] \notin {"absent", "dir"}
               \/ /\ IsStrictPrefix(root, p) /\ tree[p] = "file"
                  /\ depth > 0 => below(root, p) <= depth + 1
      BY <3>2, ScanRootFacts
    <3>7. depth > 0 => 0 <= depth + 1
      OBVIOUS
    <3> HIDE DEF root, below
    <3> QED
      BY <3>1, <3>4, <3>5, <3>6, <3>7 DEF root
  <2> QED
    BY <2>1 DEF ScanIsRight
<1>3. (\A depth \in Nat, failing \in SUBSET Paths : ScanIsRight(failing, depth)) => ScanFindsEachFile
  <2>1. /\ 0..2 \subseteq Nat
        /\ {{}} \cup { {p} : p \in Paths } \subseteq SUBSET Paths
    OBVIOUS
  <2> QED
    BY <2>1, Zenon DEF ScanFindsEachFile
<1> QED
  BY <1>1, <1>2, <1>3, TreeInvStep, FsTypeCorrect, PTL DEF FsSpec

-----------------------------------------------------------------------------
\* The filesystem monitor is one of the loops the agent is built on.
THEOREM FsMonitorIsLoop == FsSpec => FsImplementsLoop
<1>1. FsInit => Loop!LoopInit
  BY DEF FsInit, Loop!LoopInit
<1>2. [FsNext]_fsVars => [Loop!LoopNext]_(Loop!loopVars)
  <2> SUFFICES ASSUME [FsNext]_fsVars
               PROVE  Loop!LoopNext \/ UNCHANGED Loop!loopVars
    OBVIOUS
  <2>1. CASE UNCHANGED <<loop, stopping>>
    BY <2>1 DEF Loop!loopVars
  <2>2. CASE Environment \/ WalkNext
    <3>1. UNCHANGED <<loop, stopping>>
      BY <2>2, WalkNextIsStep
         DEF Environment, Make, Unlink, RenameFile, Touch, Change, WalkStep
    <3> QED
      BY <2>1, <3>1
  <2>3. CASE Start \/ (\E root \in Roots : WalkRoot(root))
    BY <2>3 DEF Start, WalkRoot, LoopStep, LoopGoes, Loop!loopVars
  <2>4. CASE StartLoop \/ TakeEvent \/ LoopExits
    BY <2>4 DEF StartLoop, TakeEvent, LoopExits, LoopStep, LoopGoes, Loop!LoopNext, Loop!LoopGoes
  <2>5. CASE Handle
    BY <2>5 DEF Handle, Ignore, PublishEvent, PublishUnread, EnterDirectory, PublishDirectory, LoopStep, LoopGoes,
                Loop!LoopNext, Loop!LoopGoes, Loop!loopVars
  <2>6. CASE Cancel \/ CloseWatcher
    BY <2>6 DEF Cancel, CloseWatcher, Loop!LoopNext, Loop!Cancel, Loop!loopVars
  <2> QED
    BY <2>1, <2>2, <2>3, <2>4, <2>5, <2>6 DEF FsNext, fsVars
<1> QED
  BY <1>1, <1>2, PTL DEF FsSpec, FsImplementsLoop, Loop!LoopSpec

=============================================================================
