---------------------------- MODULE ProcessProofs ----------------------------
(***************************************************************************)
(* The properties of ProcessMonitor for any set of PIDs and any number of  *)
(* processes.                                                              *)
(***************************************************************************)
EXTENDS ProcessMonitor, TLAPS

\* The processes that are never to be announced again.
Old == announced \cup first

-----------------------------------------------------------------------------
\* The inductive invariant, in parts.

\* What is kept between polls, and what is there in a poll only.
Phases ==
  /\ known = lastList
  /\ loop = "new" => known = {} /\ announced = {} /\ first = {}
  /\ loop # "reading" => running = {} /\ \A p \in PIDs : seen[p] = 0

\* Processes are numbered as they start: what has been seen, announced, ...
\* is not the next one.
Numbers ==
  /\ \A p \in PIDs : proc[p] \in 0..starts /\ seen[p] \in 0..starts
  /\ announced \subseteq 1..starts
  /\ first \subseteq 1..starts
  /\ running \subseteq 1..starts

\* A poll in progress: who has a listed PID, and what was read for it.
Polling ==
  /\ \A p \in InUse \cap list : proc[p] \in running \cup recycled
  /\ \A p \in InUse : proc[p] \in running =>
       p \in list /\ (p \notin todo => seen[p] = proc[p])
  /\ \A p, q \in PIDs : seen[q] # 0 /\ seen[q] = proc[p] => p = q

\* Who has a PID of the last poll has been dealt with, and who has been dealt
\* with has a PID of the last poll.
Settled ==
  /\ \A p \in InUse \cap lastList : proc[p] \in Old \cup recycled
  /\ \A p \in InUse : proc[p] \in Old =>
       p \in known /\ (loop = "reading" => p \in list)
  /\ \A p \in list \ known : seen[p] \notin Old

ProcessInv ==
  /\ ProcessTypeOK
  /\ Phases
  /\ Numbers
  /\ Polling
  /\ Settled
  /\ SurvivorsAreAnnounced
  /\ NothingOldIsAnnounced

LEMMA ProcessInvInit == Init => ProcessInv
<1> USE ProcessAssumption
<1> SUFFICES ASSUME Init
             PROVE  ProcessInv
  OBVIOUS
<1>1. InUse = {} /\ Old = {}
  BY DEF Init, InUse, Old
<1>2. ProcessTypeOK
  <2>1. 0 \in 0..MaxStarts
    OBVIOUS
  <2>2. proc \in [PIDs -> 0..MaxStarts] /\ seen \in [PIDs -> 0..MaxStarts]
    BY <2>1 DEF Init
  <2> QED
    BY <1>1, <2>1, <2>2 DEF Init, ProcessTypeOK
<1>3. Phases /\ Numbers
  BY DEF Init, Phases, Numbers
<1>4. Polling /\ Settled
  BY <1>1 DEF Init, Polling, Settled
<1> QED
  BY <1>2, <1>3, <1>4 DEF Init, ProcessInv, SurvivorsAreAnnounced, NothingOldIsAnnounced

\* What a finished poll announces was not announced before, and is not from
\* the snapshot.
LEMMA DescribedIsNew == ProcessInv => Described \cap Old = {}
BY DEF ProcessInv, Settled, Described

-----------------------------------------------------------------------------
\* A new process: its number is new, and a PID that was listed makes it one of
\* the recycled.
LEMMA SpawnKeeps ==
  ASSUME ProcessInv, NEW p \in PIDs, Spawn(p)
  PROVE  ProcessInv'
<1> USE ProcessAssumption
<1>1. /\ ProcessTypeOK /\ Phases /\ Numbers /\ Polling /\ Settled
      /\ SurvivorsAreAnnounced /\ NothingOldIsAnnounced
  BY DEF ProcessInv
<1>2. /\ proc[p] = 0 /\ starts < MaxStarts /\ starts' = starts + 1
      /\ proc' = [proc EXCEPT ![p] = starts + 1]
      /\ UNCHANGED <<loop, cancelled, known, list, todo, seen, announced,
                     first, lastList, running, survived>>
      /\ recycled \subseteq recycled'
      /\ p \in lastList \cup list => starts + 1 \in recycled'
  BY DEF Spawn
<1>3. /\ starts \in Nat /\ MaxStarts \in Nat
      /\ proc'[p] = starts + 1 /\ proc' \in [PIDs -> 0..MaxStarts]
      /\ \A q \in PIDs : q # p => proc'[q] = proc[q]
      /\ \A q \in PIDs : proc[q] # starts + 1 /\ seen[q] # starts + 1
      /\ starts + 1 \notin Old /\ starts + 1 \notin running
      /\ starts + 1 # 0
  BY <1>1, <1>2 DEF ProcessTypeOK, Numbers, Old
<1>4. InUse' = InUse \cup {p} /\ p \notin InUse
  BY <1>2, <1>3 DEF InUse
<1>5. ProcessTypeOK'
  BY <1>1, <1>2, <1>3, <1>4 DEF ProcessTypeOK, Processes, InUse
<1>6. Phases'
  BY <1>1, <1>2 DEF Phases
<1>7. Numbers'
  BY <1>1, <1>2, <1>3 DEF Numbers
<1>8. Polling'
  BY <1>1, <1>2, <1>3, <1>4 DEF Polling, InUse
<1>9. Settled'
  <2>1. Old' = Old
    BY <1>2 DEF Old
  <2> QED
    BY <1>1, <1>2, <1>3, <1>4, <2>1 DEF Settled, InUse
<1> QED
  BY <1>1, <1>2, <1>5, <1>6, <1>7, <1>8, <1>9
     DEF ProcessInv, SurvivorsAreAnnounced, NothingOldIsAnnounced

LEMMA ExitKeeps ==
  ASSUME ProcessInv, NEW p \in PIDs, Exit(p)
  PROVE  ProcessInv'
<1> USE ProcessAssumption
<1>1. /\ ProcessTypeOK /\ Phases /\ Numbers /\ Polling /\ Settled
      /\ SurvivorsAreAnnounced /\ NothingOldIsAnnounced
  BY DEF ProcessInv
<1>2. /\ proc' = [proc EXCEPT ![p] = 0]
      /\ UNCHANGED <<starts, loop, cancelled, known, list, todo, seen, announced,
                     first, lastList, recycled, running, survived>>
  BY DEF Exit
<1>3. /\ starts \in Nat /\ MaxStarts \in Nat
      /\ proc'[p] = 0 /\ proc' \in [PIDs -> 0..MaxStarts]
      /\ \A q \in PIDs : q # p => proc'[q] = proc[q]
  BY <1>1, <1>2 DEF ProcessTypeOK
<1>4. InUse' = InUse \ {p} /\ Old' = Old
  BY <1>2, <1>3 DEF InUse, Old
<1>5. ProcessTypeOK'
  BY <1>1, <1>2, <1>3, <1>4 DEF ProcessTypeOK, InUse
<1>6. Phases' /\ Numbers' /\ Settled'
  BY <1>1, <1>2, <1>3, <1>4 DEF Phases, Numbers, Settled, InUse
<1>7. Polling'
  BY <1>1, <1>2, <1>3, <1>4 DEF Polling, InUse
<1> QED
  BY <1>1, <1>2, <1>5, <1>6, <1>7 DEF ProcessInv, SurvivorsAreAnnounced, NothingOldIsAnnounced

\* The snapshot: all there is, is known.
LEMMA StartKeeps == ProcessInv /\ Start => ProcessInv'
<1> USE ProcessAssumption
<1> SUFFICES ASSUME ProcessInv, Start
             PROVE  ProcessInv'
  OBVIOUS
<1>1. /\ ProcessTypeOK /\ Phases /\ Numbers /\ Polling /\ Settled
      /\ SurvivorsAreAnnounced /\ NothingOldIsAnnounced
  BY DEF ProcessInv
<1>2. /\ loop = "new" /\ loop' = "idle"
      /\ UNCHANGED <<proc, starts, cancelled, list, todo, seen, announced, recycled, running, survived>>
      /\ \/ known' = InUse /\ lastList' = InUse /\ first' = Alive
         \/ UNCHANGED <<known, lastList, first>>
  BY DEF Start, system
<1>3. /\ announced = {} /\ first = {} /\ list = {} /\ InUse' = InUse
      /\ Alive \subseteq 1..starts /\ InUse \subseteq PIDs
  BY <1>1, <1>2 DEF Phases, Numbers, ProcessTypeOK, Alive, InUse
<1>4. ProcessTypeOK' /\ Numbers'
  BY <1>1, <1>2, <1>3 DEF ProcessTypeOK, Numbers, InUse
<1>5. Phases' /\ Polling'
  BY <1>1, <1>2, <1>3 DEF Phases, Polling
<1>6. Settled'
  BY <1>1, <1>2, <1>3 DEF Settled, Old, Alive
<1> QED
  BY <1>1, <1>2, <1>3, <1>4, <1>5, <1>6
     DEF ProcessInv, SurvivorsAreAnnounced, NothingOldIsAnnounced

LEMMA ReadPIDsKeeps == ProcessInv /\ ReadPIDs => ProcessInv'
<1> USE ProcessAssumption
<1> SUFFICES ASSUME ProcessInv, ReadPIDs
             PROVE  ProcessInv'
  OBVIOUS
<1>1. /\ ProcessTypeOK /\ Phases /\ Numbers /\ Polling /\ Settled
      /\ SurvivorsAreAnnounced /\ NothingOldIsAnnounced
  BY DEF ProcessInv
<1>2. /\ loop = "due" /\ loop' = "reading" /\ list' = InUse /\ todo' = InUse /\ running' = Alive
      /\ UNCHANGED <<proc, starts, cancelled, known, seen, announced, first, lastList,
                     recycled, survived>>
  BY DEF ReadPIDs, system
<1>3. /\ InUse' = InUse /\ Alive \subseteq 1..starts /\ InUse \subseteq PIDs /\ Old' = Old
      /\ \A p \in PIDs : seen[p] = 0
      /\ 0 \notin Old
  BY <1>1, <1>2 DEF Phases, Numbers, Alive, InUse, Old
<1>4. ProcessTypeOK' /\ Numbers' /\ Phases'
  BY <1>1, <1>2, <1>3 DEF ProcessTypeOK, Numbers, Phases, InUse
<1>5. Polling'
  BY <1>1, <1>2, <1>3 DEF Polling, Alive
<1>6. Settled'
  BY <1>1, <1>2, <1>3 DEF Settled
<1> QED
  BY <1>1, <1>2, <1>4, <1>5, <1>6
     DEF ProcessInv, SurvivorsAreAnnounced, NothingOldIsAnnounced

\* The details read are those of who has the PID now: of nobody else, and of
\* none that has been announced unless the PID is known.
LEMMA ReadDetailsKeeps ==
  ASSUME ProcessInv, NEW p \in PIDs, ReadDetails(p)
  PROVE  ProcessInv'
<1> USE ProcessAssumption
<1>1. /\ ProcessTypeOK /\ Phases /\ Numbers /\ Polling /\ Settled
      /\ SurvivorsAreAnnounced /\ NothingOldIsAnnounced
  BY DEF ProcessInv
<1>2. /\ loop = "reading" /\ p \in todo /\ todo' = todo \ {p}
      /\ seen' = [seen EXCEPT ![p] = proc[p]]
      /\ UNCHANGED <<proc, starts, loop, cancelled, known, list, announced, first, lastList,
                     recycled, running, survived>>
  BY DEF ReadDetails, system
<1>3. /\ seen'[p] = proc[p] /\ seen' \in [PIDs -> 0..MaxStarts]
      /\ \A q \in PIDs : q # p => seen'[q] = seen[q]
      /\ InUse' = InUse /\ Old' = Old /\ 0 \notin Old /\ list \subseteq PIDs
  BY <1>1, <1>2 DEF ProcessTypeOK, InUse, Old, Numbers
<1>4. ProcessTypeOK'
  BY <1>1, <1>2, <1>3 DEF ProcessTypeOK
<1>5. Phases' /\ Numbers'
  BY <1>1, <1>2, <1>3 DEF Phases, Numbers
<1>6. Polling'
  <2>1. \A q, r \in PIDs : seen'[r] # 0 /\ seen'[r] = proc[q] => q = r
    BY <1>1, <1>3 DEF Polling, ProcessTypeOK, InUse
  <2> QED
    BY <1>1, <1>2, <1>3, <2>1 DEF Polling, InUse
<1>7. Settled'
  <2>1. p \notin known => proc[p] \notin Old
    BY <1>1, <1>3 DEF Settled, InUse
  <2> QED
    BY <1>1, <1>2, <1>3, <2>1 DEF Settled
<1> QED
  BY <1>1, <1>2, <1>4, <1>5, <1>6, <1>7
     DEF ProcessInv, SurvivorsAreAnnounced, NothingOldIsAnnounced

\* The end of a poll.
LEMMA PublishStartedKeeps == ProcessInv /\ PublishStarted => ProcessInv'
<1> USE ProcessAssumption
<1> SUFFICES ASSUME ProcessInv, PublishStarted
             PROVE  ProcessInv'
  OBVIOUS
<1>1. /\ ProcessTypeOK /\ Phases /\ Numbers /\ Polling /\ Settled
      /\ SurvivorsAreAnnounced /\ NothingOldIsAnnounced
  BY DEF ProcessInv
<1>2. /\ loop = "reading" /\ todo = {} /\ loop' = "idle"
      /\ announced' = announced \cup Described
      /\ known' = list /\ lastList' = list /\ list' = {} /\ running' = {}
      /\ survived' = survived \cup (running \cap Alive)
      /\ seen' = [p \in PIDs |-> 0]
      /\ UNCHANGED <<proc, starts, cancelled, todo, first, recycled>>
  BY DEF PublishStarted, PollDone, system
<1>3. /\ InUse' = InUse /\ Old' = Old \cup Described /\ Described \cap Old = {}
      /\ Described \subseteq 1..starts /\ starts \in Nat /\ list \subseteq PIDs
  <2>1. Described \subseteq 1..starts
    BY <1>1 DEF Described, Numbers, ProcessTypeOK
  <2> QED
    BY <1>1, <1>2, <2>1, DescribedIsNew DEF InUse, Old, ProcessTypeOK
\* Who runs through the poll under a listed PID is described, or was settled.
<1>4. \A p \in InUse : proc[p] \in running => proc[p] \in Old \cup Described \cup recycled
  <2> SUFFICES ASSUME NEW p \in InUse, proc[p] \in running
               PROVE  proc[p] \in Old \cup Described \cup recycled
    OBVIOUS
  <2>1. p \in list /\ seen[p] = proc[p] /\ proc[p] # 0
    BY <1>1, <1>2 DEF Polling, InUse
  <2>2. CASE p \in known
    BY <1>1, <2>2 DEF Settled, Phases
  <2>3. CASE p \notin known
    BY <2>1, <2>3 DEF Described
  <2> QED
    BY <2>2, <2>3
<1>5. ProcessTypeOK'
  <2>1. Described \subseteq Processes
    BY <1>1, <1>3 DEF ProcessTypeOK, Processes
  <2> QED
    BY <1>1, <1>2, <1>3, <2>1 DEF ProcessTypeOK
<1>6. Phases' /\ Numbers'
  BY <1>1, <1>2, <1>3 DEF Phases, Numbers
<1>7. Polling'
  BY <1>2, <1>3 DEF Polling
<1>8. Settled'
  <2>1. \A p \in InUse \cap list : proc[p] \in Old \cup Described \cup recycled
    BY <1>1, <1>4 DEF Polling
  <2>2. \A p \in InUse : proc[p] \in Old \cup Described => p \in list
    BY <1>1, <1>2, <1>3 DEF Settled, Polling, Described, InUse
  <2> QED
    BY <1>2, <1>3, <2>1, <2>2 DEF Settled
<1>9. SurvivorsAreAnnounced'
  <2>1. running \cap Alive \subseteq Old \cup Described \cup recycled
    BY <1>4 DEF Alive
  <2> QED
    BY <1>1, <1>2, <2>1 DEF SurvivorsAreAnnounced, Old
<1>10. NothingOldIsAnnounced'
  BY <1>1, <1>2, <1>3 DEF NothingOldIsAnnounced, Old
<1> QED
  BY <1>5, <1>6, <1>7, <1>8, <1>9, <1>10 DEF ProcessInv

LEMMA ProcessInvStep == ProcessInv /\ [Next]_vars => ProcessInv'
<1> SUFFICES ASSUME ProcessInv, [Next]_vars
             PROVE  ProcessInv'
  OBVIOUS
<1>1. CASE Tick \/ ReadPIDsFails \/ LoopExits
  <2>1. /\ UNCHANGED <<proc, starts, cancelled, known, list, todo, seen, announced,
                       first, lastList, recycled, running, survived>>
        /\ loop \in {"idle", "due"} /\ loop' \in {"due", "idle", "exited"}
    BY <1>1 DEF Tick, ReadPIDsFails, LoopExits, system
  <2>2. InUse' = InUse /\ Old' = Old
    BY <2>1 DEF InUse, Old
  <2> QED
    BY <2>1, <2>2
       DEF ProcessInv, ProcessTypeOK, Phases, Numbers, Polling, Settled,
           SurvivorsAreAnnounced, NothingOldIsAnnounced
<1>2. CASE Cancel \/ UNCHANGED vars
  <2>1. /\ UNCHANGED <<proc, starts, loop, known, list, todo, seen, announced,
                       first, lastList, recycled, running, survived>>
        /\ cancelled' = TRUE \/ cancelled' = cancelled
    BY <1>2 DEF Cancel, vars, system
  <2>2. InUse' = InUse /\ Old' = Old
    BY <2>1 DEF InUse, Old
  <2> QED
    BY <2>1, <2>2
       DEF ProcessInv, ProcessTypeOK, Phases, Numbers, Polling, Settled,
           SurvivorsAreAnnounced, NothingOldIsAnnounced
<1> QED
  BY <1>1, <1>2, SpawnKeeps, ExitKeeps, StartKeeps, ReadPIDsKeeps, ReadDetailsKeeps,
     PublishStartedKeeps
     DEF Next

-----------------------------------------------------------------------------
\* Type correctness of the process monitor.
THEOREM ProcessTypeCorrect == Spec => []ProcessTypeOK
<1>1. ProcessInv => ProcessTypeOK
  BY DEF ProcessInv
<1> QED
  BY <1>1, ProcessInvInit, ProcessInvStep, PTL DEF Spec

\* No process that runs through a poll goes unannounced for any other reason
\* than a PID that had been listed before.
THEOREM NoSurvivorIsMissed == Spec => []SurvivorsAreAnnounced
<1>1. ProcessInv => SurvivorsAreAnnounced
  BY DEF ProcessInv
<1> QED
  BY <1>1, ProcessInvInit, ProcessInvStep, PTL DEF Spec

\* What Start found is never announced.
THEOREM SnapshotIsOld == Spec => []NothingOldIsAnnounced
<1>1. ProcessInv => NothingOldIsAnnounced
  BY DEF ProcessInv
<1> QED
  BY <1>1, ProcessInvInit, ProcessInvStep, PTL DEF Spec

\* No process is announced twice.
THEOREM NoProcessTwice == Spec => AnnouncedOnce
<1>1. ProcessInv /\ [Next]_vars => [PublishStarted => Described \cap announced = {}]_vars
  BY DescribedIsNew DEF Old
<1> QED
  BY <1>1, ProcessInvInit, ProcessInvStep, PTL DEF Spec, AnnouncedOnce

\* The process monitor is one of the loops the agent is built on.
THEOREM ProcessMonitorIsLoop == Spec => ProcImplementsLoop
<1>1. Init => Loop!LoopInit
  BY DEF Init, Loop!LoopInit
<1>2. [Next]_vars => [Loop!LoopNext]_(Loop!loopVars)
  <2> SUFFICES ASSUME [Next]_vars
               PROVE  Loop!LoopNext \/ UNCHANGED Loop!loopVars
    OBVIOUS
  <2>1. CASE Start \/ Tick \/ ReadPIDsFails \/ PublishStarted
    BY <2>1 DEF Start, Tick, ReadPIDsFails, PublishStarted, PollDone, Loop!LoopNext, Loop!LoopGoes
  <2>2. CASE LoopExits
    BY <2>2 DEF LoopExits, Loop!LoopNext, Loop!LoopGoes
  <2>3. CASE Cancel
    BY <2>3 DEF Cancel, Loop!LoopNext, Loop!Cancel
  <2>4. CASE ReadPIDs
    BY <2>4 DEF ReadPIDs, Loop!loopVars
  <2>5. CASE UNCHANGED <<loop, cancelled>>
    BY <2>5 DEF Loop!loopVars
  <2> QED
    BY <2>1, <2>2, <2>3, <2>4, <2>5 DEF Next, Spawn, Exit, ReadDetails, vars
<1> QED
  BY <1>1, <1>2, PTL DEF Spec, ProcImplementsLoop, Loop!LoopSpec

=============================================================================
