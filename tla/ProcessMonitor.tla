--------------------------- MODULE ProcessMonitor ---------------------------
(***************************************************************************)
(* The process monitor (internal/processes): a poll of the process table   *)
(* every few seconds, compared with the PIDs of the poll before.  Processes*)
(* start and exit at any time, also while the table is being read, and the *)
(* kernel gives the PID of a process that has exited to a later one.       *)
(*                                                                         *)
(* Processes are numbered in the order they start; 0 stands for none, and  *)
(* for the empty details of a process that is gone when they are read.     *)
(***************************************************************************)
EXTENDS Naturals

CONSTANTS PIDs,
          MaxStarts    \* bound on the processes started in one run

ASSUME ProcessAssumption == MaxStarts \in Nat

Processes == 1..MaxStarts

VARIABLES
  proc,       \* the process that has a PID
  starts,     \* how many processes have started
  loop,       \* "new", "idle", "due", "reading" or "exited"
  cancelled,  \* Stop has cancelled the context
  known,      \* knownPIDs
  list,       \* the PIDs of the poll under way
  todo,       \* those whose details are still to be read
  seen,       \* the process whose details were read for a PID
  announced,  \* the processes a PROCESS_STARTED event was published for
  \* History, for the properties:
  first,      \* the processes of the snapshot taken by Start
  lastList,   \* the PIDs of the last poll (or that snapshot) that succeeded
  recycled,   \* processes that got a PID the last poll, or this one, has listed
  running,    \* processes that were running when the poll began
  survived    \* processes that have been running through one whole poll

system == <<proc, starts>>
vars   == <<system, loop, cancelled, known, list, todo, seen, announced,
            first, lastList, recycled, running, survived>>

InUse == { p \in PIDs : proc[p] # 0 }
Alive == { proc[p] : p \in InUse }

ProcessTypeOK ==
  /\ proc \in [PIDs -> 0..MaxStarts]
  /\ \A p, q \in InUse : proc[p] = proc[q] => p = q
  /\ starts \in 0..MaxStarts
  /\ loop \in {"new", "idle", "due", "reading", "exited"}
  /\ cancelled \in BOOLEAN
  /\ known \subseteq PIDs
  /\ todo \subseteq list /\ list \subseteq PIDs
  /\ loop # "reading" => list = {}
  /\ seen \in [PIDs -> 0..MaxStarts]
  /\ announced \subseteq Processes

Init ==
  /\ proc = [p \in PIDs |-> 0]
  /\ starts = 0
  /\ loop = "new"
  /\ cancelled = FALSE
  /\ known = {}
  /\ list = {}
  /\ todo = {}
  /\ seen = [p \in PIDs |-> 0]
  /\ announced = {}
  /\ first = {}
  /\ lastList = {}
  /\ recycled = {}
  /\ running = {}
  /\ survived = {}

-----------------------------------------------------------------------------
\* The operating system.

Spawn(p) ==
  /\ proc[p] = 0
  /\ starts < MaxStarts
  /\ starts' = starts + 1
  /\ proc' = [proc EXCEPT ![p] = starts + 1]
  /\ recycled' = IF p \in lastList \cup list THEN recycled \cup {starts + 1} ELSE recycled
  /\ UNCHANGED <<loop, cancelled, known, list, todo, seen, announced,
                 first, lastList, running, survived>>

Exit(p) ==
  /\ proc[p] # 0
  /\ proc' = [proc EXCEPT ![p] = 0]
  /\ UNCHANGED <<starts, loop, cancelled, known, list, todo, seen, announced,
                 first, lastList, recycled, running, survived>>

-----------------------------------------------------------------------------
\* Fault for the mutation runs: the snapshot is not kept.
StartKnowsNothing ==
  /\ loop = "new"
  /\ loop' = "idle"
  /\ lastList' = InUse
  /\ first' = Alive
  /\ UNCHANGED <<system, cancelled, known, list, todo, seen, announced,
                 recycled, running, survived>>

\* Monitor.Start; when the snapshot fails nothing is known.
Start ==
  /\ loop = "new"
  /\ loop' = "idle"
  /\ \/ known' = InUse /\ lastList' = InUse /\ first' = Alive
     \/ UNCHANGED <<known, lastList, first>>
  /\ UNCHANGED <<system, cancelled, list, todo, seen, announced,
                 recycled, running, survived>>

Tick ==
  /\ loop = "idle"
  /\ loop' = "due"
  /\ UNCHANGED <<system, cancelled, known, list, todo, seen, announced,
                 first, lastList, recycled, running, survived>>

\* checkProcesses.  GetRunningProcesses reads the PIDs, then the details one
\* process at a time.
ReadPIDs ==
  /\ loop = "due"
  /\ loop' = "reading"
  /\ list' = InUse
  /\ todo' = InUse
  /\ running' = Alive
  /\ UNCHANGED <<system, cancelled, known, seen, announced, first, lastList, recycled, survived>>

\* Fault for the mutation runs: a failed poll forgets what was known.
ReadPIDsFailsForgetting ==
  /\ loop = "due"
  /\ loop' = "idle"
  /\ known' = {}
  /\ UNCHANGED <<system, cancelled, list, todo, seen, announced,
                 first, lastList, recycled, running, survived>>

ReadPIDsFails ==
  /\ loop = "due"
  /\ loop' = "idle"
  /\ UNCHANGED <<system, cancelled, known, list, todo, seen, announced,
                 first, lastList, recycled, running, survived>>

ReadDetails(p) ==
  /\ loop = "reading"
  /\ p \in todo
  /\ todo' = todo \ {p}
  /\ seen' = [seen EXCEPT ![p] = proc[p]]
  /\ UNCHANGED <<system, loop, cancelled, known, list, announced,
                 first, lastList, recycled, running, survived>>

\* The processes that the events published at the end of the poll describe.
Described == { seen[p] : p \in list \ known } \ {0}

PollDone == loop = "reading" /\ todo = {} /\ loop' = "idle"

\* Faults for the mutation runs: PIDs are never forgotten; the list is not
\* let go.
PublishNeverForgetting ==
  /\ PollDone
  /\ announced' = announced \cup Described
  /\ known' = known \cup list
  /\ lastList' = list
  /\ survived' = survived \cup (running \cap Alive)
  /\ list' = {}
  /\ running' = {}
  /\ seen' = [p \in PIDs |-> 0]
  /\ UNCHANGED <<system, cancelled, todo, first, recycled>>
PublishKeepingList ==
  /\ PollDone
  /\ announced' = announced \cup Described
  /\ known' = list
  /\ lastList' = list
  /\ survived' = survived \cup (running \cap Alive)
  /\ running' = {}
  /\ seen' = [p \in PIDs |-> 0]
  /\ UNCHANGED <<system, cancelled, list, todo, first, recycled>>

\* The rest of checkProcesses: an event for each PID not known before.
PublishStarted ==
  /\ PollDone
  /\ announced' = announced \cup Described
  /\ known' = list
  /\ lastList' = list
  /\ survived' = survived \cup (running \cap Alive)
  /\ list' = {}
  /\ running' = {}
  /\ seen' = [p \in PIDs |-> 0]
  /\ UNCHANGED <<system, cancelled, todo, first, recycled>>

Cancel ==
  /\ loop # "new"
  /\ ~cancelled
  /\ cancelled' = TRUE
  /\ UNCHANGED <<system, loop, known, list, todo, seen, announced,
                 first, lastList, recycled, running, survived>>

\* Fault for the mutation runs: Stop is heeded in the middle of a poll.
LoopExitsMidway ==
  /\ loop \in {"idle", "reading"}
  /\ cancelled
  /\ loop' = "exited"
  /\ list' = {} /\ todo' = {}
  /\ UNCHANGED <<system, cancelled, known, seen, announced,
                 first, lastList, recycled, running, survived>>

LoopExits ==
  /\ loop = "idle"
  /\ cancelled
  /\ loop' = "exited"
  /\ UNCHANGED <<system, cancelled, known, list, todo, seen, announced,
                 first, lastList, recycled, running, survived>>

Next ==
  \/ \E p \in PIDs : Spawn(p) \/ Exit(p)
  \/ Start \/ Tick
  \/ ReadPIDs \/ ReadPIDsFails
  \/ \E p \in PIDs : ReadDetails(p)
  \/ PublishStarted
  \/ Cancel \/ LoopExits

Spec == Init /\ [][Next]_vars

-----------------------------------------------------------------------------
\* A process that is there through one whole poll has been announced, with its
\* own details, unless it was there at Start or got a PID that the last poll,
\* or the one under way, had listed for another process.
SurvivorsAreAnnounced == survived \subseteq announced \cup first \cup recycled

\* No process is announced twice, whatever polls fail and whatever process has
\* had its PID before.
AnnouncedOnce == [][ PublishStarted => Described \cap announced = {} ]_vars

\* What was there at Start is never announced as started.
NothingOldIsAnnounced == first \cap announced = {}

\* The loop is one of those the agent starts, cancels and waits for: it ends
\* after Stop only, and never in the middle of a poll.
Loop == INSTANCE MonitorLoop WITH
  loop <- CASE loop = "new" -> "none"
            [] loop \in {"due", "reading"} -> "busy"
            [] OTHER -> loop
ProcImplementsLoop == Loop!LoopSpec

=============================================================================
