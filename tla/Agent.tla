-------------------------------- MODULE Agent --------------------------------
(***************************************************************************)
(* The life of one agent process: NewAgent, Start, the wait for a signal   *)
(* and Stop, run by the main goroutine, around the event pipeline that the *)
(* monitors and the API handlers feed.                                     *)
(*                                                                         *)
(* The two monitors are loops that Stop cancels and waits for.  HTTP       *)
(* handlers are not: Shutdown waits for them 3 seconds, then goes on.      *)
(***************************************************************************)
EXTENDS EventPipeline

CONSTANTS ProcessMonitorEnabled,  \* cfg.ProcessMonitor.Enabled
          MaxHandlers             \* bound on the HTTP handlers at a time

ASSUME AgentAssumption ==
  /\ ProcessMonitorEnabled \in BOOLEAN
  /\ MaxHandlers \in Nat

VARIABLES
  main,       \* where the main goroutine is
  fsLoop,     \* filesystem.Monitor.eventLoop
  procLoop,   \* processes.Monitor.loop
  cancelled,  \* the monitors whose context is cancelled
  listening,  \* whether the server accepts requests
  handlers    \* HTTP handlers under way

agentOnlyVars == <<main, fsLoop, procLoop, cancelled, listening, handlers>>
agentVars == <<pipelineVars, agentOnlyVars>>

MainPlaces ==
  { "new", "dbOpened", "quarantineReady", "engineReady", "monitorReady", "built",
    "fsStarted", "procStarted", "active", "draining", "waitProc", "waitFs", "closing",
    "terminated", "constructionFailed", "startFailed" }

Stopping == {"draining", "waitProc", "waitFs", "closing", "terminated"}

\* "idle" waits in select, "busy" handles what select returned.
LoopPlaces == {"none", "idle", "busy", "exited"}

AgentTypeOK ==
  /\ PipelineTypeOK
  /\ main \in MainPlaces
  /\ fsLoop \in LoopPlaces
  /\ procLoop \in LoopPlaces
  /\ cancelled \subseteq {"fs", "proc"}
  /\ listening \in BOOLEAN
  /\ handlers \in 0..MaxHandlers

AgentInit ==
  /\ PipelineInit
  /\ main = "new"
  /\ fsLoop = "none"
  /\ procLoop = "none"
  /\ cancelled = {}
  /\ listening = FALSE
  /\ handlers = 0

MainGoes(from, to) == main = from /\ main' = to

-----------------------------------------------------------------------------
\* NewAgent

OpenDatabase ==
  /\ MainGoes("new", "dbOpened")
  /\ OpenDB
  /\ UNCHANGED <<fsLoop, procLoop, cancelled, listening, handlers>>

OpenDatabaseFails ==
  /\ MainGoes("new", "constructionFailed")
  /\ UNCHANGED <<pipelineVars, fsLoop, procLoop, cancelled, listening, handlers>>

NewQuarantineManager ==
  /\ MainGoes("dbOpened", "quarantineReady")
  /\ UNCHANGED <<pipelineVars, fsLoop, procLoop, cancelled, listening, handlers>>

NewQuarantineManagerFails ==
  /\ MainGoes("dbOpened", "constructionFailed")
  /\ CloseDB
  /\ UNCHANGED <<fsLoop, procLoop, cancelled, listening, handlers>>

NewEngine ==
  /\ MainGoes("quarantineReady", "engineReady")
  /\ IF DetectionEnabled THEN Subscribe("detection") ELSE UNCHANGED pipelineVars
  /\ UNCHANGED <<fsLoop, procLoop, cancelled, listening, handlers>>

\* Fault for the mutation runs: the loop runs from construction on.
NewFileMonitorRunning ==
  /\ MainGoes("engineReady", "monitorReady")
  /\ fsLoop' = "idle"
  /\ UNCHANGED <<pipelineVars, procLoop, cancelled, listening, handlers>>

NewFileMonitor ==
  /\ MainGoes("engineReady", "monitorReady")
  /\ UNCHANGED <<pipelineVars, fsLoop, procLoop, cancelled, listening, handlers>>

NewFileMonitorFails ==
  /\ MainGoes("engineReady", "constructionFailed")
  /\ CloseDB
  /\ UNCHANGED <<fsLoop, procLoop, cancelled, listening, handlers>>

\* NewServer makes the hub, which subscribes; it returns no error.
NewServer ==
  /\ MainGoes("monitorReady", "built")
  /\ Subscribe("hub")
  /\ UNCHANGED <<fsLoop, procLoop, cancelled, listening, handlers>>

-----------------------------------------------------------------------------
\* Start, called by RunUntilSignal

StartFileMonitor ==
  /\ MainGoes("built", "fsStarted")
  /\ fsLoop' = "idle"
  /\ UNCHANGED <<pipelineVars, procLoop, cancelled, listening, handlers>>

StartProcessMonitor ==
  /\ MainGoes("fsStarted", "procStarted")
  /\ procLoop' = IF ProcessMonitorEnabled THEN "idle" ELSE procLoop
  /\ UNCHANGED <<pipelineVars, fsLoop, cancelled, listening, handlers>>

StartServer ==
  /\ MainGoes("procStarted", "active")
  /\ listening' = TRUE
  /\ UNCHANGED <<pipelineVars, fsLoop, procLoop, cancelled, handlers>>

\* The address is taken.  RunUntilSignal returns; it does not call Stop.
StartServerFails ==
  /\ MainGoes("procStarted", "startFailed")
  /\ UNCHANGED <<pipelineVars, fsLoop, procLoop, cancelled, listening, handlers>>

-----------------------------------------------------------------------------
\* A signal, and Stop

Signal ==
  /\ MainGoes("active", "draining")
  /\ listening' = FALSE
  /\ UNCHANGED <<pipelineVars, fsLoop, procLoop, cancelled, handlers>>

\* Faults for the mutation runs: Shutdown without a timeout; Stop without the
\* wait for the loop; Stop that closes the database first.
ShutdownWaits ==
  /\ handlers = 0
  /\ MainGoes("draining", IF ProcessMonitorEnabled THEN "waitProc" ELSE "waitFs")
  /\ cancelled' = cancelled \cup {IF ProcessMonitorEnabled THEN "proc" ELSE "fs"}
  /\ UNCHANGED <<pipelineVars, fsLoop, procLoop, listening, handlers>>
FileMonitorAbandoned ==
  /\ MainGoes("waitFs", "closing")
  /\ UNCHANGED <<pipelineVars, fsLoop, procLoop, cancelled, listening, handlers>>
ShutdownClosesDatabase ==
  /\ MainGoes("draining", IF ProcessMonitorEnabled THEN "waitProc" ELSE "waitFs")
  /\ cancelled' = cancelled \cup {IF ProcessMonitorEnabled THEN "proc" ELSE "fs"}
  /\ CloseDB
  /\ UNCHANGED <<fsLoop, procLoop, listening, handlers>>

\* Shutdown returns, with handlers under way when its 3 seconds are over; Stop
\* goes on to cancel the first monitor.
ShutdownReturns ==
  /\ MainGoes("draining", IF ProcessMonitorEnabled THEN "waitProc" ELSE "waitFs")
  /\ cancelled' = cancelled \cup {IF ProcessMonitorEnabled THEN "proc" ELSE "fs"}
  /\ UNCHANGED <<pipelineVars, fsLoop, procLoop, listening, handlers>>

ProcessMonitorStopped ==
  /\ procLoop = "exited"
  /\ MainGoes("waitProc", "waitFs")
  /\ cancelled' = cancelled \cup {"fs"}
  /\ UNCHANGED <<pipelineVars, fsLoop, procLoop, listening, handlers>>

FileMonitorStopped ==
  /\ fsLoop = "exited"
  /\ MainGoes("waitFs", "closing")
  /\ UNCHANGED <<pipelineVars, fsLoop, procLoop, cancelled, listening, handlers>>

\* Fault for the mutation runs: Stop forgets the events still being judged.
CloseDatabaseAndForget ==
  /\ MainGoes("closing", "terminated")
  /\ db' = "closed"
  /\ stage' = [n \in EventNo |-> IF stage[n] = "none" THEN "none" ELSE "done"]
  /\ UNCHANGED <<listeners, published, findings, toHub, rows, lost,
                 fsLoop, procLoop, cancelled, listening, handlers>>

CloseDatabase ==
  /\ MainGoes("closing", "terminated")
  /\ CloseDB
  /\ UNCHANGED <<fsLoop, procLoop, cancelled, listening, handlers>>

-----------------------------------------------------------------------------
\* eventLoop.  When the context is cancelled and an event is ready, select takes
\* either one.

FsTakesEvent ==
  /\ fsLoop = "idle"
  /\ fsLoop' = "busy"
  /\ UNCHANGED <<pipelineVars, main, procLoop, cancelled, listening, handlers>>

FsPublishes ==
  /\ fsLoop = "busy"
  /\ fsLoop' = "idle"
  /\ \E event \in Observations :
       /\ event.type \in FileChangeTypes \cup {"FILE_RENAMED"}
       /\ event.severity = "INFO"
       /\ Observe(event)
  /\ UNCHANGED <<main, procLoop, cancelled, listening, handlers>>

\* An error of the watcher, an excluded path, an operation of no interest.
FsIgnores ==
  /\ fsLoop = "busy"
  /\ fsLoop' = "idle"
  /\ UNCHANGED <<pipelineVars, main, procLoop, cancelled, listening, handlers>>

FsExits ==
  /\ fsLoop = "idle"
  /\ "fs" \in cancelled
  /\ fsLoop' = "exited"
  /\ UNCHANGED <<pipelineVars, main, procLoop, cancelled, listening, handlers>>

\* loop and checkProcesses: a poll publishes any number of new processes.

ProcTicks ==
  /\ procLoop = "idle"
  /\ procLoop' = "busy"
  /\ UNCHANGED <<pipelineVars, main, fsLoop, cancelled, listening, handlers>>

ProcPublishes ==
  /\ procLoop = "busy"
  /\ \E event \in Observations : event.type = "PROCESS_STARTED" /\ Observe(event)
  /\ UNCHANGED agentOnlyVars

ProcPollEnds ==
  /\ procLoop = "busy"
  /\ procLoop' = "idle"
  /\ UNCHANGED <<pipelineVars, main, fsLoop, cancelled, listening, handlers>>

ProcExits ==
  /\ procLoop = "idle"
  /\ "proc" \in cancelled
  /\ procLoop' = "exited"
  /\ UNCHANGED <<pipelineVars, main, fsLoop, cancelled, listening, handlers>>

\* HTTP handlers.  The creation of a baseline publishes its end, and a check
\* the drift it finds, each kind with a severity of its own.

BaselineSeverity ==
  [ BASELINE_CHANGED |-> "INFO", FILE_CREATED |-> "INFO", FILE_MODIFIED |-> "MEDIUM",
    FILE_PERMISSION_CHANGED |-> "LOW", FILE_DELETED |-> "MEDIUM" ]

\* A connection accepted before Shutdown may bring its request afterwards.
HandlerStarts ==
  /\ listening \/ main \in Stopping
  /\ handlers < MaxHandlers
  /\ handlers' = handlers + 1
  /\ UNCHANGED <<pipelineVars, main, fsLoop, procLoop, cancelled, listening>>

HandlerPublishes ==
  /\ handlers > 0
  /\ \E event \in Observations :
       /\ event.type \in DOMAIN BaselineSeverity
       /\ event.severity = BaselineSeverity[event.type]
       /\ Observe(event)
  /\ UNCHANGED agentOnlyVars

\* Fault for the mutation runs: a handler is signed off twice.
HandlerEndsTwice ==
  /\ handlers > 0
  /\ handlers' = handlers - 2
  /\ UNCHANGED <<pipelineVars, main, fsLoop, procLoop, cancelled, listening>>

HandlerEnds ==
  /\ handlers > 0
  /\ handlers' = handlers - 1
  /\ UNCHANGED <<pipelineVars, main, fsLoop, procLoop, cancelled, listening>>

\* A goroutine of the event manager runs ProcessEvent.
EngineStep(n) == ProcessEvent(n) /\ UNCHANGED agentOnlyVars

-----------------------------------------------------------------------------
NewAgent ==
  \/ OpenDatabase \/ OpenDatabaseFails
  \/ NewQuarantineManager \/ NewQuarantineManagerFails
  \/ NewEngine
  \/ NewFileMonitor \/ NewFileMonitorFails
  \/ NewServer

Start == StartFileMonitor \/ StartProcessMonitor \/ StartServer \/ StartServerFails

Stop == ShutdownReturns \/ ProcessMonitorStopped \/ FileMonitorStopped \/ CloseDatabase

FsLoop   == FsTakesEvent \/ FsPublishes \/ FsIgnores \/ FsExits
ProcLoop == ProcTicks \/ ProcPublishes \/ ProcPollEnds \/ ProcExits
Handler  == HandlerStarts \/ HandlerPublishes \/ HandlerEnds

AgentNext ==
  \/ NewAgent \/ Start \/ Signal \/ Stop
  \/ FsLoop \/ ProcLoop \/ Handler
  \/ \E n \in EventNo : EngineStep(n)

AgentSpec == AgentInit /\ [][AgentNext]_agentVars

\* The main goroutine runs, and Shutdown returns at the latest at its timeout.
\* A loop ends what it handles, and a select that finds the context cancelled
\* time and again takes that case at last.  Nothing is assumed of handlers.
AgentFairness ==
  /\ WF_agentVars(Stop)
  /\ WF_agentVars(FsPublishes \/ FsIgnores)
  /\ WF_agentVars(ProcPollEnds)
  /\ SF_agentVars(FsExits)
  /\ SF_agentVars(ProcExits)

AgentFairSpec == AgentSpec /\ AgentFairness

-----------------------------------------------------------------------------
\* No event is published before everyone has subscribed: each one is handed to
\* the detection engine, when it is enabled, and to the hub.
EveryEventReachesEveryListener ==
  \A n \in PublishedNos :
    /\ n \in toHub
    /\ DetectionEnabled => stage[n] # "none"

\* No observation is lost on the way to a database that works, until Stop has
\* seen both monitors end and has closed it.
NothingLostBeforeStopEnds == lost # {} => main = "terminated" \/ InsertMayFail

\* Once the database is closed no monitor runs, so whatever still publishes is
\* a handler Shutdown gave up on or an alert.
MonitorsEndBeforeDatabase ==
  db = "closed" => fsLoop \in {"none", "exited"} /\ procLoop \in {"none", "exited"}

\* After a signal the agent terminates, whatever its HTTP clients do.
SignalEndsTheAgent == (main = "draining") ~> (main = "terminated")

-----------------------------------------------------------------------------
\* Stop is announced as clean and "terminated safely" (RunUntilSignal): what
\* the monitors saw before it would be in the database.
DocStopKeepsEvents == lost = {}

=============================================================================
