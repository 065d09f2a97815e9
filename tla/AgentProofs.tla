----------------------------- MODULE AgentProofs -----------------------------
(***************************************************************************)
(* The safety properties of Agent for every configuration.                 *)
(***************************************************************************)
EXTENDS Agent, EventPipelineProofs

\* A step of the agent is a step of the event pipeline, or leaves it alone.
LEMMA AgentStepsPipeline == [AgentNext]_agentVars => [PipelineNext]_pipelineVars
<1> SUFFICES ASSUME [AgentNext]_agentVars
             PROVE  [PipelineNext]_pipelineVars
  OBVIOUS
<1>1. CASE NewAgent
  BY <1>1 DEF NewAgent, OpenDatabase, OpenDatabaseFails, NewQuarantineManager,
     NewQuarantineManagerFails, NewEngine, NewFileMonitor, NewFileMonitorFails, NewServer,
     PipelineNext, ListenerNames
<1>2. CASE Start \/ Signal
  BY <1>2 DEF Start, StartFileMonitor, StartProcessMonitor, StartServer, StartServerFails, Signal
<1>3. CASE Stop
  BY <1>3 DEF Stop, ShutdownReturns, ProcessMonitorStopped, FileMonitorStopped, CloseDatabase,
     PipelineNext
<1>4. CASE FsLoop
  BY <1>4 DEF FsLoop, FsTakesEvent, FsPublishes, FsIgnores, FsExits, PipelineNext
<1>5. CASE ProcLoop
  BY <1>5 DEF ProcLoop, ProcTicks, ProcPublishes, ProcPollEnds, ProcExits, PipelineNext
<1>6. CASE Handler
  BY <1>6 DEF Handler, HandlerStarts, Stopping, HandlerPublishes, HandlerEnds, PipelineNext
<1>7. ASSUME NEW n \in EventNo, EngineStep(n)
      PROVE  PipelineNext
  BY <1>7 DEF EngineStep, ProcessEvent, PipelineNext
<1>8. CASE UNCHANGED agentVars
  BY <1>8 DEF agentVars
<1> QED
  BY <1>1, <1>2, <1>3, <1>4, <1>5, <1>6, <1>7, <1>8 DEF AgentNext

\* The agent implements the event pipeline: what EventPipelineProofs proves of
\* the pipeline holds in the agent.
THEOREM AgentImplementsPipeline == AgentSpec => PipelineSpec
<1>1. AgentInit => PipelineInit
  BY DEF AgentInit
<1> QED
  BY <1>1, AgentStepsPipeline, PTL DEF AgentSpec, PipelineSpec

-----------------------------------------------------------------------------
\* The places of the main goroutine before any event can be published, and
\* after NewServer.
Constructing ==
  {"new", "dbOpened", "quarantineReady", "engineReady", "monitorReady", "constructionFailed"}
Started == MainPlaces \ (Constructing \cup {"built"})

OwnTypeOK ==
  /\ main \in MainPlaces
  /\ fsLoop \in LoopPlaces
  /\ procLoop \in LoopPlaces
  /\ cancelled \subseteq {"fs", "proc"}
  /\ listening \in BOOLEAN
  /\ handlers \in 0..MaxHandlers

\* How the main goroutine's place goes with what it has set up, started and
\* stopped so far.
MainInv ==
  /\ main = "new" => db = "unopened"
  /\ main \notin {"new", "constructionFailed", "terminated"} => db = "open"
  /\ main = "terminated" => db = "closed"
  /\ main \notin {"new", "dbOpened", "quarantineReady", "constructionFailed"} =>
        (DetectionEnabled => "detection" \in listeners)
  /\ main \notin Constructing => "hub" \in listeners
  /\ fsLoop # "none" => main \in Started
  /\ procLoop # "none" => main \in Started /\ ProcessMonitorEnabled
  /\ listening \/ handlers > 0 => main \in Started
  /\ published # <<>> => main \in Started
  /\ main \in {"waitFs", "closing", "terminated"} => procLoop \in {"none", "exited"}
  /\ main \in {"closing", "terminated"} => fsLoop = "exited"

\* What a Publish needs and keeps.
LEMMA PublishInAgent ==
  ASSUME MainInv, EveryEventReachesEveryListener, TypeInv, main \in Started,
         NEW e \in Events, NEW stages \in [EventNo -> Stages], Publish(e, stages),
         \A m \in EventNo : stage[m] # "none" => stages[m] # "none"
  PROVE  EveryEventReachesEveryListener' 
<1>1. "hub" \in listeners /\ (DetectionEnabled => "detection" \in listeners)
  BY DEF MainInv, Started, Constructing
<1>2. PublishedNos' = PublishedNos \cup {Len(published')} /\ Len(published') = Len(published) + 1
  BY PublishEffect DEF TypeInv
<1>3. toHub' = toHub \cup {Len(published')}
  BY <1>1, <1>2 DEF Publish
<1>4. DetectionEnabled => stage' = [stages EXCEPT ![Len(published')] = "spawned"]
  BY <1>1, <1>2 DEF Publish
<1>5. \A m \in PublishedNos' : m \in EventNo
  BY <1>2, PublishEffect, PipelineAssumption DEF TypeInv, PipelineTypeOK, PublishedNos, EventNo
<1> QED
  BY <1>2, <1>3, <1>4, <1>5 DEF EveryEventReachesEveryListener

LEMMA OwnTypeStep == OwnTypeOK /\ [AgentNext]_agentVars => OwnTypeOK'
<1> SUFFICES ASSUME OwnTypeOK, [AgentNext]_agentVars
             PROVE  OwnTypeOK'
  OBVIOUS
<1> USE AgentAssumption DEF OwnTypeOK, MainPlaces, LoopPlaces, MainGoes
<1>1. CASE NewAgent
  BY <1>1 DEF NewAgent, OpenDatabase, OpenDatabaseFails, NewQuarantineManager,
     NewQuarantineManagerFails, NewEngine, NewFileMonitor, NewFileMonitorFails, NewServer
<1>2. CASE Start \/ Signal
  BY <1>2 DEF Start, StartFileMonitor, StartProcessMonitor, StartServer, StartServerFails, Signal
<1>3. CASE Stop
  BY <1>3 DEF Stop, ShutdownReturns, ProcessMonitorStopped, FileMonitorStopped, CloseDatabase
<1>4. CASE FsLoop
  BY <1>4 DEF FsLoop, FsTakesEvent, FsPublishes, FsIgnores, FsExits
<1>5. CASE ProcLoop
  BY <1>5 DEF ProcLoop, ProcTicks, ProcPublishes, ProcPollEnds, ProcExits, agentOnlyVars
<1>6. CASE Handler
  <2>1. CASE HandlerStarts
    BY <2>1 DEF HandlerStarts
  <2>2. CASE HandlerPublishes
    BY <2>2 DEF HandlerPublishes, agentOnlyVars
  <2>3. CASE HandlerEnds
    BY <2>3 DEF HandlerEnds
  <2> QED
    BY <1>6, <2>1, <2>2, <2>3 DEF Handler
<1>7. ASSUME NEW n \in EventNo, EngineStep(n)
      PROVE  OwnTypeOK'
  BY <1>7 DEF EngineStep, agentOnlyVars
<1>8. CASE UNCHANGED agentVars
  BY <1>8 DEF agentVars, agentOnlyVars
<1> QED
  BY <1>1, <1>2, <1>3, <1>4, <1>5, <1>6, <1>7, <1>8 DEF AgentNext

AgentInv == OwnTypeOK /\ MainInv /\ EveryEventReachesEveryListener

LEMMA MainStep == TypeInv /\ OwnTypeOK /\ MainInv /\ [AgentNext]_agentVars => MainInv'
<1> SUFFICES ASSUME TypeInv, OwnTypeOK, MainInv, [AgentNext]_agentVars
             PROVE  MainInv'
  OBVIOUS
<1> USE DEF MainInv, Started, Constructing, MainPlaces
<1>0. published \in Seq(Events)
  BY DEF TypeInv, PipelineTypeOK
<1>1. CASE NewAgent
  <2> USE DEF MainGoes
  <2>1. CASE OpenDatabase \/ OpenDatabaseFails \/ NewQuarantineManager
    BY <2>1 DEF OpenDatabase, OpenDatabaseFails, NewQuarantineManager, OpenDB, pipelineVars
  <2>2. CASE NewQuarantineManagerFails \/ NewFileMonitorFails
    BY <2>2 DEF NewQuarantineManagerFails, NewFileMonitorFails, CloseDB
  <2>3. CASE NewEngine
    BY <2>3 DEF NewEngine, Subscribe, pipelineVars
  <2>4. CASE NewFileMonitor
    BY <2>4 DEF NewFileMonitor, pipelineVars
  <2>5. CASE NewServer
    BY <2>5 DEF NewServer, Subscribe
  <2> QED
    BY <1>1, <2>1, <2>2, <2>3, <2>4, <2>5 DEF NewAgent
<1>2. CASE Start
  BY <1>2 DEF Start, StartFileMonitor, StartProcessMonitor, StartServer, StartServerFails,
     MainGoes, pipelineVars
<1>3. CASE Signal
  BY <1>3 DEF Signal, MainGoes, pipelineVars
<1>4. CASE Stop
  <2> USE DEF MainGoes
  <2>1. CASE ShutdownReturns
    BY <2>1 DEF ShutdownReturns, pipelineVars
  <2>2. CASE ProcessMonitorStopped
    BY <2>2 DEF ProcessMonitorStopped, pipelineVars
  <2>3. CASE FileMonitorStopped
    BY <2>3 DEF FileMonitorStopped, pipelineVars
  <2>4. CASE CloseDatabase
    BY <2>4 DEF CloseDatabase, CloseDB
  <2> QED
    BY <1>4, <2>1, <2>2, <2>3, <2>4 DEF Stop
<1>5. ASSUME UNCHANGED <<main, listeners, db>>,
             fsLoop' # fsLoop => fsLoop \in {"idle", "busy"} ,
             procLoop' # procLoop => procLoop \in {"idle", "busy"},
             listening' = listening, handlers' > 0 => handlers > 0 \/ listening,
             published' # <<>> => published # <<>> \/ main \in Started
      PROVE  MainInv'
  BY <1>5
<1>6. CASE FsLoop
  BY <1>5, <1>6 DEF FsLoop, FsTakesEvent, FsPublishes, FsIgnores, FsExits, Observe, pipelineVars
<1>7. CASE ProcLoop
  BY <1>5, <1>7 DEF ProcLoop, ProcTicks, ProcPublishes, ProcPollEnds, ProcExits, Observe,
     pipelineVars, agentOnlyVars
<1>8. CASE Handler
  <2>1. handlers \in Nat
    BY AgentAssumption DEF OwnTypeOK
  <2> QED
    BY <1>5, <1>8, <2>1 DEF Handler, HandlerStarts, Stopping, HandlerPublishes, HandlerEnds, Observe,
       pipelineVars, agentOnlyVars
<1>9. ASSUME NEW n \in EventNo, EngineStep(n)
      PROVE  MainInv'
  <2>1. stage[n] # "none" => published # <<>>
    BY <1>0 DEF TypeInv, HeardArePublished, Heard, PublishedNos
  <2>2. UNCHANGED <<listeners, db>> /\ stage[n] # "none"
    BY <1>9 DEF EngineStep, ProcessEvent, Assess, Record, Alert
  <2> QED
    BY <1>5, <1>9, <2>1, <2>2 DEF EngineStep, agentOnlyVars
<1>10. CASE UNCHANGED agentVars
  BY <1>10 DEF agentVars, agentOnlyVars, pipelineVars
<1> QED
  BY <1>1, <1>2, <1>3, <1>4, <1>6, <1>7, <1>8, <1>9, <1>10 DEF AgentNext

LEMMA ReachStep ==
  TypeInv /\ OwnTypeOK /\ MainInv /\ EveryEventReachesEveryListener /\ [AgentNext]_agentVars
    => EveryEventReachesEveryListener'
<1> SUFFICES ASSUME TypeInv, OwnTypeOK, MainInv, EveryEventReachesEveryListener,
                    [AgentNext]_agentVars
             PROVE  EveryEventReachesEveryListener'
  OBVIOUS
<1>0. stage \in [EventNo -> Stages]
  BY DEF TypeInv, PipelineTypeOK
<1>1. ASSUME UNCHANGED <<published, toHub>>, \A n \in EventNo : stage[n] # "none" => stage'[n] # "none"
      PROVE  EveryEventReachesEveryListener'
  <2>1. PublishedNos' = PublishedNos /\ \A n \in PublishedNos : n \in EventNo
    BY <1>1, PipelineAssumption DEF TypeInv, PipelineTypeOK, PublishedNos, EventNo
  <2> QED
    BY <1>1, <2>1 DEF EveryEventReachesEveryListener
<1>2. ASSUME NEW event \in Observations, Observe(event), main \in Started
      PROVE  EveryEventReachesEveryListener'
  <2>1. event \in Events /\ Publish(event, stage)
    BY <1>2, PipelineAssumption DEF Observe
  <2> QED
    BY <1>0, <1>2, <2>1, PublishInAgent
<1>3. ASSUME NEW n \in EventNo, Alert(n)
      PROVE  EveryEventReachesEveryListener'
  <2>1. main \in Started
    BY <1>3, AlertArguments DEF Alert, MainInv, PublishedNos, TypeInv, PipelineTypeOK
  <2>2. \A m \in EventNo : stage[m] # "none" => [stage EXCEPT ![n] = "done"][m] # "none"
    BY <1>0
  <2> QED
    BY <1>3, <2>1, <2>2, AlertArguments, PublishInAgent DEF Alert
<1>4. CASE UNCHANGED pipelineVars
  BY <1>1, <1>4 DEF pipelineVars
<1>5. CASE NewAgent
  BY <1>1, <1>4, <1>5 DEF NewAgent, OpenDatabase, OpenDatabaseFails, NewQuarantineManager,
     NewQuarantineManagerFails, NewEngine, NewFileMonitor, NewFileMonitorFails, NewServer,
     OpenDB, CloseDB, Subscribe
<1>6. CASE Start \/ Signal
  BY <1>4, <1>6 DEF Start, StartFileMonitor, StartProcessMonitor, StartServer, StartServerFails,
     Signal
<1>7. CASE Stop
  BY <1>1, <1>4, <1>7 DEF Stop, ShutdownReturns, ProcessMonitorStopped, FileMonitorStopped,
     CloseDatabase, CloseDB
<1>8. CASE FsLoop
  BY <1>2, <1>4, <1>8 DEF FsLoop, FsTakesEvent, FsPublishes, FsIgnores, FsExits, MainInv
<1>9. CASE ProcLoop
  BY <1>2, <1>4, <1>9 DEF ProcLoop, ProcTicks, ProcPublishes, ProcPollEnds, ProcExits, MainInv
<1>10. CASE Handler
  BY <1>2, <1>4, <1>10 DEF Handler, HandlerStarts, Stopping, HandlerPublishes, HandlerEnds, MainInv
<1>11. ASSUME NEW n \in EventNo, EngineStep(n)
       PROVE  EveryEventReachesEveryListener'
  <2>1. CASE Assess(n) \/ Record(n)
    BY <1>0, <1>1, <2>1 DEF Assess, Record
  <2> QED
    BY <1>3, <1>11, <2>1 DEF EngineStep, ProcessEvent
<1>12. CASE UNCHANGED agentVars
  BY <1>4, <1>12 DEF agentVars
<1> QED
  BY <1>5, <1>6, <1>7, <1>8, <1>9, <1>10, <1>11, <1>12 DEF AgentNext

LEMMA AgentInvInit == AgentInit => AgentInv
<1> SUFFICES ASSUME AgentInit
             PROVE  AgentInv
  OBVIOUS
<1>1. OwnTypeOK
  <2>1. handlers \in 0..MaxHandlers
    BY AgentAssumption DEF AgentInit
  <2>2. main \in MainPlaces /\ fsLoop \in LoopPlaces /\ procLoop \in LoopPlaces
    BY DEF AgentInit, MainPlaces, LoopPlaces
  <2>3. cancelled \subseteq {"fs", "proc"} /\ listening \in BOOLEAN
    BY Zenon DEF AgentInit
  <2> QED
    BY <2>1, <2>2, <2>3 DEF OwnTypeOK
<1>2. MainInv
  BY DEF AgentInit, PipelineInit, MainInv, Constructing
<1>3. PublishedNos = {}
  BY DEF AgentInit, PipelineInit, PublishedNos
<1> QED
  BY <1>1, <1>2, <1>3 DEF AgentInv, EveryEventReachesEveryListener

LEMMA AgentInvAlways == AgentSpec => [](PipelineInv /\ AgentInv)
<1>1. AgentSpec => []PipelineInv
  BY AgentImplementsPipeline, PipelineInvAlways, PTL
<1>2. PipelineInv /\ AgentInv /\ [AgentNext]_agentVars => AgentInv'
  BY OwnTypeStep, MainStep, ReachStep DEF AgentInv, PipelineInv
<1> QED
  BY <1>1, <1>2, AgentInvInit, PTL DEF AgentSpec

\* The variables of the agent have their types.
THEOREM AgentTypeCorrect == AgentSpec => []AgentTypeOK
<1>1. PipelineInv /\ AgentInv => AgentTypeOK
  BY DEF PipelineInv, TypeInv, AgentInv, OwnTypeOK, AgentTypeOK
<1> QED
  BY <1>1, AgentInvAlways, PTL

\* Construction, start and stop are ordered so that no event misses a listener:
\* EveryEventReachesEveryListener.
THEOREM NoEventMissesAListener == AgentSpec => []EveryEventReachesEveryListener
<1>1. AgentInv => EveryEventReachesEveryListener
  BY DEF AgentInv
<1> QED
  BY <1>1, AgentInvAlways, PTL

\* The monitors have ended before the database is closed, also on the way out
\* of a failed construction: MonitorsEndBeforeDatabase.
THEOREM MonitorsEndFirst == AgentSpec => []MonitorsEndBeforeDatabase
<1>1. AgentInv => MonitorsEndBeforeDatabase
  BY DEF AgentInv, OwnTypeOK, MainInv, MonitorsEndBeforeDatabase, Started, Constructing
<1> QED
  BY <1>1, AgentInvAlways, PTL

\* A working database loses nothing before Stop has come to its end:
\* NothingLostBeforeStopEnds.
THEOREM NothingLostWhileRunning == AgentSpec => []NothingLostBeforeStopEnds
<1>1. PipelineInv /\ AgentInv => NothingLostBeforeStopEnds
  <2> SUFFICES ASSUME PipelineInv, AgentInv, lost # {}, ~InsertMayFail
               PROVE  main = "terminated"
    BY DEF NothingLostBeforeStopEnds
  <2>1. db = "closed" /\ Recorded # {}
    BY DEF PipelineInv, EveryHeardEventAccounted
  <2>2. published # <<>>
    BY <2>1 DEF PipelineInv, TypeInv, HeardArePublished, Heard, Recorded, PublishedNos
  <2> QED
    BY <2>1, <2>2 DEF AgentInv, OwnTypeOK, MainInv, Started, Constructing
<1> QED
  BY <1>1, AgentInvAlways, PTL

-----------------------------------------------------------------------------
\* What EventPipelineProofs proves of the pipeline alone holds in the agent,
\* which starts, feeds and stops it.
THEOREM AgentKeepsThePipeline ==
  AgentSpec => /\ [](/\ EveryHeardEventAccounted
                     /\ AlertsAreBacked
                     /\ QuietMeansAlerted
                     /\ EchoesDropTheChange)
               /\ PipelineImplementsLedger
<1> QED
  BY AgentImplementsPipeline, EveryEventAccounted, EveryAlertIsBacked, QuietPipelineAgrees,
     EchoesAreNoChanges, PipelineRefinesLedger, PTL

-----------------------------------------------------------------------------
\* The two loops are what the monitors' modules prove of their own: MonitorLoop.
FsLoopOfAgent == INSTANCE MonitorLoop WITH loop <- fsLoop, cancelled <- ("fs" \in cancelled)
ProcLoopOfAgent == INSTANCE MonitorLoop WITH loop <- procLoop, cancelled <- ("proc" \in cancelled)

\* No loop is started twice; Stop waits for those that were started, which it
\* has cancelled.
LoopInv ==
  /\ main = "fsStarted" => procLoop = "none"
  /\ main \in Started => fsLoop # "none"
  /\ main \in Started \ {"fsStarted"} /\ ProcessMonitorEnabled => procLoop # "none"
  /\ main = "waitProc" => ProcessMonitorEnabled /\ "proc" \in cancelled
  /\ main = "waitFs" => "fs" \in cancelled

LEMMA LoopInvStep == OwnTypeOK /\ MainInv /\ LoopInv /\ [AgentNext]_agentVars => LoopInv'
<1> SUFFICES ASSUME OwnTypeOK, MainInv, LoopInv, [AgentNext]_agentVars
             PROVE  LoopInv'
  OBVIOUS
<1> USE DEF LoopInv, MainGoes, Started, Constructing, MainPlaces
<1>1. CASE NewAgent
  BY <1>1 DEF NewAgent, OpenDatabase, OpenDatabaseFails, NewQuarantineManager,
     NewQuarantineManagerFails, NewEngine, NewFileMonitor, NewFileMonitorFails, NewServer
<1>2. CASE Start \/ Signal
  BY <1>2 DEF Start, StartFileMonitor, StartProcessMonitor, StartServer, StartServerFails, Signal,
     MainInv
<1>3. CASE Stop
  BY <1>3 DEF Stop, ShutdownReturns, ProcessMonitorStopped, FileMonitorStopped, CloseDatabase
<1>4. CASE FsLoop
  BY <1>4 DEF FsLoop, FsTakesEvent, FsPublishes, FsIgnores, FsExits
<1>5. CASE ProcLoop
  BY <1>5 DEF ProcLoop, ProcTicks, ProcPublishes, ProcPollEnds, ProcExits, agentOnlyVars
<1>6. CASE Handler
  BY <1>6 DEF Handler, HandlerStarts, Stopping, HandlerPublishes, HandlerEnds, agentOnlyVars
<1>7. ASSUME NEW n \in EventNo, EngineStep(n)
      PROVE  LoopInv'
  BY <1>7 DEF EngineStep, agentOnlyVars
<1>8. CASE UNCHANGED agentVars
  BY <1>8 DEF agentVars, agentOnlyVars
<1> QED
  BY <1>1, <1>2, <1>3, <1>4, <1>5, <1>6, <1>7, <1>8 DEF AgentNext

LEMMA LoopsStep ==
  MainInv /\ LoopInv /\ [AgentNext]_agentVars
    => /\ [FsLoopOfAgent!LoopNext]_(FsLoopOfAgent!loopVars)
       /\ [ProcLoopOfAgent!LoopNext]_(ProcLoopOfAgent!loopVars)
<1> SUFFICES ASSUME MainInv, LoopInv, [AgentNext]_agentVars
             PROVE  /\ FsLoopOfAgent!LoopNext \/ UNCHANGED FsLoopOfAgent!loopVars
                    /\ ProcLoopOfAgent!LoopNext \/ UNCHANGED ProcLoopOfAgent!loopVars
  OBVIOUS
<1> DEFINE fsStays == UNCHANGED <<fsLoop, cancelled>>
           procStays == UNCHANGED <<procLoop, cancelled>>
<1>1. fsStays => UNCHANGED FsLoopOfAgent!loopVars
  BY DEF FsLoopOfAgent!loopVars
<1>2. procStays => UNCHANGED ProcLoopOfAgent!loopVars
  BY DEF ProcLoopOfAgent!loopVars
<1>3. CASE NewAgent
  BY <1>1, <1>2, <1>3 DEF NewAgent, OpenDatabase, OpenDatabaseFails, NewQuarantineManager,
     NewQuarantineManagerFails, NewEngine, NewFileMonitor, NewFileMonitorFails, NewServer
<1>4. CASE StartFileMonitor
  <2>1. fsLoop = "none" /\ fsLoop' = "idle" /\ UNCHANGED cancelled /\ procStays
    BY <1>4 DEF StartFileMonitor, MainGoes, MainInv, Started
  <2> QED
    BY <1>2, <2>1 DEF FsLoopOfAgent!LoopNext, FsLoopOfAgent!LoopGoes
<1>5. CASE StartProcessMonitor
  <2>1. procLoop = "none" /\ procLoop' \in {"none", "idle"} /\ UNCHANGED cancelled /\ fsStays
    BY <1>5 DEF StartProcessMonitor, MainGoes, LoopInv
  <2> QED
    BY <1>1, <1>2, <2>1 DEF ProcLoopOfAgent!LoopNext, ProcLoopOfAgent!LoopGoes
<1>6. CASE StartServer \/ StartServerFails \/ Signal
  BY <1>1, <1>2, <1>6 DEF StartServer, StartServerFails, Signal
<1>7. CASE ShutdownReturns \/ ProcessMonitorStopped
  <2>1. /\ UNCHANGED <<fsLoop, procLoop>>
        /\ cancelled' = cancelled \cup {"fs"} \/ cancelled' = cancelled \cup {"proc"}
    BY <1>7 DEF ShutdownReturns, ProcessMonitorStopped
  <2>2. /\ ("fs" \in cancelled)' = TRUE \/ ("fs" \in cancelled)' = ("fs" \in cancelled)
        /\ ("proc" \in cancelled)' = TRUE \/ ("proc" \in cancelled)' = ("proc" \in cancelled)
    BY <2>1
  <2> QED
    BY <2>1, <2>2 DEF FsLoopOfAgent!LoopNext, FsLoopOfAgent!Cancel, FsLoopOfAgent!loopVars,
       ProcLoopOfAgent!LoopNext, ProcLoopOfAgent!Cancel, ProcLoopOfAgent!loopVars
<1>8. CASE FileMonitorStopped \/ CloseDatabase
  BY <1>1, <1>2, <1>8 DEF FileMonitorStopped, CloseDatabase
<1>9. CASE FsLoop
  <2>1. procStays /\ UNCHANGED cancelled
    BY <1>9 DEF FsLoop, FsTakesEvent, FsPublishes, FsIgnores, FsExits
  <2>2. \/ fsLoop = "idle" /\ fsLoop' = "busy"
        \/ fsLoop = "busy" /\ fsLoop' = "idle"
        \/ fsLoop = "idle" /\ fsLoop' = "exited" /\ "fs" \in cancelled
    BY <1>9 DEF FsLoop, FsTakesEvent, FsPublishes, FsIgnores, FsExits
  <2> QED
    BY <1>2, <2>1, <2>2 DEF FsLoopOfAgent!LoopNext, FsLoopOfAgent!LoopGoes
<1>10. CASE ProcLoop
  <2>1. fsStays /\ UNCHANGED cancelled
    BY <1>10 DEF ProcLoop, ProcTicks, ProcPublishes, ProcPollEnds, ProcExits, agentOnlyVars
  <2>2. \/ procLoop = "idle" /\ procLoop' = "busy"
        \/ procLoop' = procLoop
        \/ procLoop = "busy" /\ procLoop' = "idle"
        \/ procLoop = "idle" /\ procLoop' = "exited" /\ "proc" \in cancelled
    BY <1>10 DEF ProcLoop, ProcTicks, ProcPublishes, ProcPollEnds, ProcExits, agentOnlyVars
  <2> QED
    BY <1>1, <1>2, <2>1, <2>2 DEF ProcLoopOfAgent!LoopNext, ProcLoopOfAgent!LoopGoes
<1>11. CASE Handler
  BY <1>1, <1>2, <1>11 DEF Handler, HandlerStarts, Stopping, HandlerPublishes, HandlerEnds, agentOnlyVars
<1>12. ASSUME NEW n \in EventNo, EngineStep(n)
       PROVE  fsStays /\ procStays
  BY <1>12 DEF EngineStep, agentOnlyVars
<1>13. CASE UNCHANGED agentVars
  BY <1>1, <1>2, <1>13 DEF agentVars, agentOnlyVars
<1> QED
  BY <1>1, <1>2, <1>3, <1>4, <1>5, <1>6, <1>7, <1>8, <1>9, <1>10, <1>11, <1>12, <1>13
     DEF AgentNext, Start, Stop

\* The agent runs each of its monitors as the loop that FsMonitor and
\* ProcessMonitor are proved to be: it starts it once, and it does not end
\* before it has been cancelled.
THEOREM AgentRunsTheLoops == AgentSpec => FsLoopOfAgent!LoopSpec /\ ProcLoopOfAgent!LoopSpec
<1>1. AgentInit => /\ LoopInv
                   /\ FsLoopOfAgent!LoopInit /\ ProcLoopOfAgent!LoopInit
  <2> SUFFICES ASSUME AgentInit
               PROVE  /\ LoopInv
                      /\ FsLoopOfAgent!LoopInit /\ ProcLoopOfAgent!LoopInit
    OBVIOUS
  <2>1. main = "new" /\ fsLoop = "none" /\ procLoop = "none"
    BY DEF AgentInit
  <2>2. "fs" \notin cancelled /\ "proc" \notin cancelled
    BY Zenon DEF AgentInit
  <2>3. ("fs" \in cancelled) = FALSE /\ ("proc" \in cancelled) = FALSE
    BY <2>2
  <2> QED
    BY <2>1, <2>3 DEF LoopInv, Started, Constructing, FsLoopOfAgent!LoopInit, ProcLoopOfAgent!LoopInit
<1>2. AgentInv => OwnTypeOK /\ MainInv
  BY DEF AgentInv
<1> QED
  BY <1>1, <1>2, AgentInvAlways, LoopInvStep, LoopsStep, PTL
     DEF AgentSpec, FsLoopOfAgent!LoopSpec, ProcLoopOfAgent!LoopSpec

\* Stop never waits for a loop that was not started, or whose context is not
\* cancelled: what it waits for can end, as soon as the loop is back in select.
THEOREM StopWaitsForWhatCanEnd ==
  AgentSpec => [](/\ main = "waitProc" => procLoop # "none" /\ "proc" \in cancelled
                  /\ main = "waitFs" => fsLoop # "none" /\ "fs" \in cancelled)
<1>1. AgentInit => LoopInv
  BY DEF AgentInit, LoopInv, Started, Constructing
<1>2. AgentInv => OwnTypeOK /\ MainInv
  BY DEF AgentInv
<1>3. LoopInv => /\ main = "waitProc" => procLoop # "none" /\ "proc" \in cancelled
                 /\ main = "waitFs" => fsLoop # "none" /\ "fs" \in cancelled
  BY DEF LoopInv, Started, Constructing, MainPlaces
<1> QED
  BY <1>1, <1>2, <1>3, AgentInvAlways, LoopInvStep, PTL DEF AgentSpec

=============================================================================
