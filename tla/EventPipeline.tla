---------------------------- MODULE EventPipeline ----------------------------
(***************************************************************************)
(* The way of an event through the agent: events.Manager hands it to every *)
(* listener in a goroutine of its own, the detection engine's listener     *)
(* (ProcessEvent) judges it, records it and publishes an alert, and the    *)
(* alert goes through the same Manager.  The goroutines of one event and   *)
(* those of different events interleave freely: nothing orders them.       *)
(*                                                                         *)
(* Events are numbered in the order of their Publish calls; the number     *)
(* stands for the identifier, which is drawn at random by the code.        *)
(***************************************************************************)
EXTENDS Detection, Sequences

CONSTANTS Observations,      \* what the monitors and the baseline check publish
          MaxEvents,         \* bound on the events of one run
          DetectionEnabled,  \* cfg.Detection.Enabled
          InsertMayFail      \* whether InsertEvent may fail on an open database

ListenerNames == {"detection", "hub"}

EventNo == 1..MaxEvents

Events ==
  [ type : EventTypes, path : Paths, user : {"root", "other"},
    severity : Severities, score : 0..100, parent : {0} \cup EventNo ]

ASSUME PipelineAssumption ==
  /\ MaxEvents \in Nat
  /\ DetectionEnabled \in BOOLEAN
  /\ InsertMayFail \in BOOLEAN
  /\ Observations \subseteq { e \in Events : e.parent = 0 /\ e.type # "THREAT_DETECTED" }

VARIABLES
  listeners,   \* who has subscribed to the Manager
  published,   \* the events, in the order of Publish; parent is ghost: the
               \* event an alert is about, 0 for an observation
  stage,       \* how far ProcessEvent is with event n
  findings,    \* the findings ProcessEvent has for event n
  toHub,       \* events the hub's listener was started for; Hub goes on
  db,          \* the connection: unopened, open or closed
  rows,        \* the events table, keyed by no
  lost         \* events whose insertion failed

pipelineVars == <<listeners, published, stage, findings, toHub, db, rows, lost>>

Stages == {"none", "spawned", "assessed", "recorded", "done"}

PipelineTypeOK ==
  /\ listeners \subseteq ListenerNames
  /\ published \in Seq(Events)
  /\ Len(published) <= MaxEvents
  /\ stage \in [EventNo -> Stages]
  /\ findings \in [EventNo -> SUBSET RuleNames]
  /\ toHub \subseteq EventNo
  /\ db \in {"unopened", "open", "closed"}
  /\ rows \subseteq [no : EventNo, type : EventTypes, severity : Severities, score : 0..100]
  /\ lost \subseteq EventNo

PipelineInit ==
  /\ listeners = {}
  /\ published = <<>>
  /\ stage = [n \in EventNo |-> "none"]
  /\ findings = [n \in EventNo |-> {}]
  /\ toHub = {}
  /\ db = "unopened"
  /\ rows = {}
  /\ lost = {}

-----------------------------------------------------------------------------
OpenDB ==
  /\ db = "unopened"
  /\ db' = "open"
  /\ UNCHANGED <<listeners, published, stage, findings, toHub, rows, lost>>

CloseDB ==
  /\ db = "open"
  /\ db' = "closed"
  /\ UNCHANGED <<listeners, published, stage, findings, toHub, rows, lost>>

\* Manager.Subscribe, by NewEngine (which has the database) and by NewHub.
Subscribe(name) ==
  /\ name \notin listeners
  /\ name = "detection" => DetectionEnabled /\ db = "open"
  /\ listeners' = listeners \cup {name}
  /\ UNCHANGED <<published, stage, findings, toHub, db, rows, lost>>

\* Manager.Publish by a goroutine that leaves the stages of the others as in
\* "stages": one new goroutine for each listener there is now.
Publish(event, stages) ==
  LET n == Len(published) + 1
  IN  /\ n \in EventNo
      /\ published' = Append(published, event)
      /\ stage' = IF "detection" \in listeners THEN [stages EXCEPT ![n] = "spawned"] ELSE stages
      /\ toHub' = IF "hub" \in listeners THEN toHub \cup {n} ELSE toHub

Observe(event) ==
  /\ event \in Observations
  /\ Publish(event, stage)
  /\ UNCHANGED <<listeners, findings, db, rows, lost>>

\* ProcessEvent, up to the update of the event's fields.
Assess(n) ==
  /\ stage[n] = "spawned"
  /\ \E saw \in [StatRules -> LstatAnswers] :
        findings' = [findings EXCEPT ![n] = Findings(published[n], saw)]
  /\ stage' = [stage EXCEPT ![n] = "assessed"]
  /\ UNCHANGED <<listeners, published, toHub, db, rows, lost>>

\* The row ProcessEvent stores for event n.
Row(n) ==
  [ no |-> n,
    type |-> IF IsThreat(findings[n]) THEN "THREAT_DETECTED" ELSE published[n].type,
    severity |-> CalculateSeverity(Score(findings[n])),
    score |-> Score(findings[n]) ]

\* Faults for the mutation runs: only threats are stored; the insertion waits
\* for an open database.
RecordThreatsOnly(n) ==
  /\ stage[n] = "assessed"
  /\ \/ db = "open" /\ rows' = rows \cup (IF IsThreat(findings[n]) THEN {Row(n)} ELSE {})
        /\ UNCHANGED lost
     \/ (db = "closed" \/ InsertMayFail) /\ lost' = lost \cup {n} /\ UNCHANGED rows
  /\ stage' = [stage EXCEPT ![n] = IF IsThreat(findings[n]) THEN "recorded" ELSE "done"]
  /\ UNCHANGED <<listeners, published, findings, toHub, db>>
RecordWaits(n) ==
  /\ stage[n] = "assessed"
  /\ db = "open"
  /\ rows' = rows \cup {Row(n)}
  /\ stage' = [stage EXCEPT ![n] = IF IsThreat(findings[n]) THEN "recorded" ELSE "done"]
  /\ UNCHANGED <<listeners, published, findings, toHub, db, lost>>

\* InsertEvent.  Its error is dropped: the alert goes out all the same.
Record(n) ==
  /\ stage[n] = "assessed"
  /\ \/ db = "open" /\ rows' = rows \cup {Row(n)} /\ UNCHANGED lost
     \/ (db = "closed" \/ InsertMayFail) /\ lost' = lost \cup {n} /\ UNCHANGED rows
  /\ stage' = [stage EXCEPT ![n] = IF IsThreat(findings[n]) THEN "recorded" ELSE "done"]
  /\ UNCHANGED <<listeners, published, findings, toHub, db>>

\* Fault for the mutation runs: the alert goes out before the insertion.
AlertUnrecorded(n) ==
  /\ stage[n] = "assessed"
  /\ IsThreat(findings[n])
  /\ Publish(ThreatEvent(published[n], findings[n], n),
             [stage EXCEPT ![n] = "done"])
  /\ UNCHANGED <<listeners, findings, db, rows, lost>>

\* Fault for the mutation runs: no alert when the insertion failed.
AlertIfStored(n) ==
  /\ stage[n] = "recorded"
  /\ \E r \in rows : r.no = n
  /\ Publish(ThreatEvent(published[n], findings[n], n),
             [stage EXCEPT ![n] = "done"])
  /\ UNCHANGED <<listeners, findings, db, rows, lost>>

\* The end of ProcessEvent when the score is at least 30.
Alert(n) ==
  /\ stage[n] = "recorded"
  /\ Publish(ThreatEvent(published[n], findings[n], n),
             [stage EXCEPT ![n] = "done"])
  /\ UNCHANGED <<listeners, findings, db, rows, lost>>

\* DB.GetThreats, what /api/threats answers with.
GetThreats == { r \in rows : r.score > 0 }

ProcessEvent(n) == Assess(n) \/ Record(n) \/ Alert(n)

PipelineNext ==
  \/ OpenDB
  \/ CloseDB
  \/ \E name \in ListenerNames : Subscribe(name)
  \/ \E event \in Observations : Observe(event)
  \/ \E n \in EventNo : Assess(n)
  \/ \E n \in EventNo : Record(n)
  \/ \E n \in EventNo : Alert(n)

PipelineSpec == PipelineInit /\ [][PipelineNext]_pipelineVars

\* The scheduler runs every goroutine; Lstat and the insertion return.
PipelineFairness == \A n \in EventNo : WF_pipelineVars(ProcessEvent(n))

PipelineFairSpec == PipelineSpec /\ PipelineFairness

-----------------------------------------------------------------------------
PublishedNos == 1..Len(published)

\* Events ProcessEvent was started for, and those it has finished recording.
Heard     == { n \in EventNo : stage[n] # "none" }
Recorded  == { n \in EventNo : stage[n] \in {"recorded", "done"} }
StoredNos == { r.no : r \in rows }
Alerts    == { n \in PublishedNos : published[n].parent # 0 }

\* No event the engine hears goes missing: it is still being judged, or it has
\* exactly one row, the row of its own findings, or its insertion failed; and
\* an insertion fails only on a closed database or by a fault of the database.
EveryHeardEventAccounted ==
  /\ StoredNos \cup lost = Recorded
  /\ StoredNos \cap lost = {}
  /\ \A r \in rows : r = Row(r.no)
  /\ lost # {} => db = "closed" \/ InsertMayFail

\* An alert is never ahead of the database, and two alerts never report the
\* same event: it was published after the event it reports, whose insertion as
\* a threat with the same path and score had succeeded or failed by then.
AlertsAreBacked ==
  /\ \A n \in Alerts :
       LET parent == published[n].parent
       IN  /\ parent < n
           /\ parent \in StoredNos \cup lost
           /\ IsThreat(findings[parent])
           /\ published[n].path = published[parent].path
           /\ Row(parent).type = published[n].type
           /\ Row(parent).severity = published[n].severity
           /\ Row(parent).score = published[n].score
  /\ \A m, n \in Alerts : published[m].parent = published[n].parent => m = n

\* When no ProcessEvent is running, the threats GetThreats would list (and the
\* ones whose insertion failed) are exactly the events alerts were sent for.
QuietMeansAlerted ==
  (\A n \in EventNo : stage[n] \in {"none", "done"}) =>
    { r.no : r \in GetThreats } \cup { n \in lost : IsThreat(findings[n]) }
      = { published[n].parent : n \in Alerts }

\* The engine hears its own alerts.  A change of a sensitive file is a finding
\* only for the event that reports the change: of a chain of alerts about one
\* observation it is a finding of the first event and of no other.
EchoesDropTheChange ==
  \A n \in Alerts : "SensitiveFileModification" \notin findings[n]

\* Nothing but Close stops the recording: every event the engine hears gets its
\* row, or is counted as lost because of a fault or the closed database.
EveryHeardEventEndsRecorded ==
  \A n \in EventNo : (stage[n] = "spawned") ~> (n \in StoredNos \/ n \in lost)

\* Every threat is reported: its alert is published, unless the run is at
\* its bound of MaxEvents.
EveryThreatIsReported ==
  \A n \in EventNo :
    (stage[n] = "recorded") ~>
      (\/ \E m \in Alerts : published[m].parent = n
       \/ Len(published) = MaxEvents)

\* The pipeline implements the ledger.
LedgerOfPipeline ==
  INSTANCE Ledger WITH heard <- Heard,
                       threats <- { n \in Recorded : IsThreat(findings[n]) },
                       reported <- { published[n].parent : n \in Alerts },
                       Rows <- [ no : EventNo, type : EventTypes, severity : Severities,
                                 score : 0..100 ]
PipelineImplementsLedger == LedgerOfPipeline!LedgerSpec

=============================================================================
