------------------------- MODULE EventPipelineProofs -------------------------
(***************************************************************************)
(* The safety properties of EventPipeline for every set of paths and       *)
(* observations, every bound and both settings of the detection switch.    *)
(***************************************************************************)
EXTENDS EventPipeline, DetectionProofs

LEMMA RowType ==
  ASSUME PipelineTypeOK, NEW n \in 1..Len(published), n \in EventNo
  PROVE  Row(n) \in [no : EventNo, type : EventTypes, severity : Severities, score : 0..100]
<1>1. Score(findings[n]) \in 0..100
  BY ScoreRange
<1>2. CalculateSeverity(Score(findings[n])) \in Severities
  BY LowIsNeverUsed
<1>3. published[n] \in Events
  BY DEF PipelineTypeOK
<1>4. published[n].type \in EventTypes /\ "THREAT_DETECTED" \in EventTypes
  BY <1>3 DEF Events, EventTypes
<1> QED
  BY <1>1, <1>2, <1>4 DEF Row

LEMMA ThreatEventType ==
  ASSUME NEW e \in Events, NEW F, NEW n \in EventNo
  PROVE  ThreatEvent(e, F, n) \in Events
<1>1. Score(F) \in 0..100 /\ CalculateSeverity(Score(F)) \in Severities
  BY ScoreRange, LowIsNeverUsed
<1>2. e.path \in Paths /\ e.user \in {"root", "other"}
  BY DEF Events
<1> QED
  BY <1>1, <1>2 DEF ThreatEvent, Events, EventTypes

\* ProcessEvent runs only for events that were published.
HeardArePublished == Heard \subseteq PublishedNos

TypeInv == PipelineTypeOK /\ HeardArePublished

\* What one Publish does: one more event, and one more ProcessEvent at most.
LEMMA PublishEffect ==
  ASSUME PipelineTypeOK, NEW e \in Events, NEW stages \in [EventNo -> Stages], Publish(e, stages)
  PROVE  /\ published' \in Seq(Events)
         /\ Len(published') = Len(published) + 1
         /\ Len(published') \in EventNo
         /\ Len(published') <= MaxEvents
         /\ \A m \in PublishedNos : published'[m] = published[m]
         /\ published'[Len(published')] = e
         /\ PublishedNos' = PublishedNos \cup {Len(published')}
         /\ stage' \in [EventNo -> Stages]
         /\ \A m \in EventNo : m # Len(published') => stage'[m] = stages[m]
         /\ stage'[Len(published')] \in {"spawned", stages[Len(published')]}
         /\ toHub' \subseteq EventNo
<1>1. Len(published) + 1 \in EventNo /\ Len(published) \in Nat
  BY DEF Publish, PipelineTypeOK
<1>2. Len(published) + 1 <= MaxEvents
  BY <1>1, PipelineAssumption DEF EventNo
<1>3. /\ published' = Append(published, e)
      /\ published' \in Seq(Events)
      /\ Len(published') = Len(published) + 1
      /\ \A m \in PublishedNos : published'[m] = published[m]
      /\ published'[Len(published')] = e
  BY DEF Publish, PipelineTypeOK, PublishedNos
<1>4. PublishedNos' = PublishedNos \cup {Len(published')}
  BY <1>1, <1>3 DEF PublishedNos
<1>5. /\ stage' \in [EventNo -> Stages]
      /\ \A m \in EventNo : m # Len(published') => stage'[m] = stages[m]
      /\ stage'[Len(published')] \in {"spawned", stages[Len(published')]}
  BY <1>1, <1>3 DEF Publish, Stages
<1> QED
  BY <1>1, <1>2, <1>3, <1>4, <1>5 DEF Publish, PipelineTypeOK

\* The arguments of Alert's Publish.
LEMMA AlertArguments ==
  ASSUME TypeInv, NEW n \in EventNo, stage[n] = "recorded"
  PROVE  /\ n \in PublishedNos
         /\ ThreatEvent(published[n], findings[n], n) \in Events
         /\ [stage EXCEPT ![n] = "done"] \in [EventNo -> Stages]
<1>1. n \in PublishedNos
  BY DEF TypeInv, HeardArePublished, Heard
<1>2. published[n] \in Events
  BY <1>1 DEF TypeInv, PipelineTypeOK, PublishedNos
<1> QED
  BY <1>1, <1>2, ThreatEventType DEF TypeInv, PipelineTypeOK, Stages

LEMMA TypeInvStep == TypeInv /\ [PipelineNext]_pipelineVars => TypeInv'
<1> SUFFICES ASSUME TypeInv, [PipelineNext]_pipelineVars
             PROVE  TypeInv'
  OBVIOUS
<1> USE DEF TypeInv
<1>0. stage \in [EventNo -> Stages]
  BY DEF PipelineTypeOK
<1>1. CASE OpenDB
  BY <1>1 DEF OpenDB, PipelineTypeOK, HeardArePublished, Heard, PublishedNos
<1>2. CASE CloseDB
  BY <1>2 DEF CloseDB, PipelineTypeOK, HeardArePublished, Heard, PublishedNos
<1>3. ASSUME NEW name \in ListenerNames, Subscribe(name)
      PROVE  TypeInv'
  BY <1>3 DEF Subscribe, PipelineTypeOK, HeardArePublished, Heard, PublishedNos
<1>4. ASSUME NEW event \in Observations, Observe(event)
      PROVE  TypeInv'
  <2>1. event \in Events /\ Publish(event, stage)
    BY <1>4, PipelineAssumption DEF Observe
  <2>2. PipelineTypeOK'
    BY <1>0, <1>4, <2>1, PublishEffect DEF Observe, PipelineTypeOK
  <2>3. HeardArePublished'
    BY <1>0, <2>1, PublishEffect DEF HeardArePublished, Heard
  <2> QED
    BY <2>2, <2>3
<1>5. ASSUME NEW n \in EventNo, Assess(n)
      PROVE  TypeInv'
  <2>1. findings' \in [EventNo -> SUBSET RuleNames]
    BY <1>5, FindingsAreRules DEF Assess, PipelineTypeOK
  <2>2. stage' \in [EventNo -> Stages]
    BY <1>5 DEF Assess, PipelineTypeOK, Stages
  <2>3. HeardArePublished'
    BY <1>0, <1>5 DEF Assess, HeardArePublished, Heard, PublishedNos
  <2> QED
    BY <1>5, <2>1, <2>2, <2>3 DEF Assess, PipelineTypeOK
<1>6. ASSUME NEW n \in EventNo, Record(n)
      PROVE  TypeInv'
  <2>1. n \in 1..Len(published)
    BY <1>6 DEF Record, HeardArePublished, Heard, PublishedNos
  <2>2. stage' \in [EventNo -> Stages]
    BY <1>6 DEF Record, PipelineTypeOK, Stages
  <2>3. rows' \subseteq [no : EventNo, type : EventTypes, severity : Severities, score : 0..100]
    BY <1>6, <2>1, RowType DEF Record, PipelineTypeOK
  <2>4. lost' \subseteq EventNo
    BY <1>6 DEF Record, PipelineTypeOK
  <2>5. HeardArePublished'
    BY <1>0, <1>6 DEF Record, HeardArePublished, Heard, PublishedNos
  <2> QED
    BY <1>6, <2>2, <2>3, <2>4, <2>5 DEF Record, PipelineTypeOK
<1>7. ASSUME NEW n \in EventNo, Alert(n)
      PROVE  TypeInv'
  <2> DEFINE alert  == ThreatEvent(published[n], findings[n], n)
             stages == [stage EXCEPT ![n] = "done"]
  <2>1. n \in 1..Len(published)
    BY <1>7 DEF Alert, HeardArePublished, Heard, PublishedNos
  <2>2. alert \in Events
    BY <2>1, ThreatEventType DEF PipelineTypeOK
  <2>3. stages \in [EventNo -> Stages]
    BY <1>0 DEF Stages
  <2>4. Publish(alert, stages)
    BY <1>7 DEF Alert
  <2>5. PipelineTypeOK'
    <3> HIDE DEF alert, stages
    <3> QED
      BY <1>7, <2>2, <2>3, <2>4, PublishEffect DEF Alert, PipelineTypeOK
  <2>6. \A m \in EventNo : stages[m] # "none" => m \in PublishedNos
    BY <1>0, <2>1 DEF HeardArePublished, Heard, PublishedNos
  <2>7. HeardArePublished'
    <3> HIDE DEF alert, stages
    <3> QED
      BY <2>2, <2>3, <2>4, <2>6, PublishEffect DEF HeardArePublished, Heard
  <2> QED
    BY <2>5, <2>7
<1>8. CASE UNCHANGED pipelineVars
  BY <1>8 DEF pipelineVars, PipelineTypeOK, HeardArePublished, Heard, PublishedNos
<1> QED
  BY <1>1, <1>2, <1>3, <1>4, <1>5, <1>6, <1>7, <1>8 DEF PipelineNext

LEMMA TypeInvInit == PipelineInit => TypeInv
  BY PipelineAssumption
  DEF PipelineInit, TypeInv, PipelineTypeOK, HeardArePublished, Heard, PublishedNos, Stages

LEMMA TypeInvAlways == PipelineSpec => []TypeInv
  BY TypeInvInit, TypeInvStep, PTL DEF PipelineSpec

\* The variables have their types, whatever the scheduler does.
THEOREM PipelineTypeCorrect == PipelineSpec => []PipelineTypeOK
<1>1. TypeInv => PipelineTypeOK
  BY DEF TypeInv
<1> QED
  BY <1>1, TypeInvAlways, PTL

-----------------------------------------------------------------------------
\* What ProcessEvent has found follows its stage, and its alerts follow what it
\* has found; with the two properties below this is inductive.
FindingsFollowStage ==
  \A n \in EventNo :
    /\ stage[n] \in {"none", "spawned"} => findings[n] = {}
    /\ stage[n] = "recorded" => IsThreat(findings[n])

LEMMA FindingsFollowStageStep ==
  TypeInv /\ FindingsFollowStage /\ [PipelineNext]_pipelineVars => FindingsFollowStage'
<1> SUFFICES ASSUME TypeInv, FindingsFollowStage, [PipelineNext]_pipelineVars
             PROVE  FindingsFollowStage'
  OBVIOUS
<1>0. stage \in [EventNo -> Stages] /\ findings \in [EventNo -> SUBSET RuleNames]
  BY DEF TypeInv, PipelineTypeOK
<1>1. CASE UNCHANGED <<stage, findings>>
  BY <1>1 DEF FindingsFollowStage, IsThreat
<1>2. ASSUME NEW event \in Observations, Observe(event)
      PROVE  FindingsFollowStage'
  <2>1. event \in Events /\ Publish(event, stage) /\ findings' = findings
    BY <1>2, PipelineAssumption DEF Observe
  <2>2. stage[Len(published')] = "none"
    BY <1>0, <2>1, PublishEffect DEF TypeInv, HeardArePublished, Heard, PublishedNos
  <2> QED
    BY <1>0, <2>1, <2>2, PublishEffect DEF TypeInv, FindingsFollowStage
<1>3. ASSUME NEW n \in EventNo, Assess(n)
      PROVE  FindingsFollowStage'
  BY <1>0, <1>3 DEF Assess, FindingsFollowStage
<1>4. ASSUME NEW n \in EventNo, Record(n)
      PROVE  FindingsFollowStage'
  BY <1>0, <1>4 DEF Record, FindingsFollowStage
<1>5. ASSUME NEW n \in EventNo, Alert(n)
      PROVE  FindingsFollowStage'
  <2> DEFINE alert  == ThreatEvent(published[n], findings[n], n)
             stages == [stage EXCEPT ![n] = "done"]
  <2>1. /\ alert \in Events /\ stages \in [EventNo -> Stages]
        /\ Publish(alert, stages) /\ findings' = findings
    BY <1>0, <1>5, AlertArguments DEF Alert
  <2>2. stage[Len(published')] = "none" /\ n # Len(published')
    <3> HIDE DEF alert, stages
    <3> QED
      BY <1>0, <1>5, <2>1, PublishEffect DEF Alert, TypeInv, HeardArePublished, Heard, PublishedNos
  <2>3. stages[Len(published')] = "none" /\ \A m \in EventNo : stages[m] \in {stage[m], "done"}
    BY <1>0, <1>5, <2>1, <2>2 DEF Alert
  <2> HIDE DEF alert, stages
  <2> QED
    BY <1>0, <2>1, <2>2, <2>3, PublishEffect DEF TypeInv, FindingsFollowStage
<1> QED
  BY <1>1, <1>2, <1>3, <1>4, <1>5
  DEF PipelineNext, pipelineVars, OpenDB, CloseDB, Subscribe

\* A Publish whose caller leaves the set of recorded events alone disturbs
\* neither that set nor the row of any of them.
LEMMA PublishKeepsRows ==
  ASSUME TypeInv, NEW e \in Events, NEW stages \in [EventNo -> Stages], Publish(e, stages),
         findings' = findings,
         \A m \in EventNo : stages[m] # stage[m] => stage[m] = "recorded" /\ stages[m] = "done"
  PROVE  /\ Recorded' = Recorded
         /\ \A m \in Recorded : Row(m)' = Row(m)
         /\ stage[Len(published')] = "none"
         /\ \A m \in EventNo : m # Len(published') => stage'[m] = stages[m]
         /\ stage'[Len(published')] \in {"none", "spawned"}
<1>1. stage[Len(published')] = "none"
  BY PublishEffect DEF TypeInv, HeardArePublished, Heard, PublishedNos, PipelineTypeOK
<1>2. /\ \A m \in EventNo : m # Len(published') => stage'[m] = stages[m]
      /\ stage'[Len(published')] \in {"none", "spawned"}
  BY <1>1, PublishEffect DEF TypeInv
<1>3. Recorded' = Recorded
  BY <1>1, <1>2 DEF Recorded
<1>4. \A m \in Recorded : published'[m] = published[m]
  BY PublishEffect DEF Recorded, TypeInv, HeardArePublished, Heard
<1>5. \A m \in Recorded : Row(m)' = Row(m)
  BY <1>4 DEF Row
<1> QED
  BY <1>1, <1>2, <1>3, <1>5

LEMMA AccountedStep ==
  TypeInv /\ EveryHeardEventAccounted /\ [PipelineNext]_pipelineVars => EveryHeardEventAccounted'
<1> SUFFICES ASSUME TypeInv, EveryHeardEventAccounted, [PipelineNext]_pipelineVars
             PROVE  EveryHeardEventAccounted'
  OBVIOUS
<1>0. /\ stage \in [EventNo -> Stages] /\ findings \in [EventNo -> SUBSET RuleNames]
      /\ db \in {"unopened", "open", "closed"}
  BY DEF TypeInv, PipelineTypeOK
<1>00. \A r \in rows : r.no \in Recorded
  BY DEF EveryHeardEventAccounted, StoredNos
<1>1. ASSUME UNCHANGED <<published, stage, findings, rows, lost>>, db = "closed" => db' = "closed"
      PROVE  EveryHeardEventAccounted'
  BY <1>1 DEF EveryHeardEventAccounted, StoredNos, Recorded, Row
<1>2. ASSUME NEW event \in Observations, Observe(event)
      PROVE  EveryHeardEventAccounted'
  <2>1. /\ event \in Events /\ Publish(event, stage)
        /\ findings' = findings /\ db' = db /\ rows' = rows /\ lost' = lost
    BY <1>2, PipelineAssumption DEF Observe
  <2>2. Recorded' = Recorded /\ \A m \in Recorded : Row(m)' = Row(m)
    BY <1>0, <2>1, PublishKeepsRows
  <2> QED
    BY <1>00, <2>1, <2>2 DEF EveryHeardEventAccounted, StoredNos
<1>3. ASSUME NEW n \in EventNo, Assess(n)
      PROVE  EveryHeardEventAccounted'
  <2>1. Recorded' = Recorded /\ n \notin Recorded
    BY <1>0, <1>3 DEF Assess, Recorded
  <2>2. \A m \in Recorded : Row(m)' = Row(m)
    BY <1>0, <1>3, <2>1 DEF Assess, Row
  <2> QED
    BY <1>00, <1>3, <2>1, <2>2 DEF Assess, EveryHeardEventAccounted, StoredNos
<1>4. ASSUME NEW n \in EventNo, Record(n)
      PROVE  EveryHeardEventAccounted'
  <2>1. Recorded' = Recorded \cup {n} /\ n \notin Recorded
    BY <1>0, <1>4 DEF Record, Recorded
  <2>2. \A m \in Recorded \cup {n} : Row(m)' = Row(m)
    BY <1>4 DEF Record, Row
  <2>3. CASE db = "open" /\ rows' = rows \cup {Row(n)} /\ lost' = lost
    <3>1. Row(n).no = n
      BY DEF Row
    <3>2. StoredNos' = StoredNos \cup {n}
      BY <2>3, <3>1 DEF StoredNos
    <3> QED
      BY <1>00, <1>4, <2>1, <2>2, <2>3, <3>1, <3>2 DEF Record, EveryHeardEventAccounted
  <2>4. CASE (db = "closed" \/ InsertMayFail) /\ lost' = lost \cup {n} /\ rows' = rows
    BY <1>00, <1>4, <2>1, <2>2, <2>4 DEF Record, EveryHeardEventAccounted, StoredNos
  <2> QED
    BY <1>4, <2>3, <2>4 DEF Record
<1>5. ASSUME NEW n \in EventNo, Alert(n)
      PROVE  EveryHeardEventAccounted'
  <2> DEFINE alert  == ThreatEvent(published[n], findings[n], n)
             stages == [stage EXCEPT ![n] = "done"]
  <2>1. /\ alert \in Events /\ stages \in [EventNo -> Stages] /\ Publish(alert, stages)
        /\ findings' = findings /\ db' = db /\ rows' = rows /\ lost' = lost
    BY <1>5, AlertArguments DEF Alert
  <2>2. \A m \in EventNo : stages[m] # stage[m] => stage[m] = "recorded" /\ stages[m] = "done"
    BY <1>0, <1>5 DEF Alert
  <2> HIDE DEF alert, stages
  <2>3. Recorded' = Recorded /\ \A m \in Recorded : Row(m)' = Row(m)
    BY <2>1, <2>2, PublishKeepsRows
  <2> QED
    BY <1>00, <2>1, <2>3 DEF EveryHeardEventAccounted, StoredNos
<1> QED
  BY <1>0, <1>1, <1>2, <1>3, <1>4, <1>5 DEF PipelineNext, pipelineVars, OpenDB, CloseDB, Subscribe

LEMMA AccountedInit == PipelineInit => EveryHeardEventAccounted
  BY DEF PipelineInit, EveryHeardEventAccounted, StoredNos, Recorded

\* No event the engine hears goes missing: EveryHeardEventAccounted.
THEOREM EveryEventAccounted == PipelineSpec => []EveryHeardEventAccounted
  BY AccountedInit, AccountedStep, TypeInvAlways, PTL DEF PipelineSpec

-----------------------------------------------------------------------------
\* n reports p: the parts of AlertsAreBacked, and ProcessEvent has ended for p.
Reports(n, p) ==
  /\ p \in EventNo
  /\ p < n
  /\ stage[p] = "done"
  /\ IsThreat(findings[p])
  /\ published[n].type = "THREAT_DETECTED"
  /\ published[n].path = published[p].path
  /\ published[n].severity = CalculateSeverity(Score(findings[p]))
  /\ published[n].score = Score(findings[p])

AlertInv ==
  /\ \A n \in Alerts : Reports(n, published[n].parent)
  /\ \A m, n \in Alerts : published[m].parent = published[n].parent => m = n
  /\ \A p \in EventNo : stage[p] = "done" /\ IsThreat(findings[p]) =>
        \E n \in Alerts : published[n].parent = p

\* A report stands as long as the two events and the findings do.
LEMMA ReportStands ==
  ASSUME NEW n, NEW p, Reports(n, p),
         published'[n] = published[n], published'[p] = published[p],
         stage'[p] = "done", findings'[p] = findings[p]
  PROVE  Reports(n, p)'
  BY DEF Reports, IsThreat

LEMMA AlertInvStep ==
  TypeInv /\ FindingsFollowStage /\ AlertInv /\ [PipelineNext]_pipelineVars => AlertInv'
<1> SUFFICES ASSUME TypeInv, FindingsFollowStage, AlertInv, [PipelineNext]_pipelineVars
             PROVE  AlertInv'
  OBVIOUS
<1>0. /\ stage \in [EventNo -> Stages] /\ findings \in [EventNo -> SUBSET RuleNames]
      /\ Len(published) \in Nat
  BY DEF TypeInv, PipelineTypeOK
<1>1. CASE UNCHANGED <<published, stage, findings>>
  BY <1>1 DEF AlertInv, Alerts, PublishedNos, Reports, IsThreat
<1>2. ASSUME NEW event \in Observations, Observe(event)
      PROVE  AlertInv'
  <2>1. event \in Events /\ Publish(event, stage) /\ findings' = findings /\ event.parent = 0
    BY <1>2, PipelineAssumption DEF Observe
  <2>2. \A m \in EventNo : stage[m] = "done" <=> stage'[m] = "done"
    BY <1>0, <2>1, PublishKeepsRows
  <2>3. Alerts' = Alerts
    BY <1>0, <2>1, PublishEffect DEF TypeInv, Alerts
  <2>4. \A m \in PublishedNos : published'[m] = published[m]
    BY <1>0, <2>1, PublishEffect DEF TypeInv
  <2>5. \A n \in Alerts : n \in PublishedNos /\ published[n].parent \in PublishedNos
    BY <1>0 DEF AlertInv, Alerts, PublishedNos, Reports, EventNo
  <2>6. \A n \in Alerts : Reports(n, published[n].parent)'
    BY <2>1, <2>2, <2>4, <2>5 DEF AlertInv, Reports
  <2> QED
    BY <2>1, <2>2, <2>3, <2>4, <2>5, <2>6 DEF AlertInv
<1>3. ASSUME NEW n \in EventNo, Assess(n)
      PROVE  AlertInv'
  <2>1. published' = published /\ Alerts' = Alerts
    BY <1>3 DEF Assess, Alerts, PublishedNos
  <2>2. \A m \in EventNo :
          (stage[m] = "done" \/ stage'[m] = "done") =>
             stage'[m] = "done" /\ stage[m] = "done" /\ findings'[m] = findings[m]
    BY <1>0, <1>3 DEF Assess
  <2>3. ASSUME NEW m \in Alerts
        PROVE  Reports(m, published[m].parent)'
    <3>1. Reports(m, published[m].parent) /\ published[m].parent \in EventNo
      BY DEF AlertInv, Reports
    <3>2. /\ stage'[published[m].parent] = "done"
          /\ findings'[published[m].parent] = findings[published[m].parent]
      BY <2>1, <2>2, <3>1 DEF Reports
    <3> QED
      BY <2>1, <3>1, <3>2, ReportStands
  <2>4. ASSUME NEW q \in EventNo, stage'[q] = "done", IsThreat(findings'[q])
        PROVE  \E m \in Alerts : published[m].parent = q
    <3>1. stage[q] = "done" /\ findings'[q] = findings[q]
      BY <2>1, <2>2, <2>4
    <3>2. IsThreat(findings[q])
      BY <2>4, <3>1 DEF IsThreat
    <3> QED
      BY <3>1, <3>2 DEF AlertInv
  <2> QED
    BY <2>1, <2>3, <2>4 DEF AlertInv
<1>4. ASSUME NEW n \in EventNo, Record(n)
      PROVE  AlertInv'
  <2>1. published' = published /\ Alerts' = Alerts /\ findings' = findings
    BY <1>4 DEF Record, Alerts, PublishedNos
  <2>2. \A m \in EventNo : stage[m] = "done" => stage'[m] = "done"
    BY <1>0, <1>4 DEF Record
  <2>21. \A m \in EventNo : stage'[m] = "done" /\ IsThreat(findings[m]) => stage[m] = "done"
    BY <1>0, <1>4 DEF Record
  <2>3. ASSUME NEW m \in Alerts
        PROVE  Reports(m, published[m].parent)'
    <3>1. Reports(m, published[m].parent) /\ published[m].parent \in EventNo
      BY DEF AlertInv, Reports
    <3>2. /\ stage'[published[m].parent] = "done"
          /\ findings'[published[m].parent] = findings[published[m].parent]
      BY <2>1, <2>2, <3>1 DEF Reports
    <3> QED
      BY <2>1, <3>1, <3>2, ReportStands
  <2>4. ASSUME NEW q \in EventNo, stage'[q] = "done", IsThreat(findings'[q])
        PROVE  \E m \in Alerts : published[m].parent = q
    <3>1. IsThreat(findings[q])
      BY <2>1, <2>4 DEF IsThreat
    <3>2. stage[q] = "done"
      BY <2>21, <2>4, <3>1
    <3> QED
      BY <3>1, <3>2 DEF AlertInv
  <2> QED
    BY <2>1, <2>3, <2>4 DEF AlertInv
<1>5. ASSUME NEW p \in EventNo, Alert(p)
      PROVE  AlertInv'
  <2> DEFINE alert  == ThreatEvent(published[p], findings[p], p)
             stages == [stage EXCEPT ![p] = "done"]
  <2>1. /\ alert \in Events /\ stages \in [EventNo -> Stages] /\ Publish(alert, stages)
        /\ findings' = findings /\ stage[p] = "recorded" /\ p \in PublishedNos
    BY <1>5, AlertArguments DEF Alert
  <2>2. \A m \in EventNo : stages[m] # stage[m] => stage[m] = "recorded" /\ stages[m] = "done"
    BY <1>0, <2>1
  <2>3. stages[p] = "done" /\ \A m \in EventNo : m # p => stages[m] = stage[m]
    BY <1>0
  <2>4. /\ alert.parent = p /\ alert.type = "THREAT_DETECTED" /\ alert.path = published[p].path
        /\ alert.severity = CalculateSeverity(Score(findings[p])) /\ alert.score = Score(findings[p])
    BY DEF ThreatEvent
  <2>5. IsThreat(findings[p])
    BY <2>1 DEF FindingsFollowStage
  <2> HIDE DEF alert, stages
  <2>k. PICK k \in EventNo : k = Len(published')
    BY <2>1, PublishEffect DEF TypeInv
  <2>6. \A m \in EventNo : stage'[m] = "done" <=> (stage[m] = "done" \/ m = p)
    BY <1>0, <2>1, <2>2, <2>3, PublishKeepsRows
  <2>7. /\ \A m \in PublishedNos : published'[m] = published[m]
        /\ published'[k] = alert /\ PublishedNos' = PublishedNos \cup {k}
        /\ k = Len(published) + 1
    BY <2>1, <2>k, PublishEffect DEF TypeInv
  <2>8. p < k /\ p # k /\ k \notin PublishedNos /\ p # 0
    BY <1>0, <2>1, <2>7 DEF PublishedNos
  <2>9. Alerts' = Alerts \cup {k}
    BY <2>4, <2>7, <2>8 DEF Alerts
  <2>10. \A n \in Alerts : n \in PublishedNos /\ published[n].parent \in PublishedNos
    BY <1>0 DEF AlertInv, Alerts, PublishedNos, Reports, EventNo
  <2>11. ASSUME NEW n \in Alerts
         PROVE  Reports(n, published[n].parent)'
    <3>1. Reports(n, published[n].parent) /\ published[n].parent \in EventNo
      BY DEF AlertInv, Reports
    <3>2. stage'[published[n].parent] = "done"
      BY <2>6, <3>1 DEF Reports
    <3> QED
      BY <2>1, <2>7, <2>10, <3>1, <3>2, ReportStands
  <2>12. Reports(k, published[k].parent)'
    BY <2>1, <2>4, <2>5, <2>6, <2>7, <2>8 DEF Reports
  <2>13. \A n \in Alerts : published[n].parent # p
    BY <2>1 DEF AlertInv, Reports
  <2>14. \A n \in Alerts' : Reports(n, published[n].parent)'
    BY <2>7, <2>9, <2>10, <2>11, <2>12
  <2>15. \A m, n \in Alerts' : published'[m].parent = published'[n].parent => m = n
    BY <2>4, <2>7, <2>9, <2>10, <2>13 DEF AlertInv
  <2>16. \A q \in EventNo : stage'[q] = "done" /\ IsThreat(findings'[q]) =>
           \E n \in Alerts' : published'[n].parent = q
    <3> TAKE q \in EventNo
    <3> HAVE stage'[q] = "done" /\ IsThreat(findings'[q])
    <3>1. CASE q = p
      BY <2>4, <2>7, <2>9, <3>1
    <3>2. CASE q # p
      <4>1. PICK n \in Alerts : published[n].parent = q
        BY <2>1, <2>6, <3>2 DEF AlertInv
      <4> QED
        BY <2>7, <2>9, <2>10, <4>1
    <3> QED
      BY <3>1, <3>2
  <2> QED
    BY <2>14, <2>15, <2>16 DEF AlertInv
<1> QED
  BY <1>1, <1>2, <1>3, <1>4, <1>5
  DEF PipelineNext, pipelineVars, OpenDB, CloseDB, Subscribe

PipelineInv == TypeInv /\ EveryHeardEventAccounted /\ FindingsFollowStage /\ AlertInv

LEMMA PipelineInvAlways == PipelineSpec => []PipelineInv
<1>1. PipelineInit => PipelineInv
  BY TypeInvInit, AccountedInit
  DEF PipelineInit, PipelineInv, FindingsFollowStage, AlertInv, Alerts, PublishedNos
<1>2. PipelineInv /\ [PipelineNext]_pipelineVars => PipelineInv'
  BY TypeInvStep, AccountedStep, FindingsFollowStageStep, AlertInvStep DEF PipelineInv
<1> QED
  BY <1>1, <1>2, PTL DEF PipelineSpec

\* An alert is never ahead of the record of the event it reports, and no event
\* is reported twice: AlertsAreBacked.
THEOREM EveryAlertIsBacked == PipelineSpec => []AlertsAreBacked
<1>1. PipelineInv => AlertsAreBacked
  <2> SUFFICES ASSUME PipelineInv
               PROVE  AlertsAreBacked
    OBVIOUS
  <2> USE DEF PipelineInv
  <2>1. ASSUME NEW n \in Alerts
        PROVE  LET parent == published[n].parent
               IN  /\ parent < n
                   /\ parent \in StoredNos \cup lost
                   /\ IsThreat(findings[parent])
                   /\ published[n].path = published[parent].path
                   /\ Row(parent).type = published[n].type
                   /\ Row(parent).severity = published[n].severity
                   /\ Row(parent).score = published[n].score
    <3> DEFINE parent == published[n].parent
    <3>1. Reports(n, parent)
      BY <2>1 DEF AlertInv
    <3> HIDE DEF parent
    <3>2. parent \in StoredNos \cup lost
      BY <3>1 DEF Reports, Recorded, EveryHeardEventAccounted
    <3>3. /\ Row(parent).type = "THREAT_DETECTED"
          /\ Row(parent).severity = CalculateSeverity(Score(findings[parent]))
          /\ Row(parent).score = Score(findings[parent])
      BY <3>1 DEF Reports, Row
    <3> QED
      BY <3>1, <3>2, <3>3 DEF Reports, parent
  <2> QED
    BY <2>1 DEF AlertInv, AlertsAreBacked
<1> QED
  BY <1>1, PipelineInvAlways, PTL

\* The threats in the database and the alerts that were published are about the
\* same events as soon as no ProcessEvent is running: QuietMeansAlerted.
THEOREM QuietPipelineAgrees == PipelineSpec => []QuietMeansAlerted
<1>1. PipelineInv => QuietMeansAlerted
  <2> SUFFICES ASSUME PipelineInv, \A n \in EventNo : stage[n] \in {"none", "done"}
               PROVE  { r.no : r \in { r \in rows : r.score > 0 } }
                        \cup { n \in lost : IsThreat(findings[n]) }
                      = { published[n].parent : n \in Alerts }
    BY DEF QuietMeansAlerted, GetThreats
  <2> USE DEF PipelineInv
  <2>1. \A n \in Recorded : n \in EventNo /\ stage[n] = "done"
    BY DEF Recorded
  <2>2. \A r \in rows : r.no \in Recorded /\ (r.score > 0 <=> IsThreat(findings[r.no]))
    <3> TAKE r \in rows
    <3>1. r = Row(r.no) /\ r.no \in Recorded
      BY DEF EveryHeardEventAccounted, StoredNos
    <3>2. r.score = Score(findings[r.no])
      BY <3>1 DEF Row
    <3> QED
      BY <3>1, <3>2, PositiveIsThreat
  <2>3. ASSUME NEW r \in rows, r.score > 0
        PROVE  \E n \in Alerts : published[n].parent = r.no
    BY <2>1, <2>2, <2>3 DEF AlertInv
  <2>4. ASSUME NEW p \in lost, IsThreat(findings[p])
        PROVE  \E n \in Alerts : published[n].parent = p
    <3>1. p \in Recorded
      BY DEF EveryHeardEventAccounted
    <3> QED
      BY <2>1, <2>4, <3>1 DEF AlertInv
  <2>5. ASSUME NEW n \in Alerts
        PROVE  \/ \E r \in rows : r.score > 0 /\ r.no = published[n].parent
               \/ published[n].parent \in lost /\ IsThreat(findings[published[n].parent])
    <3> DEFINE p == published[n].parent
    <3>1. p \in Recorded /\ IsThreat(findings[p])
      <4>1. Reports(n, p)
        BY DEF AlertInv
      <4> HIDE DEF p
      <4> QED
        BY <4>1 DEF Reports, Recorded
    <3> HIDE DEF p
    <3>2. p \in lost \/ \E r \in rows : r.no = p
      BY <3>1 DEF EveryHeardEventAccounted, StoredNos
    <3>3. p \in lost \/ \E r \in rows : r.score > 0 /\ r.no = p
      BY <2>2, <3>1, <3>2
    <3> QED
      BY <3>1, <3>3 DEF p
  <2> QED
    BY <2>3, <2>4, <2>5
<1> QED
  BY <1>1, PipelineInvAlways, PTL

LEMMA EchoStep ==
  PipelineInv /\ EchoesDropTheChange /\ [PipelineNext]_pipelineVars => EchoesDropTheChange'
<1> SUFFICES ASSUME PipelineInv, EchoesDropTheChange, [PipelineNext]_pipelineVars
             PROVE  EchoesDropTheChange'
  OBVIOUS
<1> USE DEF PipelineInv
<1>0. /\ stage \in [EventNo -> Stages] /\ findings \in [EventNo -> SUBSET RuleNames]
      /\ Len(published) \in Nat
  BY DEF TypeInv, PipelineTypeOK
<1>1. CASE UNCHANGED <<published, findings>>
  BY <1>1 DEF EchoesDropTheChange, Alerts, PublishedNos
<1>2. ASSUME NEW e \in Events, NEW stages \in [EventNo -> Stages], Publish(e, stages),
             findings' = findings
      PROVE  EchoesDropTheChange'
  <2>1. /\ \A m \in PublishedNos : published'[m] = published[m]
        /\ PublishedNos' = PublishedNos \cup {Len(published')}
        /\ Len(published') \in EventNo /\ Len(published') = Len(published) + 1
    BY <1>2, PublishEffect DEF TypeInv
  <2>2. findings[Len(published')] = {}
    BY <1>0, <2>1 DEF TypeInv, HeardArePublished, Heard, PublishedNos, FindingsFollowStage
  <2>3. Alerts' \subseteq Alerts \cup {Len(published')}
    BY <2>1 DEF Alerts
  <2> QED
    BY <1>2, <2>2, <2>3 DEF EchoesDropTheChange
<1>3. ASSUME NEW event \in Observations, Observe(event)
      PROVE  EchoesDropTheChange'
  BY <1>0, <1>2, <1>3, PipelineAssumption DEF Observe
<1>4. ASSUME NEW n \in EventNo, Assess(n)
      PROVE  EchoesDropTheChange'
  <2>1. published' = published /\ Alerts' = Alerts
    BY <1>4 DEF Assess, Alerts, PublishedNos
  <2>2. PICK saw : findings' = [findings EXCEPT ![n] = Findings(published[n], saw)]
    BY <1>4 DEF Assess
  <2>3. n \in Alerts => "SensitiveFileModification" \notin Findings(published[n], saw)
    <3>1. n \in Alerts => published[n].type = "THREAT_DETECTED"
      BY DEF AlertInv, Reports
    <3> QED
      BY <3>1 DEF Findings, SensitiveFileModification, FileChangeTypes
  <2> QED
    BY <1>0, <2>1, <2>2, <2>3 DEF EchoesDropTheChange
<1>5. ASSUME NEW n \in EventNo, Alert(n)
      PROVE  EchoesDropTheChange'
  BY <1>2, <1>5, AlertArguments DEF Alert
<1> QED
  BY <1>1, <1>3, <1>4, <1>5
  DEF PipelineNext, pipelineVars, OpenDB, CloseDB, Subscribe, Record

\* Of a chain of alerts about one observation, only the observation itself can
\* count as the change of a sensitive file: EchoesDropTheChange.
THEOREM EchoesAreNoChanges == PipelineSpec => []EchoesDropTheChange
<1>1. PipelineInit => EchoesDropTheChange
  BY DEF PipelineInit, EchoesDropTheChange, Alerts, PublishedNos
<1> QED
  BY <1>1, EchoStep, PipelineInvAlways, PTL DEF PipelineSpec

-----------------------------------------------------------------------------
\* The refinement: Publish lets the engine hear, Record settles, Alert reports
\* and lets it hear, and every other step stutters.

RecordedThreats == { n \in Recorded : IsThreat(findings[n]) }
Reported        == { published[n].parent : n \in Alerts }

\* What a Publish does to the ledger.
LEMMA PublishInLedger ==
  ASSUME TypeInv, NEW e \in Events, NEW stages \in [EventNo -> Stages], Publish(e, stages),
         findings' = findings,
         \A m \in EventNo : stages[m] # stage[m] => stage[m] = "recorded" /\ stages[m] = "done"
  PROVE  /\ RecordedThreats' = RecordedThreats
         /\ Reported' = Reported \cup (IF e.parent = 0 THEN {} ELSE {e.parent})
         /\ Len(published') \in EventNo \ Heard
         /\ Heard' = Heard \/ Heard' = Heard \cup {Len(published')}
<1> DEFINE new == Len(published')
<1>1. /\ new \in EventNo /\ published'[new] = e
      /\ PublishedNos' = PublishedNos \cup {new}
      /\ \A m \in PublishedNos : published'[m] = published[m]
      /\ \A m \in EventNo : m # new => stage'[m] = stages[m]
  BY PublishEffect DEF TypeInv
<1>2. Recorded' = Recorded /\ stage[new] = "none" /\ stage'[new] \in {"none", "spawned"}
  BY PublishKeepsRows
<1> HIDE DEF new
<1>3. RecordedThreats' = RecordedThreats
  BY <1>2 DEF RecordedThreats, IsThreat
<1>4. Alerts' = Alerts \cup (IF e.parent = 0 THEN {} ELSE {new})
  <2>1. new \notin PublishedNos
    BY PublishEffect DEF new, PublishedNos, TypeInv, PipelineTypeOK
  <2> QED
    BY <1>1, <2>1 DEF Alerts
<1>5. Reported' = Reported \cup (IF e.parent = 0 THEN {} ELSE {e.parent})
  <2>1. \A m \in Alerts : published'[m] = published[m]
    BY <1>1 DEF Alerts
  <2>2. { published'[m].parent : m \in Alerts } = { published[m].parent : m \in Alerts }
    BY <2>1
  <2>3. Reported' = { published'[m].parent : m \in Alerts' }
    BY DEF Reported
  <2> QED
    BY <1>1, <1>4, <2>2, <2>3 DEF Reported
<1>6. new \notin Heard /\ (Heard' = Heard \/ Heard' = Heard \cup {new})
  <2>1. \A m \in EventNo : m # new => (stage'[m] = "none" <=> stage[m] = "none")
    BY <1>1
  <2> QED
    BY <1>1, <1>2, <2>1 DEF Heard
<1> QED
  BY <1>1, <1>3, <1>5, <1>6 DEF new

LEMMA LedgerStep ==
  PipelineInv /\ [PipelineNext]_pipelineVars
    => [LedgerOfPipeline!LedgerNext]_(LedgerOfPipeline!ledgerVars)
<1> SUFFICES ASSUME PipelineInv, [PipelineNext]_pipelineVars
             PROVE  \/ LedgerOfPipeline!LedgerNext
                    \/ UNCHANGED <<Heard, rows, lost, RecordedThreats, Reported>>
  BY DEF LedgerOfPipeline!ledgerVars, RecordedThreats, Reported
<1> USE DEF PipelineInv
<1>0. stage \in [EventNo -> Stages] /\ findings \in [EventNo -> SUBSET RuleNames]
  BY DEF TypeInv, PipelineTypeOK
<1>1. CASE UNCHANGED <<published, stage, findings, rows, lost>>
  BY <1>1 DEF Heard, Recorded, RecordedThreats, Reported, Alerts, PublishedNos, IsThreat
<1>2. ASSUME NEW event \in Observations, Observe(event)
      PROVE  LedgerOfPipeline!LedgerNext \/ UNCHANGED <<Heard, rows, lost, RecordedThreats, Reported>>
  <2>1. /\ event \in Events /\ event.parent = 0 /\ Publish(event, stage)
        /\ findings' = findings /\ rows' = rows /\ lost' = lost
    BY <1>2, PipelineAssumption DEF Observe
  <2>2. /\ UNCHANGED <<rows, lost, RecordedThreats, Reported>>
        /\ Len(published') \in EventNo \ Heard
        /\ Heard' = Heard \/ Heard' = Heard \cup {Len(published')}
    BY <1>0, <2>1, PublishInLedger
  <2>3. CASE Heard' = Heard \cup {Len(published')}
    <3>1. LedgerOfPipeline!Hear(Len(published'))
      BY <2>2, <2>3 DEF LedgerOfPipeline!Hear, RecordedThreats, Reported
    <3> QED
      BY <2>2, <3>1 DEF LedgerOfPipeline!LedgerNext
  <2> QED
    BY <2>2, <2>3
<1>3. ASSUME NEW n \in EventNo, Assess(n)
      PROVE  UNCHANGED <<Heard, rows, lost, RecordedThreats, Reported>>
  <2>1. Heard' = Heard /\ Recorded' = Recorded /\ n \notin Recorded
    BY <1>0, <1>3 DEF Assess, Heard, Recorded
  <2>2. \A m \in Recorded : findings'[m] = findings[m]
    BY <1>0, <1>3, <2>1 DEF Assess, Recorded
  <2>3. RecordedThreats' = RecordedThreats
    BY <2>1, <2>2 DEF RecordedThreats, IsThreat
  <2> QED
    BY <1>3, <2>1, <2>3 DEF Assess, Reported, Alerts, PublishedNos
<1>4. ASSUME NEW n \in EventNo, Record(n)
      PROVE  LedgerOfPipeline!LedgerNext
  <2>1. /\ Heard' = Heard /\ n \in Heard \ Recorded /\ Recorded' = Recorded \cup {n}
        /\ findings' = findings /\ Reported' = Reported
    BY <1>0, <1>4 DEF Record, Heard, Recorded, Reported, Alerts, PublishedNos
  <2>2. RecordedThreats' = RecordedThreats \cup (IF IsThreat(findings[n]) THEN {n} ELSE {})
    BY <2>1 DEF RecordedThreats, IsThreat
  <2>3. n \notin LedgerOfPipeline!Settled
    BY <2>1 DEF LedgerOfPipeline!Settled, EveryHeardEventAccounted, StoredNos
  <2>4. Row(n) \in [no : EventNo, type : EventTypes, severity : Severities, score : 0..100]
    BY <2>1, RowType DEF TypeInv, HeardArePublished, PublishedNos
  <2>5. Row(n).no = n /\ (Row(n).score > 0 <=> IsThreat(findings[n]))
    BY PositiveIsThreat DEF Row
  <2>6. \/ rows' = rows \cup {Row(n)} /\ lost' = lost
        \/ lost' = lost \cup {n} /\ rows' = rows
    BY <1>4 DEF Record
  <2>7. LedgerOfPipeline!Settle(n)
    BY <2>1, <2>2, <2>3, <2>4, <2>5, <2>6
       DEF LedgerOfPipeline!Settle, RecordedThreats, Reported
  <2> QED
    BY <2>7 DEF LedgerOfPipeline!LedgerNext
<1>5. ASSUME NEW n \in EventNo, Alert(n)
      PROVE  LedgerOfPipeline!LedgerNext
  <2> DEFINE alert  == ThreatEvent(published[n], findings[n], n)
             stages == [stage EXCEPT ![n] = "done"]
  <2>1. /\ alert \in Events /\ stages \in [EventNo -> Stages] /\ Publish(alert, stages)
        /\ findings' = findings /\ rows' = rows /\ lost' = lost
        /\ alert.parent = n /\ n # 0
    BY <1>5, AlertArguments DEF Alert, ThreatEvent, EventNo
  <2>2. \A m \in EventNo : stages[m] # stage[m] => stage[m] = "recorded" /\ stages[m] = "done"
    BY <1>0, <1>5 DEF Alert
  <2> HIDE DEF alert, stages
  <2>3. /\ RecordedThreats' = RecordedThreats /\ Reported' = Reported \cup {n}
        /\ Len(published') \in EventNo \ Heard
        /\ Heard' = Heard \/ Heard' = Heard \cup {Len(published')}
    BY <2>1, <2>2, PublishInLedger
  <2>4. n \in RecordedThreats
    BY <1>5 DEF Alert, FindingsFollowStage, RecordedThreats, Recorded
  <2>5. n \notin Reported
    BY <1>5 DEF Alert, Reported, AlertInv, Reports
  <2>6. LedgerOfPipeline!Report(n)
    BY <2>1, <2>3, <2>4, <2>5 DEF LedgerOfPipeline!Report, RecordedThreats, Reported
  <2> QED
    BY <2>6 DEF LedgerOfPipeline!LedgerNext
<1> QED
  BY <1>1, <1>2, <1>3, <1>4, <1>5 DEF PipelineNext, pipelineVars, OpenDB, CloseDB, Subscribe

\* Whatever the interleaving of its goroutines, the pipeline is a ledger: an event
\* is settled once at most, for good and only after it was heard; nothing but a
\* threat that is settled is reported, and nothing twice.
THEOREM PipelineRefinesLedger == PipelineSpec => PipelineImplementsLedger
<1>1. PipelineInit => LedgerOfPipeline!LedgerInit
  BY DEF PipelineInit, LedgerOfPipeline!LedgerInit, Heard, Recorded, Alerts, PublishedNos
<1> QED
  BY <1>1, LedgerStep, PipelineInvAlways, PTL
     DEF PipelineSpec, PipelineImplementsLedger, LedgerOfPipeline!LedgerSpec

=============================================================================
