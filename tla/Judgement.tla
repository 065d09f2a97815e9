------------------------------ MODULE Judgement ------------------------------
(***************************************************************************)
(* One event as Evaluate judges it while the file behind it changes.  A    *)
(* state is the event and what each of the three Lstat calls made for it   *)
(* answers; a step changes one answer, as a change of the file between two *)
(* calls does.                                                             *)
(***************************************************************************)
EXTENDS Detection

VARIABLES judged,  \* the event
          looks    \* what each rule's Lstat answers

judgeVars == <<judged, looks>>

\* What the monitors and the baseline publish; no rule reads the last two fields.
JudgedEvents ==
  [ type : EventTypes \ {"THREAT_DETECTED"}, path : Paths,
    user : {"root", "other"}, severity : {"INFO"}, score : {0} ]

JudgeInit ==
  /\ judged \in JudgedEvents
  /\ looks \in [StatRules -> {"absent"}]

FileChanges(r, kind) ==
  /\ kind # looks[r]
  /\ looks' = [looks EXCEPT ![r] = kind]
  /\ UNCHANGED judged

JudgeNext == \E r \in StatRules, kind \in LstatAnswers : FileChanges(r, kind)

JudgeSpec == JudgeInit /\ [][JudgeNext]_judgeVars

-----------------------------------------------------------------------------
Found == Findings(judged, looks)

\* An event has a positive score exactly when it reaches the threshold of 30:
\* the two tests the program uses for a threat, "score > 0" in GetThreats and
\* "score >= 30" in ProcessEvent, select the same events.
ThreatTestsAgree == (Score(Found) > 0) <=> IsThreat(Found)

\* An alert is judged again by the same engine.  Judged on the same files it
\* never scores higher than the event it reports, and what it loses are only
\* the findings that depend on the type of the event.
AlertNeverScoresHigher ==
  IsThreat(Found) =>
    LET again == Findings(ThreatEvent(judged, Found, 1), looks)
    IN  /\ again \subseteq Found
        /\ Score(again) <= Score(Found)
        /\ Found \ again \subseteq {"SensitiveFileModification", "SuspiciousTmpExecutable"}

Rank(severity) ==
  CASE severity = "INFO" -> 0 [] severity = "LOW" -> 1 [] severity = "MEDIUM" -> 2
    [] severity = "HIGH" -> 3 [] severity = "CRITICAL" -> 4

\* A file that shows more (an execute bit, a dangerous mode) between two looks
\* never gets a lower score or a lower severity.
SeverityMonotone ==
  [][ (\A r \in StatRules : /\ HasExecBit(looks[r]) => HasExecBit(looks'[r])
                            /\ HasDangerousMode(looks[r]) => HasDangerousMode(looks'[r]))
      => /\ Score(Found') >= Score(Found)
         /\ Rank(CalculateSeverity(Score(Found'))) >= Rank(CalculateSeverity(Score(Found))) ]_judgeVars

=============================================================================
