--------------------------- MODULE DetectionProofs ---------------------------
(***************************************************************************)
(* What the judgement of an event can come to, whatever the paths and      *)
(* their traits, and whatever Lstat answers.                               *)
(***************************************************************************)
EXTENDS Judgement, TLAPS

\* Evaluate only ever reports the five rules NewEngine installs.
LEMMA FindingsAreRules ==
  ASSUME NEW e, NEW saw
  PROVE  Findings(e, saw) \in SUBSET RuleNames
  BY DEF Findings

\* Each rule scores nothing or its own points.
LEMMA PointsOfRules ==
  ASSUME NEW F
  PROVE  /\ Points(F, "SuspiciousTmpExecutable") \in {0, 40}
         /\ Points(F, "SensitiveFileModification") \in {0, 50}
         /\ Points(F, "HiddenExecutable") \in {0, 35}
         /\ Points(F, "RootUnusualExecutable") \in {0, 45}
         /\ Points(F, "SuspiciousPermission") \in {0, 30}
  BY DEF Points, RulePoints

\* The score Evaluate returns is between 0 and 100, and it is never strictly
\* between 0 and the alert threshold of 30.
LEMMA ScoreRange ==
  ASSUME NEW F
  PROVE  Score(F) \in {0} \cup 30..100
  BY PointsOfRules DEF Score

\* Hence a positive score is a threat, for every set of findings.
LEMMA PositiveIsThreat ==
  ASSUME NEW F
  PROVE  (Score(F) > 0) <=> IsThreat(F)
  BY ScoreRange DEF IsThreat

\* CalculateSeverity is total on scores, and ProcessEvent, which overwrites the
\* severity of every event, never uses LOW.
THEOREM LowIsNeverUsed ==
  ASSUME NEW F
  PROVE  CalculateSeverity(Score(F)) \in Severities \ {"LOW"}
  BY ScoreRange DEF CalculateSeverity, Severities

\* More findings never make a lower score or a lower severity: the cap does not
\* wrap, and the five thresholds are in order.
LEMMA MoreFindingsScoreMore ==
  ASSUME NEW F, NEW G, F \subseteq G
  PROVE  /\ Score(F) <= Score(G)
         /\ Rank(CalculateSeverity(Score(F))) <= Rank(CalculateSeverity(Score(G)))
<1>1. \A r \in RuleNames : Points(F, r) \in Nat /\ Points(G, r) \in Nat /\ Points(F, r) <= Points(G, r)
  BY DEF Points, RulePoints, RuleNames, StatRules
<1>2. Score(F) <= Score(G)
  BY <1>1 DEF Score, RuleNames, StatRules
<1>3. Score(F) \in Nat /\ Score(G) \in Nat
  BY ScoreRange
<1>4. \A m, n \in Nat : m <= n => Rank(CalculateSeverity(m)) <= Rank(CalculateSeverity(n))
  <2>1. \A n \in Nat : Rank(CalculateSeverity(n)) =
          IF n >= 80 THEN 4 ELSE IF n >= 60 THEN 3 ELSE IF n >= 30 THEN 2 ELSE IF n > 0 THEN 1 ELSE 0
    BY DEF Rank, CalculateSeverity
  <2> QED
    BY <2>1
<1> QED
  BY <1>2, <1>3, <1>4

\* Judged on the same files, an alert has no finding its event did not have,
\* the change of a sensitive file is not among them, and it loses only the
\* findings of rules that ask for the type of the event.
LEMMA AlertsAddNothing ==
  ASSUME NEW e, NEW saw, NEW F, NEW n
  PROVE  /\ Findings(ThreatEvent(e, F, n), saw) \subseteq Findings(e, saw)
         /\ "SensitiveFileModification" \notin Findings(ThreatEvent(e, F, n), saw)
         /\ Findings(e, saw) \ Findings(ThreatEvent(e, F, n), saw)
              \subseteq {"SensitiveFileModification", "SuspiciousTmpExecutable"}
<1> DEFINE alert == ThreatEvent(e, F, n)
<1>1. /\ alert.type = "THREAT_DETECTED"
      /\ alert.path = e.path
      /\ alert.user = e.user
  BY DEF ThreatEvent
<1> HIDE DEF alert
<1>2. /\ \A r : SuspiciousTmpExecutable(alert, saw[r]) => SuspiciousTmpExecutable(e, saw[r])
      /\ ~SensitiveFileModification(alert)
      /\ \A r : HiddenExecutable(alert, saw[r]) <=> HiddenExecutable(e, saw[r])
      /\ RootUnusualExecutable(alert) <=> RootUnusualExecutable(e)
      /\ \A r : SuspiciousPermission(alert, saw[r]) <=> SuspiciousPermission(e, saw[r])
  BY <1>1 DEF SuspiciousTmpExecutable, SensitiveFileModification, HiddenExecutable,
     RootUnusualExecutable, SuspiciousPermission, FileChangeTypes
<1>3. Findings(alert, saw) \subseteq Findings(e, saw)
  BY <1>2 DEF Findings
<1>4. "SensitiveFileModification" \notin Findings(alert, saw)
  BY <1>2 DEF Findings
<1>5. \A r \in RuleNames \ {"SensitiveFileModification", "SuspiciousTmpExecutable"} :
        r \in Findings(e, saw) => r \in Findings(alert, saw)
  BY <1>2 DEF Findings
<1> QED
  BY <1>3, <1>4, <1>5, FindingsAreRules DEF alert

-----------------------------------------------------------------------------
\* The two tests for a threat agree whatever the rules find: GetThreats asks for
\* a positive score, ProcessEvent for one of at least 30.
THEOREM ThreatTestsAgreeAlways == JudgeSpec => []ThreatTestsAgree
<1>1. ThreatTestsAgree
  BY PositiveIsThreat DEF ThreatTestsAgree
<1> QED
  BY <1>1, PTL

\* Whatever the three looks at the file see, an alert judged on the same
\* answers never scores higher than the event it is about.
THEOREM AlertsNeverOutscore == JudgeSpec => []AlertNeverScoresHigher
<1>1. AlertNeverScoresHigher
  BY AlertsAddNothing, MoreFindingsScoreMore DEF AlertNeverScoresHigher, Found
<1> QED
  BY <1>1, PTL

\* A file that shows more between two looks is never judged more mildly.
THEOREM MoreEvidenceScoresMore == JudgeSpec => SeverityMonotone
<1> DEFINE ShowsMore == \A r \in StatRules :
                          /\ HasExecBit(looks[r]) => HasExecBit(looks'[r])
                          /\ HasDangerousMode(looks[r]) => HasDangerousMode(looks'[r])
<1>1. ASSUME [JudgeNext]_judgeVars, ShowsMore
      PROVE  Found \subseteq Found'
  <2>1. judged' = judged
    BY <1>1 DEF JudgeNext, FileChanges, judgeVars
  <2>2. \A r \in StatRules :
          /\ SuspiciousTmpExecutable(judged, looks[r]) => SuspiciousTmpExecutable(judged, looks'[r])
          /\ HiddenExecutable(judged, looks[r]) => HiddenExecutable(judged, looks'[r])
          /\ SuspiciousPermission(judged, looks[r]) => SuspiciousPermission(judged, looks'[r])
    BY <1>1 DEF SuspiciousTmpExecutable, HiddenExecutable, SuspiciousPermission
  <2> QED
    BY <2>1, <2>2 DEF Found, Findings, StatRules
<1>2. [JudgeNext]_judgeVars =>
        [ ShowsMore => /\ Score(Found') >= Score(Found)
                       /\ Rank(CalculateSeverity(Score(Found'))) >= Rank(CalculateSeverity(Score(Found))) ]_judgeVars
  <2> SUFFICES ASSUME [JudgeNext]_judgeVars, ShowsMore
               PROVE  /\ Score(Found') >= Score(Found)
                      /\ Rank(CalculateSeverity(Score(Found'))) >= Rank(CalculateSeverity(Score(Found)))
    OBVIOUS
  <2>1. /\ Score(Found) <= Score(Found')
        /\ Rank(CalculateSeverity(Score(Found))) <= Rank(CalculateSeverity(Score(Found')))
    BY <1>1, MoreFindingsScoreMore
  <2>2. Score(Found) \in Nat /\ Score(Found') \in Nat
    BY ScoreRange
  <2>3. \A s : Rank(CalculateSeverity(s)) \in Nat
    BY DEF Rank, CalculateSeverity
  <2> HIDE DEF ShowsMore
  <2> QED
    BY <2>1, <2>2, <2>3
<1> QED
  BY <1>2, PTL DEF JudgeSpec, SeverityMonotone

=============================================================================
