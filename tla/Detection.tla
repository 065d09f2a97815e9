------------------------------ MODULE Detection ------------------------------
(***************************************************************************)
(* The detection engine's judgement of one event (internal/detection):     *)
(* five rules, the sum of their scores capped at 100, and the severity of  *)
(* that score.  The module has no variables: ProcessEvent, which calls it, *)
(* is in EventPipeline.                                                    *)
(*                                                                         *)
(* A path is a model value.  What the string tests of rules.go say about   *)
(* it is Traits[path]: no path at all ("empty"), a temporary directory     *)
(* ("tmp"), a script or binary extension ("ext"), one of the listed system *)
(* files ("sensitive"), a base name that starts with a dot ("hidden"),     *)
(* /home ("home").  What os.Lstat answers is a kind of file; the three     *)
(* rules that call it each call it on their own, so they need not see the  *)
(* same file.                                                              *)
(***************************************************************************)
EXTENDS Integers

CONSTANTS Paths, Traits,
          LstatAnswers    \* the kinds of file an Lstat may find

PathTraits == {"empty", "tmp", "ext", "sensitive", "hidden", "home"}

ASSUME TraitsAssumption ==
  /\ Traits \in [Paths -> SUBSET PathTraits]
  /\ \A p \in Paths : "empty" \in Traits[p] => Traits[p] = {"empty"}

(***************************************************************************)
(* What Lstat says.  "absent" is any error.  A directory (0755) and a      *)
(* symbolic link (its own mode is 0777) carry execute bits too.            *)
(***************************************************************************)
FileKinds == {"absent", "plain", "exec", "dir", "open", "symlink", "setuid", "setgid"}

ASSUME LstatAssumption == LstatAnswers \subseteq FileKinds

FileChangeTypes ==
  {"FILE_CREATED", "FILE_MODIFIED", "FILE_DELETED", "FILE_PERMISSION_CHANGED"}

EventTypes == FileChangeTypes \cup
  {"FILE_RENAMED", "PROCESS_STARTED", "BASELINE_CHANGED", "THREAT_DETECTED"}

Severities == {"INFO", "LOW", "MEDIUM", "HIGH", "CRITICAL"}

\* stat.Mode()&0111 != 0 ("setgid" stands for the bit without execute bits)
HasExecBit(kind) == kind \in {"exec", "dir", "open", "symlink", "setuid"}

\* mode&0777 == 0777, or a setuid or setgid bit
HasDangerousMode(kind) == kind \in {"open", "symlink", "setuid", "setgid"}

-----------------------------------------------------------------------------
SuspiciousTmpExecutable(e, kind) ==
  /\ "tmp" \in Traits[e.path]
  /\ \/ HasExecBit(kind)
     \/ "ext" \in Traits[e.path]
     \/ e.type = "PROCESS_STARTED"

\* Fault for the mutation runs: the rule hears alerts too.
SensitiveAlertsToo(e) ==
  "sensitive" \in Traits[e.path] /\ e.type \in FileChangeTypes \cup {"THREAT_DETECTED"}

SensitiveFileModification(e) ==
  /\ "sensitive" \in Traits[e.path]
  /\ e.type \in FileChangeTypes

HiddenExecutable(e, kind) ==
  /\ "hidden" \in Traits[e.path]
  /\ HasExecBit(kind)

RootUnusualExecutable(e) ==
  /\ e.user = "root"
  /\ Traits[e.path] \cap {"tmp", "home"} # {}

SuspiciousPermission(e, kind) ==
  /\ "empty" \notin Traits[e.path]
  /\ HasDangerousMode(kind)

StatRules == {"SuspiciousTmpExecutable", "HiddenExecutable", "SuspiciousPermission"}
RuleNames == StatRules \cup {"SensitiveFileModification", "RootUnusualExecutable"}

\* The rules that return a finding; saw[r] is what rule r's Lstat answered.
Findings(e, saw) ==
  { r \in RuleNames :
      \/ r = "SuspiciousTmpExecutable" /\ SuspiciousTmpExecutable(e, saw[r])
      \/ r = "SensitiveFileModification" /\ SensitiveFileModification(e)
      \/ r = "HiddenExecutable" /\ HiddenExecutable(e, saw[r])
      \/ r = "RootUnusualExecutable" /\ RootUnusualExecutable(e)
      \/ r = "SuspiciousPermission" /\ SuspiciousPermission(e, saw[r]) }

RulePoints ==
  [ SuspiciousTmpExecutable |-> 40, SensitiveFileModification |-> 50, HiddenExecutable |-> 35,
    RootUnusualExecutable |-> 45, SuspiciousPermission |-> 30 ]

\* Fault for the mutation runs: a rule below the alert threshold.
LowPermissionPoints(F, r) ==
  IF r \notin F THEN 0 ELSE IF r = "SuspiciousPermission" THEN 25 ELSE RulePoints[r]

Points(F, r) == IF r \in F THEN RulePoints[r] ELSE 0

\* Fault for the mutation runs: the cap wraps instead of saturating.
WrappedScore(F) ==
  ( Points(F, "SuspiciousTmpExecutable") + Points(F, "SensitiveFileModification")
    + Points(F, "HiddenExecutable") + Points(F, "RootUnusualExecutable")
    + Points(F, "SuspiciousPermission") ) % 101

\* Fault for the mutation runs: no cap.
UncappedScore(F) ==
  Points(F, "SuspiciousTmpExecutable") + Points(F, "SensitiveFileModification")
    + Points(F, "HiddenExecutable") + Points(F, "RootUnusualExecutable")
    + Points(F, "SuspiciousPermission")

\* The score Evaluate returns for the findings F.
Score(F) ==
  LET total == Points(F, "SuspiciousTmpExecutable")
             + Points(F, "SensitiveFileModification")
             + Points(F, "HiddenExecutable")
             + Points(F, "RootUnusualExecutable")
             + Points(F, "SuspiciousPermission")
  IN  IF total > 100 THEN 100 ELSE total

CalculateSeverity(score) ==
  IF score >= 80 THEN "CRITICAL"
  ELSE IF score >= 60 THEN "HIGH"
  ELSE IF score >= 30 THEN "MEDIUM"
  ELSE IF score > 0 THEN "LOW"
  ELSE "INFO"

\* Fault for the mutation runs: the threshold excludes a score of 30.
IsThreatAboveThirty(F) == Score(F) > 30

\* ProcessEvent's threshold for relabelling an event and raising an alert.
IsThreat(F) == Score(F) >= 30

\* The alert ProcessEvent publishes about e, the event with number n: the same
\* subject, another type, and as a ghost the number of the event it is about.
ThreatEvent(e, F, n) ==
  [ type |-> "THREAT_DETECTED", path |-> e.path, user |-> e.user,
    severity |-> CalculateSeverity(Score(F)), score |-> Score(F), parent |-> n ]

=============================================================================
