--------------------------- MODULE MCEventPipeline ---------------------------
(***************************************************************************)
(* The pipeline on two observations that between them exercise every rule: *)
(* a hidden file in /tmp run by root, and a system file that a baseline    *)
(* check found changed.  With an absent file the latter's alert, judged in *)
(* its turn, has no finding at all.                                        *)
(***************************************************************************)
EXTENDS EventPipeline

CONSTANTS tmpHidden, passwd

MCPaths == {tmpHidden, passwd}

MCTraits == [p \in MCPaths |->
  CASE p = tmpHidden -> {"tmp", "hidden"}
    [] p = passwd    -> {"sensitive"}]

Observation(type, path, user, severity) ==
  [type |-> type, path |-> path, user |-> user, severity |-> severity, score |-> 0, parent |-> 0]

MCObservations ==
  { Observation("PROCESS_STARTED", tmpHidden, "root", "INFO"),
    Observation("FILE_MODIFIED", passwd, "other", "MEDIUM") }

\* An absent or harmless file, and one with every bit.
MCLstatAnswers == {"absent", "open"}

=============================================================================
