------------------------------- MODULE MCAgent -------------------------------
(***************************************************************************)
(* The agent with one observation for each source of events: the           *)
(* filesystem monitor, the process monitor and a baseline check.           *)
(***************************************************************************)
EXTENDS Agent

CONSTANTS tmpHidden, passwd, plainFile

MCPaths == {tmpHidden, passwd, plainFile}

MCTraits == [p \in MCPaths |->
  CASE p = tmpHidden -> {"tmp", "hidden"}
    [] p = passwd    -> {"sensitive"}
    [] p = plainFile -> {}]

Observation(type, path, user, severity) ==
  [type |-> type, path |-> path, user |-> user, severity |-> severity, score |-> 0, parent |-> 0]

MCObservations ==
  { Observation("FILE_MODIFIED", passwd, "other", "INFO"),
    Observation("PROCESS_STARTED", tmpHidden, "root", "INFO"),
    Observation("FILE_DELETED", plainFile, "other", "MEDIUM") }

\* The files are gone when Lstat looks.
MCLstatAnswers == {"absent"}

=============================================================================
