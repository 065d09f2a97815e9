----------------------------- MODULE MCDetection -----------------------------
(***************************************************************************)
(* The judgement of every event of a small host: a path for each set of    *)
(* traits that a rule tells apart.                                         *)
(***************************************************************************)
EXTENDS Judgement

CONSTANTS noPath, tmpScript, tmpData, tmpHidden, passwd, homeFile, plainFile

MCPaths == {noPath, tmpScript, tmpData, tmpHidden, passwd, homeFile, plainFile}

MCTraits == [p \in MCPaths |->
  CASE p = noPath    -> {"empty"}
    [] p = tmpScript -> {"tmp", "ext"}
    [] p = tmpData   -> {"tmp"}
    [] p = tmpHidden -> {"tmp", "hidden"}
    [] p = passwd    -> {"sensitive"}
    [] p = homeFile  -> {"home", "hidden"}
    [] p = plainFile -> {}]

\* One kind for each combination of bits, and both kinds that are no program.
MCLstatAnswers == {"absent", "dir", "symlink", "open", "setgid"}

=============================================================================
