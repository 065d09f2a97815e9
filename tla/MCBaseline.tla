----------------------------- MODULE MCBaseline -----------------------------
(***************************************************************************)
(* The baseline with two requests at a time.                               *)
(***************************************************************************)
EXTENDS Baseline, TLC

\* A file is there, or is not there yet.
MCInitialStates == { Gone, [content |-> "a", perm |-> "rw"] }

\* Neither the requests nor the files are told apart.
Symmetric == Permutations(Jobs) \cup Permutations(Files)

=============================================================================
