-------------------------- MODULE MCProcessMonitor --------------------------
(***************************************************************************)
(* The process monitor on a small process table.                           *)
(***************************************************************************)
EXTENDS ProcessMonitor, TLC

PIDSymmetry == Permutations(PIDs)

=============================================================================
