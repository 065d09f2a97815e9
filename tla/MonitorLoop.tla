----------------------------- MODULE MonitorLoop -----------------------------
(***************************************************************************)
(* What the agent relies on in each of its two monitors: a loop that waits *)
(* in select, handles one thing at a time, and ends only between two of    *)
(* them, after Stop has cancelled its context.                             *)
(***************************************************************************)
VARIABLES
  loop,       \* "none", "idle" (in select), "busy" or "exited"
  cancelled

loopVars == <<loop, cancelled>>

LoopInit == loop = "none" /\ cancelled = FALSE

LoopGoes(from, to) == loop = from /\ loop' = to /\ UNCHANGED cancelled

Cancel == cancelled' = TRUE /\ UNCHANGED loop

LoopNext ==
  \/ LoopGoes("none", "idle")
  \/ LoopGoes("idle", "busy")
  \/ LoopGoes("busy", "idle")
  \/ cancelled /\ LoopGoes("idle", "exited")
  \/ Cancel

LoopSpec == LoopInit /\ [][LoopNext]_loopVars

=============================================================================
