----------------------------- MODULE MCDashboard -----------------------------
(***************************************************************************)
(* One page that may lose its connection once, and one more event, and one *)
(* more threat, than it has room for.                                      *)
(***************************************************************************)
EXTENDS Dashboard

MCLevel == <<"high", "medium">>
MCEventNo == 1..2
MCClients == 1..2

=============================================================================
