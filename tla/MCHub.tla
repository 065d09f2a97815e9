-------------------------------- MODULE MCHub --------------------------------
(***************************************************************************)
(* The hub with a channel that is soon full and two clients.  Liveness is  *)
(* checked in the same run as safety, so the clients are not symmetric.    *)
(***************************************************************************)
EXTENDS Hub

=============================================================================
