-------------------------- MODULE MCLanServerList --------------------------
(* Two servers on pages of one row, two joins by address.                   *)
EXTENDS LanServerList
=============================================================================
