---------------------------- MODULE MCServerList ----------------------------
(* Two servers on pages of one row, asked one per frame.                    *)
EXTENDS ServerList
=============================================================================
