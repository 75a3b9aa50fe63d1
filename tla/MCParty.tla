------------------------------ MODULE MCParty ------------------------------
(* Two servers and three joins.                                             *)
EXTENDS Party
=============================================================================
