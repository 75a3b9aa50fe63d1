----------------------------- MODULE MCDemonware -----------------------------
(* One tcp and one udp handle, each closed and used again: a login, its     *)
(* requests and a reconnect, or a few datagrams to two servers.             *)
EXTENDS Demonware

CONSTANTS us, eu

MCOrder == <<"auth", "lobby", us, eu>>
MCBudgets == {[packets |-> 5, datagrams |-> 0], [packets |-> 1, datagrams |-> 2]}
=============================================================================
