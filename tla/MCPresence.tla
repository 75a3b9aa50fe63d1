----------------------------- MODULE MCPresence -----------------------------
(* ipc.cpp and discord.cpp together: two connections, and of the inputs     *)
(* that do not meet in the code either claims of the card and changes of    *)
(* presence, or one invite.                                                 *)
EXTENDS LauncherIpc

VARIABLE inputs

MCInit == inputs \in {"claims", "invites"} /\ Init

MCNext ==
  /\ Next /\ UNCHANGED inputs
  /\ inputs = "claims" => UNCHANGED <<gameVars, inviteVars>>
  /\ inputs = "invites" => ~wireOwns' /\ UNCHANGED presence

MCSpec == MCInit /\ [][MCNext]_<<inputs, vars>> /\ Fairness /\ DiscordFairness
=============================================================================
