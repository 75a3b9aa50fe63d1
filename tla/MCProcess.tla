----------------------------- MODULE MCProcess -----------------------------
(* The components that share nothing but the process, side by side: a       *)
(* behaviour takes the steps of one of them, which is all that its          *)
(* properties can see of a run of the others.                               *)
EXTENDS Lifecycle, MapRotation, Discord, FontCjk

CONSTANTS m1, m2, missing, dm, war

VARIABLE component  \* the one that runs

MCRotations == {<<Gametype(war), Map(m1), Map(m2)>>, <<Gametype(war)>>, <<Map(missing)>>}

MCInit ==
  /\ component \in {"lifecycle", "map_rotation", "discord", "font_cjk"}
  /\ LifeInit /\ DiscordInit /\ MapInit /\ FontCjkInit
  /\ component # "lifecycle" => headless /\ dedicated
  /\ component # "map_rotation" => random /\ gametype = dm

MCNext ==
  /\ UNCHANGED component
  /\ \/ component = "lifecycle" /\ LifeNext
        /\ UNCHANGED <<mapVars, discordVars, fontVars>>
     \/ component = "map_rotation" /\ MapNext
        /\ UNCHANGED <<lifeVars, discordVars, fontVars>>
     \/ component = "discord" /\ (DiscordNext \/ Calls)
        /\ UNCHANGED <<lifeVars, mapVars, fontVars>>
     \/ component = "font_cjk" /\ FontCjkNext
        /\ UNCHANGED <<lifeVars, mapVars, discordVars>>

Lives == component = "lifecycle"
Rotates == component = "map_rotation"
Shows == component = "discord"
Draws == component = "font_cjk"

\* LifeFairness, MapFairness, DiscordFairness and FontCjkFairness, of the component that runs
MCFairness ==
  /\ WF_lifeVars(Lives /\ PostUnpack) /\ WF_lifeVars(Lives /\ MainFrame)
  /\ WF_lifeVars(Lives /\ (RconReply \/ RconError))
  /\ WF_lifeVars(Lives /\ (RunnerStarts \/ RunnerTakes \/ RunnerPrints \/ RunnerEnds))
  /\ WF_lifeVars(Lives /\ WindowEnds)
  /\ \A t \in Threads :
       /\ WF_lifeVars(Lives /\ Joined(t)) /\ WF_lifeVars(Lives /\ Exit(t))
       /\ WF_lifeVars(Lives /\ Enqueue(t))
  /\ WF_mapVars(Rotates /\ Execute) /\ WF_mapVars(Rotates /\ Poll)
  /\ WF_mapVars(Rotates /\ WaitingRotation)
  /\ \A m \in Maps : WF_mapVars(Rotates /\ DelayedMap(m))
  /\ WF_discordVars(Shows /\ OwnershipTick) /\ WF_discordVars(Shows /\ GraceEnds)
  /\ WF_discordVars(Shows /\ UpdateDiscord) /\ WF_discordVars(Shows /\ ProcessPendingRoute)
  /\ WF_fontVars(Draws /\ AsyncInit)
  /\ \A t \in Initializers : WF_fontVars(Draws /\ InitStep(t))

MCSpec ==
  /\ MCInit
  /\ [][MCNext]_<<component, lifeVars, mapVars, discordVars, fontVars>>
  /\ MCFairness
=============================================================================
