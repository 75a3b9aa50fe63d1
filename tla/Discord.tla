------------------------------ MODULE Discord ------------------------------
(***************************************************************************)
(* src/client/component/discord.cpp in multiplayer: the native card, which *)
(* goes silent while the launcher shows its own, and the joins that come   *)
(* from invites. Everything but the two assignments at the end, which are  *)
(* for the IPC thread, runs on the main thread. The mutexes and the atomic *)
(* make each access one step. process_pending_route looks at the route,    *)
(* then takes it under a second lock: the IPC thread may replace it in     *)
(* between, but nothing else clears it, so that is a replacement before.   *)
(***************************************************************************)
EXTENDS Integers, SequencesExt

CONSTANT MaxInvites  \* bound on the invites of a run

ASSUME MaxInvitesAssumption == MaxInvites \in Nat

VARIABLES
  wireOwns,      \* wire_launcher_owns
  owns,          \* effective_launcher_owns
  silent,        \* presence_silent
  release,       \* "none", "pending", or "due" from release_deadline on
  card,          \* the Discord service shows the native card
  claimSeen,     \* history: a tick ran since the launcher claimed the card
  pendingRoute,  \* pending_route: the number of an invite, 0 if empty
  initialized,   \* game_initialized
  synced,        \* Live_SyncOnlineDataFlags(0) == 0
  arrived,       \* history: how many invites came, each gets the next number
  joined         \* history: the invites routed to connect or begin_join

ownershipVars == <<wireOwns, owns, silent, release, card, claimSeen>>
gameVars == <<initialized, synced>>
inviteVars == <<pendingRoute, arrived, joined>>
discordVars == <<ownershipVars, gameVars, inviteVars>>

DiscordInit ==
  /\ wireOwns = FALSE /\ owns = FALSE /\ silent = FALSE /\ release = "none"
  /\ card = FALSE /\ claimSeen = FALSE
  /\ pendingRoute = 0
  /\ initialized = FALSE /\ synced = FALSE
  /\ arrived = 0 /\ joined = <<>>

----------------------------------------------------------------------------
(* Ownership of the card *)

Claim ==
  /\ wireOwns
  /\ release' = "none" /\ owns' = TRUE
  /\ IF owns THEN UNCHANGED <<silent, card>> ELSE silent' = TRUE /\ card' = FALSE

\* Mutant: every tick sets the deadline, not the first one only.
ReleaseRestarts ==
  /\ ~wireOwns /\ owns
  /\ release' = "pending"
  /\ UNCHANGED <<owns, silent, card>>

Release ==
  /\ ~wireOwns /\ owns
  /\ CASE release = "none"    -> release' = "pending" /\ UNCHANGED <<owns, silent>>
       [] release = "due"     -> release' = "none" /\ owns' = FALSE /\ silent' = FALSE
       [] release = "pending" -> UNCHANGED <<release, owns, silent>>
  /\ UNCHANGED card

OwnershipTick ==
  /\ Claim \/ Release
  /\ claimSeen' = wireOwns
  /\ UNCHANGED <<wireOwns, gameVars, inviteVars>>

\* OWNERSHIP_RELEASE_GRACE passes.
GraceEnds ==
  /\ release = "pending"
  /\ release' = "due"
  /\ UNCHANGED <<wireOwns, owns, silent, card, claimSeen, gameVars, inviteVars>>

UpdateDiscord ==
  /\ ~silent
  /\ card' = TRUE
  /\ UNCHANGED <<wireOwns, owns, silent, release, claimSeen, gameVars, inviteVars>>

\* Mutant: a reconnection primes a card whoever owns it.
ReadyAlways ==
  /\ card' = TRUE
  /\ UNCHANGED <<wireOwns, owns, silent, release, claimSeen, gameVars, inviteVars>>

\* The ready callback: Discord connected, perhaps once more.
Ready ==
  /\ card' = (card \/ ~silent)
  /\ UNCHANGED <<wireOwns, owns, silent, release, claimSeen, gameVars, inviteVars>>

----------------------------------------------------------------------------
(* Invites *)

JoinReady == initialized /\ synced

RouteJoin(source, invite) == joined' = Append(joined, [source |-> source, invite |-> invite])

\* Discord_RunCallbacks calls join_game and process_pending_join drains it in
\* the same task, ready or not; an invalid secret is only reported.
NativeJoin ==
  /\ arrived < MaxInvites
  /\ arrived' = arrived + 1
  /\ RouteJoin("native", arrived + 1) \/ UNCHANGED joined
  /\ UNCHANGED <<ownershipVars, gameVars, pendingRoute>>

\* Mutant: the route is copied, not moved out.
RouteKept ==
  /\ pendingRoute # 0 /\ JoinReady /\ Len(joined) < MaxInvites + 1
  /\ RouteJoin("launcher", pendingRoute)
  /\ UNCHANGED <<ownershipVars, gameVars, arrived, pendingRoute>>

\* Mutant: the route is moved out first, then the game is not ready.
TakeThenTest ==
  /\ pendingRoute # 0
  /\ pendingRoute' = 0
  /\ IF JoinReady THEN RouteJoin("launcher", pendingRoute) ELSE UNCHANGED joined
  /\ UNCHANGED <<ownershipVars, gameVars, arrived>>

ProcessPendingRoute ==
  /\ pendingRoute # 0 /\ JoinReady
  /\ RouteJoin("launcher", pendingRoute)
  /\ pendingRoute' = 0
  /\ UNCHANGED <<ownershipVars, gameVars, arrived>>

\* scheduler::on_game_initialized fires when the online data is synced.
GameInitialized ==
  /\ ~initialized /\ synced
  /\ initialized' = TRUE
  /\ UNCHANGED <<ownershipVars, inviteVars, synced>>

SyncChanges ==
  /\ synced' = ~synced
  /\ UNCHANGED <<ownershipVars, inviteVars, initialized>>

----------------------------------------------------------------------------
DiscordNext ==
  \/ OwnershipTick \/ GraceEnds \/ UpdateDiscord \/ Ready
  \/ NativeJoin \/ ProcessPendingRoute \/ GameInitialized \/ SyncChanges

\* Called by the IPC thread.
SetLauncherPresenceOwner(launcherOwns) ==
  wireOwns' = launcherOwns /\ claimSeen' = (claimSeen /\ launcherOwns)

QueueJoin ==
  /\ arrived < MaxInvites
  /\ arrived' = arrived + 1
  /\ pendingRoute' = arrived + 1

\* What any thread may do to this module.
Calls ==
  \/ /\ \E launcherOwns \in BOOLEAN : SetLauncherPresenceOwner(launcherOwns)
     /\ UNCHANGED <<owns, silent, release, card, gameVars, inviteVars>>
  \/ QueueJoin /\ UNCHANGED <<ownershipVars, gameVars, joined>>

DiscordSpec == DiscordInit /\ [][DiscordNext \/ Calls]_discordVars

\* The main thread's loops run, the grace period passes.
DiscordFairness ==
  /\ WF_discordVars(OwnershipTick) /\ WF_discordVars(GraceEnds)
  /\ WF_discordVars(UpdateDiscord) /\ WF_discordVars(ProcessPendingRoute)

FairDiscordSpec == DiscordSpec /\ DiscordFairness
----------------------------------------------------------------------------
(* Properties of the joins and of the card *)

\* Two cards never last: from the first tick after the launcher's claim on,
\* which is 250 ms later, the native card is off until the claim is withdrawn,
\* whatever grace period was running, and whether Discord reconnects or a
\* presence update is due meanwhile. Until that tick both may be shown.
NoSecondCard == claimSeen => ~card

\* Every invite of the launcher is joined at most once, and never after a
\* newer one of the launcher: the slot holds the newest only.
InvitesInOrder ==
  \A i, j \in DOMAIN joined :
    i < j /\ joined[i].source = "launcher" /\ joined[j].source = "launcher"
      => joined[i].invite < joined[j].invite

\* When the game is and stays ready, a queued invite is joined or superseded;
\* what is queued during the load is not forgotten.
QueuedInviteJoins ==
  <>[]JoinReady =>
    \A n \in 1 .. MaxInvites :
      pendingRoute = n ~> (pendingRoute > n \/ \E j \in ToSet(joined) : j.invite = n)

=============================================================================
