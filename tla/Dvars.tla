------------------------------- MODULE Dvars -------------------------------
(***************************************************************************)
(* Who may change a dvar: the checks of component/dvar_cheats.cpp before   *)
(* every change, and component/dvars.cpp, which drops or replaces what the *)
(* engine itself sets. The engine sets the value when the checks let it,   *)
(* on the same thread and at once; two threads that change dvars at the    *)
(* same time are left out, for the repository does not show which do.      *)
(***************************************************************************)
EXTENDS Integers

CONSTANTS
  CheatDvars, ReplicatedDvars, ReadDvars,  \* by flag: DVAR_FLAG_CHEAT, _REPLICATED, _READ or _WRITE
  Dvars,
  Disabled,     \* names in dvars::disable
  Replaced,     \* names in dvars::override::set_*
  MaxSets       \* bound on the changes tried

ASSUME DvarAssumption ==
  /\ CheatDvars \cup ReplicatedDvars \cup ReadDvars \cup Disabled \cup Replaced \subseteq Dvars
  /\ MaxSets \in Nat

\* DvarSetSource
Sources == {"internal", "external", "script", "servercmd"}

\* The value registered, the one an override names, and any other.
Values == {"reset", "replacement", "other"}

VARIABLES
  dediServer,  \* environment::is_dedi
  clientSide,  \* cl_ingame and not sv_running: the server's dvars rule
  cheats,      \* sv_cheats
  value,
  setBy,       \* history: the source of each value
  sets         \* history: how many changes

dvarVars == <<dediServer, clientSide, cheats, value, setBy, sets>>

DvarsInit ==
  /\ dediServer \in BOOLEAN /\ clientSide = FALSE
  /\ cheats \in BOOLEAN  \* on in debug builds
  /\ value = [d \in Dvars |-> "reset"] /\ setBy = [d \in Dvars |-> "internal"]
  /\ sets = 0

----------------------------------------------------------------------------
(* dvar_cheats.cpp *)

\* dvar_flag_checks, made unless the source is internal
FlagsAllow(read, replicated, cheat, source) ==
  /\ ~read
  /\ source = "external" => ~(replicated /\ clientSide) /\ (cheat => cheats)

\* Dvar_Reset, which passes the checks again as an internal change
ResetCheatDvars ==
  /\ value' = [d \in Dvars |-> IF d \in CheatDvars THEN "reset" ELSE value[d]]
  /\ setBy' = [d \in Dvars |-> IF d \in CheatDvars THEN "internal" ELSE setBy[d]]

\* Mutant: whether the value changes is tested after it was set.
SetCheatsFirst(source, enabled) ==
  LET own == dediServer /\ source = "internal"
      allowed == source = "internal" \/ FlagsAllow(FALSE, TRUE, FALSE, source) IN
  /\ cheats' = IF allowed /\ ~own THEN enabled ELSE cheats
  /\ IF ~own /\ cheats' /\ ~enabled THEN ResetCheatDvars ELSE UNCHANGED <<value, setBy>>

\* A change of sv_cheats. The dvars are reset before the flags are checked,
\* thus also when the change is refused.
SetCheats(source, enabled) ==
  LET own == dediServer /\ source = "internal"
      allowed == source = "internal" \/ FlagsAllow(FALSE, TRUE, FALSE, source) IN
  /\ IF ~own /\ cheats /\ ~enabled THEN ResetCheatDvars ELSE UNCHANGED <<value, setBy>>
  /\ cheats' = IF allowed /\ ~own THEN enabled ELSE cheats

\* A change of any other dvar
SetDvar(d, source, v) ==
  /\ source = "internal"
     \/ FlagsAllow(d \in ReadDvars, d \in ReplicatedDvars, d \in CheatDvars, source)
  /\ value' = [value EXCEPT ![d] = v]
  /\ setBy' = [setBy EXCEPT ![d] = source]
  /\ UNCHANGED cheats

----------------------------------------------------------------------------
(* dvars.cpp: the engine's Dvar_SetBool, -Float, -Int and -String *)

EngineSets(d, v) ==
  /\ d \notin Disabled
  /\ SetDvar(d, "internal", IF d \in Replaced THEN "replacement" ELSE v)

\* A script's, the console's or the server's change by name; the server's
\* messages name a dvar and count as external, or come as commands of their own.
ByName(d, source, v) == SetDvar(d, source, v)

Change ==
  /\ sets < MaxSets /\ sets' = sets + 1
  /\ \/ \E d \in Dvars, v \in {"reset", "other"} :
          EngineSets(d, v) \/ \E source \in Sources \ {"internal"} : ByName(d, source, v)
     \/ \E source \in Sources, enabled \in BOOLEAN : SetCheats(source, enabled)
  /\ UNCHANGED <<dediServer, clientSide>>

\* The engine enters and leaves the game of another server.
ChangeSide ==
  /\ ~dediServer
  /\ clientSide' = ~clientSide
  /\ UNCHANGED <<dediServer, cheats, value, setBy, sets>>

DvarsNext == Change \/ ChangeSide

DvarsSpec == DvarsInit /\ [][DvarsNext]_dvarVars
----------------------------------------------------------------------------
(* Properties *)

\* While cheats are off no cheat dvar holds what the console or a server's
\* message gave it, whoever turned them off and wherever the game was played.
CheatsAreReset == ~cheats => \A d \in CheatDvars : setBy[d] # "external"
=============================================================================
