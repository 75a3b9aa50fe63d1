---------------------------- MODULE MapRotation ----------------------------
(***************************************************************************)
(* How a dedicated server gets from map to map: the rotation of            *)
(* src/client/component/map_rotation.cpp and start_map of party.cpp, all   *)
(* on the main thread. Between the end of a level and the next map lie the *)
(* command buffer of the engine, which takes new commands at its end, and  *)
(* tasks of the scheduler that wait for the online data.                   *)
(***************************************************************************)
EXTENDS Integers, SequencesExt

CONSTANTS
  Maps,        \* maps that exist
  DefaultMap,  \* mp_venus or mp_zombie_lab
  Lobby,       \* mp_vlobby_room
  Gametypes,
  Rotations,   \* what sv_mapRotation and sv_mapRotationCurrent parse to
  MaxPending,  \* bound on commands and tasks under way when new ones come
  MaxInputs    \* bound on the inputs of admin and game in a run

ASSUME RotationAssumption == DefaultMap \in Maps /\ Lobby \notin Maps

\* Entries, commands and maps to start are pairs of a kind and a value.
Map(m) == <<"map", m>>
Gametype(g) == <<"gametype", g>>
MapRotate == <<"map_rotate", DefaultMap>>
MapRestart == <<"map_restart", DefaultMap>>
IsMap(entry) == entry[1] = "map"

VARIABLES
  sync,        \* Live_SyncOnlineDataFlags: "ready" (0), "settling" (to 32), "busy"
  commands,    \* the command buffer
  delayed,     \* the bag of maps start_map put off
  waiting,     \* how many perform_map_rotation are put off
  polls,       \* how many loops of trigger_map_rotation
  cgame,       \* CL_IsCgameInitialized, of interest while a loop polls it
  configured,  \* sv_mapRotation: whether it is empty, and what it parses to
  rotation, index, loaded,  \* dedicated_rotation, the static of load_rotation
  current,     \* sv_mapRotationCurrent
  random,      \* sv_randomMapRotation
  gametype, mapname,  \* g_gametype, mapname
  running,     \* SV_Loaded and no lobby
  due,         \* history: a level was left and no map came since
  inputs       \* history: how many

rotationVars == <<configured, rotation, index, loaded, current, random, gametype>>
serverVars == <<mapname, running, due>>
mapVars == <<sync, commands, delayed, waiting, polls, cgame, rotationVars, serverVars, inputs>>

\* The values of the two dvars; a string may parse to nothing.
Unset == [set |-> FALSE, entries |-> <<>>]
Settings == {Unset} \cup {[set |-> TRUE, entries |-> entries] : entries \in Rotations \cup {<<>>}}

MapInit ==
  /\ sync = "busy" /\ commands = <<>> /\ delayed = EmptyBag
  /\ waiting = 0 /\ polls = 0 /\ cgame = FALSE
  /\ configured = Unset /\ rotation = <<>> /\ index = 0 /\ loaded = FALSE
  /\ current = Unset /\ random \in BOOLEAN
  /\ gametype \in Gametypes /\ mapname = Lobby
  /\ running = FALSE /\ due = FALSE
  /\ inputs = 0

----------------------------------------------------------------------------
(* map_rotation.cpp; rest are the commands left in the buffer *)

LaunchMap(m, rest) == commands' = Append(rest, Map(m))

LaunchDefaultMap(rest) ==
  LaunchMap(IF mapname = Lobby THEN DefaultMap ELSE mapname, rest)

\* The entries that get_next_entry yields in one round from index i.
Round(entries, i) == SubSeq(entries, i + 1, Len(entries)) \o SubSeq(entries, 1, i)

\* Entries are taken up to the first map, gametypes set on the way; a map that
\* does not exist, or none, launches the default. next is the index after.
ApplyRotation(entries, i, next, rest) ==
  LET round == Round(entries, i)
      at == SelectInSeq(round, IsMap)
      taken == IF at = 0 THEN Len(round) ELSE at
      types == {k \in 1 .. taken : ~IsMap(round[k])} IN
  /\ next = (i + taken) % Len(entries)
  /\ gametype' = IF types = {} THEN gametype ELSE round[Max(types)][2]
  /\ IF at # 0 /\ round[at][2] \in Maps
     THEN LaunchMap(round[at][2], rest)
     ELSE LaunchDefaultMap(rest)

\* Taken once, then cleared, before the rotation proper.
ApplyMapRotationCurrent(rest) ==
  /\ current' = Unset
  /\ IF current.entries = <<>>
     THEN LaunchDefaultMap(rest) /\ UNCHANGED gametype
     ELSE \E next \in 0 .. Len(current.entries) - 1 : ApplyRotation(current.entries, 0, next, rest)
  /\ UNCHANGED <<rotation, index, loaded>>

Randomize(entries) ==
  IF random
  THEN {[k \in DOMAIN entries |-> entries[p[k]]] : p \in {q \in [DOMAIN entries -> DOMAIN entries] : IsInjective(q)}}
  ELSE {entries}

\* The string is parsed the first time it is not empty, and never again; the
\* rotation is shuffled each time it is random, with the index where it was.
ApplyMapRotation(rest) ==
  LET parsed == IF loaded THEN rotation ELSE configured.entries IN
  /\ loaded' = (loaded \/ configured.set)
  /\ IF parsed = <<>>
     THEN rotation' = parsed /\ LaunchDefaultMap(rest) /\ UNCHANGED <<index, gametype>>
     ELSE \E shuffled \in Randomize(parsed) :
            rotation' = shuffled
            /\ index' \in 0 .. Len(parsed) - 1
            /\ ApplyRotation(shuffled, index, index', rest)
  /\ UNCHANGED current

Rotate(rest) ==
  /\ IF current.set THEN ApplyMapRotationCurrent(rest) ELSE ApplyMapRotation(rest)
  /\ UNCHANGED waiting

\* Mutant: without online data there is no rotation.
PerformOrGiveUp(rest) ==
  /\ IF sync # "ready"
     THEN commands' = rest /\ UNCHANGED <<waiting, rotation, index, loaded, current, gametype>>
     ELSE Rotate(rest)
  /\ UNCHANGED <<delayed, configured, random, serverVars>>

PerformMapRotation(rest) ==
  /\ IF sync # "ready"
     THEN /\ waiting' = waiting + 1 /\ commands' = rest
          /\ UNCHANGED <<rotation, index, loaded, current, gametype>>
     ELSE Rotate(rest)
  /\ UNCHANGED <<delayed, configured, random, serverVars>>

\* GScr_ExitLevel: trigger_map_rotation
ExitLevel ==
  /\ running
  /\ polls' = polls + 1 /\ due' = TRUE
  /\ UNCHANGED <<sync, commands, delayed, waiting, cgame, rotationVars, mapname, running>>

\* The loop goes on while a cgame is initialized.
Poll ==
  /\ polls > 0 /\ ~cgame
  /\ polls' = polls - 1
  /\ commands' = Append(commands, MapRotate)
  /\ UNCHANGED <<sync, delayed, waiting, cgame, rotationVars, serverVars, inputs>>

----------------------------------------------------------------------------
(* party.cpp *)

StartMap(m, rest) ==
  /\ IF sync = "busy"
     THEN delayed' = delayed (+) SetToBag({m}) /\ commands' = rest /\ UNCHANGED serverVars
     ELSE /\ UNCHANGED delayed
          /\ IF m \notin Maps
             THEN commands' = rest /\ UNCHANGED serverVars
             ELSE IF m = mapname /\ running
             THEN commands' = Append(rest, MapRestart) /\ UNCHANGED serverVars
             ELSE commands' = rest /\ mapname' = m /\ running' = TRUE /\ due' = FALSE
  /\ UNCHANGED <<waiting, rotationVars>>

\* map_restart and fast_restart
RestartMap(rest) ==
  /\ commands' = rest
  /\ due' = (due /\ ~running)
  /\ UNCHANGED <<delayed, waiting, rotationVars, mapname, running>>

\* The engine takes the next command.
Execute ==
  /\ commands # <<>>
  /\ LET command == Head(commands) rest == Tail(commands) IN
     CASE command[1] = "map" -> StartMap(command[2], rest)
       [] command = MapRotate -> PerformMapRotation(rest)
       [] command = MapRestart -> RestartMap(rest)
  /\ UNCHANGED <<sync, polls, cgame, inputs>>

\* The task of start_map, a second later
DelayedMap(m) ==
  /\ BagIn(m, delayed)
  /\ delayed' = delayed (-) SetToBag({m})
  /\ LaunchMap(m, commands)
  /\ UNCHANGED <<sync, waiting, polls, cgame, rotationVars, serverVars, inputs>>

\* The task of perform_map_rotation, which puts itself off again
WaitingRotation ==
  /\ waiting > 0
  /\ IF sync # "ready"
     THEN UNCHANGED <<commands, waiting, rotation, index, loaded, current, gametype>>
     ELSE /\ IF current.set THEN ApplyMapRotationCurrent(commands) ELSE ApplyMapRotation(commands)
          /\ waiting' = waiting - 1
  /\ UNCHANGED <<sync, delayed, polls, cgame, configured, random, serverVars, inputs>>

----------------------------------------------------------------------------
(* The admin, the configuration and the online data *)

Command(command) ==
  /\ commands' = Append(commands, command)
  /\ UNCHANGED <<sync, delayed, waiting, polls, cgame, rotationVars, serverVars>>

SetDvars ==
  /\ \/ /\ configured' \in Settings
        /\ UNCHANGED <<current, gametype>>
     \/ /\ current' \in Settings
        /\ UNCHANGED <<configured, gametype>>
     \/ /\ gametype' \in Gametypes
        /\ UNCHANGED <<configured, current>>
  /\ UNCHANGED <<sync, commands, delayed, waiting, polls, cgame, rotation, index, loaded, random, serverVars>>

\* killserver; the engine is back in the lobby
KillServer ==
  /\ running
  /\ running' = FALSE /\ due' = FALSE
  /\ UNCHANGED <<sync, commands, delayed, waiting, polls, cgame, rotationVars, mapname>>

Input ==
  /\ inputs < MaxInputs /\ inputs' = inputs + 1
  /\ Len(commands) + BagCardinality(delayed) + waiting + polls < MaxPending
  /\ \/ \E command \in {MapRotate, MapRestart} \cup {Map(m) : m \in Maps} : Command(command)
     \/ SetDvars
     \/ ExitLevel
     \/ KillServer

SyncData ==
  /\ sync' \in {"ready", "settling", "busy"} \ {sync}
  /\ UNCHANGED <<commands, delayed, waiting, polls, cgame, rotationVars, serverVars, inputs>>

CgameChanges ==
  /\ polls > 0 /\ cgame' = ~cgame
  /\ UNCHANGED <<sync, commands, delayed, waiting, polls, rotationVars, serverVars, inputs>>

MapNext ==
  \/ Input \/ SyncData \/ CgameChanges \/ Execute \/ Poll \/ WaitingRotation
  \/ \E m \in BagToSet(delayed) : DelayedMap(m)

\* Frames go on: the buffer and the scheduler are run.
MapFairness ==
  /\ WF_mapVars(Execute) /\ WF_mapVars(Poll) /\ WF_mapVars(WaitingRotation)
  /\ \A m \in Maps : WF_mapVars(DelayedMap(m))

MapSpec == MapInit /\ [][MapNext]_mapVars /\ MapFairness
----------------------------------------------------------------------------
(* Properties *)

\* A level that was left leads to a map, by way of the loop, the rotation and
\* the start that each wait for the online data, once those stay ready and the
\* cgame is gone.
LevelExitRotates == <>[](sync = "ready" /\ ~cgame) => (due ~> ~due)
=============================================================================
