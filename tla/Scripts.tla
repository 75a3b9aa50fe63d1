------------------------------ MODULE Scripts ------------------------------
(***************************************************************************)
(* The game's scripts: src/client/component/gsc/script_loading.cpp,        *)
(* scripting.cpp, the functions replaced by scripts of notifies.cpp and    *)
(* the search paths of filesystem.cpp, on the multiplayer server thread.   *)
(* The engine loads the scripts of a level, which load the scripts they    *)
(* refer to, and asks find_script for each; the mod adds the ones of its   *)
(* folders and runs their main and init. A function is one of a script's,  *)
(* known by the address of its script; the compiler is its verdict. What    *)
(* db_is_x_asset_default does with a custom script whose name the compiler  *)
(* has a token for is left out: such a script is in a fastfile too, and not *)
(* the default under either name.                                           *)
(***************************************************************************)
EXTENDS Integers, SequencesExt

CONSTANTS
  Scripts,
  EngineScripts,   \* of them, those the engine loads for every level
  InZone,          \* those a fastfile holds compiled
  RawFiles,        \* those a fastfile holds as source
  Refs,            \* [Scripts -> SUBSET Scripts]: what each refers to
  Folder,          \* [Scripts -> the level they are for, AnyLevel or NoLevel]
  AnyLevel, NoLevel,
  LevelNames,
  HasMain, HasInit,
  SearchPaths,     \* the paths startup registers, the one read first in front
  Heap,            \* addresses in the order the engine's allocator gives them
  SourceFiles,           \* the files there may be: "absent", "broken", "good"
  MaxLevels, MaxEdits, MaxHooks

\* Every level has scripts of the engine's; the folders are listed after the first of
\* them was looked for, and so after the paths were registered.
ASSUME ScriptsAssumption ==
  /\ IsFiniteSet(Scripts) /\ InZone \subseteq Scripts /\ RawFiles \subseteq Scripts
  /\ EngineScripts \subseteq InZone /\ EngineScripts # {}
  /\ SearchPaths \in Seq(ToSet(SearchPaths))
  /\ Len(Heap) >= Cardinality(Scripts)
  /\ SourceFiles \subseteq [ToSet(SearchPaths) -> [Scripts -> {"absent", "broken", "good"}]]

VARIABLES
  searchPaths,     \* empty until the first file is read
  sources,
  stage,           \* where the engine is: "off", "link", "custom", "ready",
                   \* "mains", "inits", "play"
  level, lobby,    \* mapname, VirtualLobby_Loaded
  requests,        \* the scripts that are still to be loaded by name
  linking,         \* the scripts being linked, each loaded for the one before
  linked,          \* the engine's table of scripts
  loadedScripts,   \* [real name -> address]
  functionTable,   \* [file -> address]
  mains, inits,    \* main_handles, init_handles
  hooks,           \* vm_execute_hooks
  left,            \* the handles still to be run
  ran,             \* how often main and init of each script ran in this level
  promised,        \* the scripts this level was to run
  levels, edits    \* bounded counts

fileVars == <<searchPaths, sources>>
levelVars == <<stage, level, lobby>>
linkVars == <<requests, linking, linked>>
codeVars == <<loadedScripts, functionTable>>
handleVars == <<mains, inits>>
runVars == <<left, ran>>
countVars == <<levels, edits>>
scriptVars == <<fileVars, levelVars, linkVars, codeVars, handleVars, hooks,
                runVars, promised, countVars>>

Never == [s \in Scripts |-> 0]
NeverRan == [main |-> Never, init |-> Never]

ScriptsInit ==
  /\ searchPaths = <<>> /\ sources \in SourceFiles
  /\ stage = "off" /\ level \in LevelNames /\ lobby = FALSE
  /\ requests = <<>> /\ linking = <<>> /\ linked = {}
  /\ loadedScripts = <<>> /\ functionTable = <<>>
  /\ mains = <<>> /\ inits = <<>> /\ hooks = <<>>
  /\ left = {} /\ ran = NeverRan /\ promised = {}
  /\ levels = 0 /\ edits = 0

----------------------------------------------------------------------------
(* Files *)

\* read_raw_script_file: the text in the first path that has the file, or the
\* raw file of a fastfile, which compiles
ReadFile(s) ==
  LET at == SelectInSeq(searchPaths', LAMBDA p : sources[p][s] # "absent") IN
  IF at # 0 THEN sources[searchPaths'[at]][s]
  ELSE IF s \in RawFiles THEN "good" ELSE "absent"

\* check_for_startup
CheckForStartup == searchPaths' = SearchPaths

\* load_scripts: the scripts of the folders of this level, path by path
ScriptFiles ==
  LET of(p, f) == SetToSeq({s \in Scripts : Folder[s] = f /\ sources[p][s] # "absent"})
  IN FlattenSeq([i \in DOMAIN searchPaths |->
                   of(searchPaths[i], AnyLevel) \o of(searchPaths[i], level)])

----------------------------------------------------------------------------
(* Loading *)

\* load_custom_script, then the asset of the fastfile, in find_script
Compiles(s) == s \in DOMAIN loadedScripts \/ ReadFile(s) = "good"
Finds(s) == Compiles(s) \/ s \in InZone

\* Where the code of s is once it is found: the one in a fastfile is known
\* by its script.
CodeOf(s) ==
  IF s \in DOMAIN loadedScripts THEN loadedScripts[s]
  ELSE IF ReadFile(s) = "good" THEN Heap[Cardinality(DOMAIN loadedScripts) + 1]
  ELSE s

With(f, key, value) == [k \in DOMAIN f \cup {key} |-> IF k = key THEN value ELSE f[k]]

\* process_script_stub and scr_set_thread_position_stub, then the engine goes
\* on with what the script refers to.
ProcessScript(s) ==
  /\ Finds(s)
  /\ loadedScripts' = IF Compiles(s) THEN With(loadedScripts, s, CodeOf(s))
                      ELSE loadedScripts
  /\ functionTable' = With(functionTable, s, CodeOf(s))
  /\ linked' = linked \cup {s}
  /\ linking' = Append(linking, [script |-> s, refs |-> Refs[s] \ {s}])

\* load_script: by name, from a folder; the engine's own have no handles.
\* main_handles[name] and init_handles[name] of what Scr_LoadScript has loaded
LoadScript ==
  /\ requests # <<>> /\ linking = <<>>
  /\ CheckForStartup
  /\ LET s == Head(requests) IN
     \/ /\ s \in linked
        /\ requests' = Tail(requests)
        /\ mains' = IF stage = "custom" /\ s \in HasMain
                    THEN With(mains, s, functionTable[s]) ELSE mains
        /\ inits' = IF stage = "custom" /\ s \in HasInit
                    THEN With(inits, s, functionTable[s]) ELSE inits
        /\ UNCHANGED <<linking, linked, codeVars>>
     \/ /\ s \notin linked /\ ProcessScript(s)
        /\ UNCHANGED <<requests, handleVars>>
     \/ /\ s \notin linked /\ ~Finds(s)
        /\ requests' = Tail(requests)
        /\ UNCHANGED <<linking, linked, codeVars, handleVars>>
  /\ UNCHANGED <<sources, levelVars, hooks, runVars, promised, countVars>>

\* LinkFile: the next script the one on top refers to, or that one is done.
LinkFile ==
  /\ linking # <<>>
  /\ CheckForStartup
  /\ LET top == Last(linking)
         without(r) == Front(linking) \o <<[top EXCEPT !.refs = @ \ {r}]>> IN
     \/ /\ top.refs = {}
        /\ linking' = Front(linking)
        /\ UNCHANGED <<linked, codeVars>>
     \/ \E r \in top.refs \cap linked :
          linking' = without(r) /\ UNCHANGED <<linked, codeVars>>
     \/ \E r \in top.refs \ linked : ProcessScript(r)
  /\ UNCHANGED <<sources, levelVars, requests, handleVars, hooks, runVars, promised,
                 countVars>>

----------------------------------------------------------------------------
(* The life of a level *)

\* Mutant: the handles of the level's scripts outlive it.
ClearCacheOnly == loadedScripts' = <<>> /\ UNCHANGED handleVars

\* clear of script_loading.cpp
ClearLoading == loadedScripts' = <<>> /\ mains' = <<>> /\ inits' = <<>>

\* Mutant: the callback of notifies.cpp is missing.
KeepHooks == UNCHANGED hooks

ClearHooks == hooks' = <<>>

\* g_shutdown_game_stub(TRUE): tables, callbacks, then the engine frees the code.
ShutdownGame ==
  /\ functionTable' = <<>> /\ ClearHooks /\ ClearLoading
  /\ linked' = {} /\ linking' = <<>> /\ requests' = <<>>
  /\ left' = {} /\ ran' = NeverRan /\ promised' = {}
  /\ stage' = "off"

\* compile_error_stub and find_variable_stub: a script that is referred to is
\* nowhere, or it is linked and has not the function, as any may; ERR_DROP
CompileError ==
  /\ linking # <<>>
  /\ CheckForStartup
  /\ \E r \in Last(linking).refs : r \in linked \/ ~Finds(r)
  /\ ShutdownGame
  /\ UNCHANGED <<sources, level, lobby, countVars>>

\* scr_begin_load_scripts_stub, then the scripts of the engine
BeginLoadScripts ==
  /\ stage = "off" /\ levels < MaxLevels
  /\ levels' = levels + 1
  /\ level' \in LevelNames /\ lobby' \in BOOLEAN
  /\ stage' = "link" /\ requests' = SetToSeq(EngineScripts)
  /\ UNCHANGED <<fileVars, linking, linked, codeVars, handleVars, hooks, runVars,
                 promised, edits>>

\* What the folders of a level promise: a script with a file is run when the
\* file in the first path that has one compiles, or a fastfile has it too.
Promise ==
  {s \in Scripts :
     /\ Folder[s] \in {AnyLevel, level}
     /\ \E i \in DOMAIN SearchPaths :
          /\ sources[SearchPaths[i]][s] # "absent"
          /\ \A j \in 1 .. i - 1 : sources[SearchPaths[j]][s] = "absent"
          /\ sources[SearchPaths[i]][s] = "good" \/ s \in InZone}

\* gscr_post_load_scripts_stub
PostLoadScripts ==
  /\ stage = "link" /\ requests = <<>> /\ linking = <<>>
  /\ stage' = "custom"
  /\ requests' = IF lobby THEN <<>> ELSE ScriptFiles
  /\ promised' = IF lobby THEN {} ELSE Promise
  /\ UNCHANGED <<fileVars, level, lobby, linking, linked, codeVars, handleVars,
                 hooks, runVars, countVars>>

\* scr_end_load_scripts_stub
EndLoadScripts ==
  /\ stage = "custom" /\ requests = <<>> /\ linking = <<>>
  /\ stage' = "ready"
  /\ UNCHANGED <<fileVars, level, lobby, linkVars, codeVars, handleVars, hooks,
                 runVars, promised, countVars>>

\* g_load_structs_stub
LoadStructs ==
  /\ stage = "ready"
  /\ stage' = "mains" /\ left' = IF lobby THEN {} ELSE DOMAIN mains
  /\ UNCHANGED <<fileVars, level, lobby, linkVars, codeVars, handleVars, hooks,
                 ran, promised, countVars>>

\* scr_load_level_multiplayer_stub, after the engine's own level script
LoadLevel ==
  /\ stage = "mains" /\ left = {}
  /\ stage' = "inits" /\ left' = IF lobby THEN {} ELSE DOMAIN inits
  /\ UNCHANGED <<fileVars, level, lobby, linkVars, codeVars, handleVars, hooks,
                 ran, promised, countVars>>

\* set_gsc_hook, by replacefunc of a script with two functions it can name
ReplaceFunc ==
  \E source, target \in {functionTable[s] : s \in DOMAIN functionTable} :
    /\ source # target
    /\ hooks' = With(hooks, source, target)
    /\ Cardinality(DOMAIN hooks') <= MaxHooks

\* Scr_ExecThread of a handle
RunMain ==
  /\ stage = "mains"
  /\ \E s \in left :
       /\ left' = left \ {s}
       /\ ran' = [ran EXCEPT !.main[s] = @ + 1]
       /\ ReplaceFunc \/ UNCHANGED hooks
  /\ UNCHANGED <<fileVars, levelVars, linkVars, codeVars, handleVars, promised,
                 countVars>>

RunInit ==
  /\ stage = "inits"
  /\ \E s \in left :
       /\ left' = left \ {s}
       /\ ran' = [ran EXCEPT !.init[s] = @ + 1]
  /\ UNCHANGED <<fileVars, levelVars, linkVars, codeVars, handleVars, hooks,
                 promised, countVars>>

LevelRuns ==
  /\ stage = "inits" /\ left = {}
  /\ stage' = "play"
  /\ UNCHANGED <<fileVars, level, lobby, linkVars, codeVars, handleVars, hooks,
                 runVars, promised, countVars>>

\* fast_restart: g_shutdown_game_stub(FALSE), and the same scripts run again
FastRestart ==
  /\ stage = "play" /\ levels < MaxLevels
  /\ levels' = levels + 1
  /\ stage' = "ready" /\ ran' = NeverRan
  /\ UNCHANGED <<fileVars, level, lobby, linkVars, codeVars, handleVars, hooks,
                 left, promised, edits>>

EndLevel ==
  /\ stage = "play"
  /\ ShutdownGame
  /\ UNCHANGED <<fileVars, level, lobby, countVars>>

\* Somebody changes a file while no level loads.
EditFile ==
  /\ stage \in {"off", "play"} /\ edits < MaxEdits
  /\ edits' = edits + 1
  /\ \E p \in ToSet(SearchPaths), s \in Scripts, text \in {"absent", "broken", "good"} :
       sources' = [sources EXCEPT ![p][s] = text]
  /\ UNCHANGED <<searchPaths, levelVars, linkVars, codeVars, handleVars, hooks,
                 runVars, promised, levels>>

ScriptsNext ==
  \/ BeginLoadScripts \/ LoadScript \/ LinkFile \/ CompileError
  \/ PostLoadScripts \/ EndLoadScripts \/ LoadStructs \/ RunMain \/ LoadLevel
  \/ RunInit \/ LevelRuns \/ FastRestart \/ EndLevel \/ EditFile

ScriptsSpec == ScriptsInit /\ [][ScriptsNext]_scriptVars

----------------------------------------------------------------------------

\* When a level runs, main and init of each script its folders promised have
\* run once, and nobody else's: files that do not compile, doubled files,
\* other levels' scripts and restarts included.
RunsItsScripts ==
  stage = "play" =>
    \A s \in Scripts :
      /\ ran.main[s] = IF s \in promised \cap HasMain THEN 1 ELSE 0
      /\ ran.init[s] = IF s \in promised \cap HasInit THEN 1 ELSE 0

\* Nothing points to code the engine has freed: the handles, the table of
\* functions and the replaced functions lie in scripts that are linked, each
\* in its own.
PointsIntoLinkedCode ==
  LET at(s) == IF s \in DOMAIN loadedScripts THEN loadedScripts[s] ELSE s
      live == {at(s) : s \in linked}
  IN /\ \A s \in DOMAIN functionTable : s \in linked /\ functionTable[s] = at(s)
     /\ \A s \in DOMAIN mains : mains[s] = at(s) /\ s \in linked
     /\ \A s \in DOMAIN inits : inits[s] = at(s) /\ s \in linked
     /\ DOMAIN hooks \cup {hooks[a] : a \in DOMAIN hooks} \subseteq live
=============================================================================
