---------------------------- MODULE UiScripting ----------------------------
(***************************************************************************)
(* src/client/component/ui_scripting.cpp: the Lua scripts of mods. Each    *)
(* folder of a mod has an __init__.lua, its root, which the mod runs when  *)
(* the interface starts; what a script requires is looked up beside the    *)
(* root of that script first. Three hooks inside the engine's require pass *)
(* the answer on in globals. The engine's package.loaded, which has one    *)
(* module of a name for all scripts, and the catching of errors by scripts *)
(* are as Lua defines them.                                                *)
(***************************************************************************)
EXTENDS Integers, SequencesExt

CONSTANTS
  Roots,       \* the scripts load_scripts starts, in their order of names
  Modules,     \* names to require
  Files,       \* the pairs of a root and a module with a file beside it
  LuiModules,  \* names that start with ui/LUI/
  NoModule,
  Engine,      \* the root of the engine's own scripts: none
  MaxDepth,    \* calls of scripts within calls
  MaxStarts

ASSUME UiScriptingAssumption ==
  /\ Files \subseteq Roots \X Modules
  /\ LuiModules \subseteq Modules
  /\ Engine \notin Roots
  /\ NoModule \notin Modules

\* A script is the file of a module beside a root, or a root itself.
RootScript(r) == <<r, NoModule>>
EngineScript == <<Engine, NoModule>>

VARIABLES
  running,         \* the Lua state exists
  starting,        \* the roots that start has not run yet
  inRequireScript, \* globals.in_require_script, a root or Engine for ""
  knownScripts,   \* globals.loaded_scripts: pairs of a script and its root
  rawScript,       \* globals.raw_script_name while load_raw_script, or {}
  packages,        \* the engine's package.loaded: by name, what was loaded and for which root
  calls,           \* the scripts that are running, the innermost last
  required,        \* the module being required: NoModule or its name
  found,           \* what the lookup answered: "no", "raw", "asset"
  loaded,          \* the scripts that have run, whose functions can be called
  given,           \* history: the name required last and what the script was given
  starts

globalVars == <<inRequireScript, knownScripts, rawScript>>
requireVars == <<required, found>>
uiVars == <<running, starting, globalVars, packages, calls, requireVars, loaded,
            given, starts>>

\* The script of a module that a root's folder or the engine has
Beside(root, name) == IF <<root, name>> \in Files THEN <<root, name>> ELSE EngineScript

UiInit ==
  /\ running = FALSE /\ starting = {}
  /\ inRequireScript = Engine /\ knownScripts = {} /\ rawScript = {}
  /\ packages = <<>> /\ calls = <<>> /\ required = NoModule /\ found = "no"
  /\ loaded = {} /\ given = [name |-> NoModule, got |-> EngineScript] /\ starts = 0

\* get_root_script: Engine for a script that is not the mod's
RootOf(script) ==
  IF \E p \in knownScripts : p[1] = script
  THEN (CHOOSE p \in knownScripts : p[1] = script)[2] ELSE Engine

----------------------------------------------------------------------------
(* Requiring *)

\* Mutant: a script without a root leaves the requirer of before.
RequireOfMod(root) ==
  inRequireScript' = IF root = Engine THEN inRequireScript ELSE root

SetRequirer(root) == inRequireScript' = root

\* hks_package_require_stub; a name of package.loaded is not looked up: the
\* script is given what it was the first time, whoever asked for it.
Require ==
  /\ calls # <<>> /\ required = NoModule
  /\ \E name \in Modules :
       /\ SetRequirer(RootOf(Last(calls)))
       /\ required' = IF name \in DOMAIN packages THEN NoModule ELSE name
       /\ given' = IF name \in DOMAIN packages THEN [name |-> name, got |-> packages[name].got]
                   ELSE given
  /\ found' = "no"
  /\ UNCHANGED <<running, starting, knownScripts, rawScript, packages, calls, loaded, starts>>

\* An error takes the innermost calls to one that catches it: a script, the
\* pcall of load_script or the engine.
ScriptError ==
  /\ \E k \in 0 .. Len(calls) - 1 : calls' = SubSeq(calls, 1, k)
  /\ required' = NoModule /\ found' = "no"

\* db_find_x_asset_header_stub
FindAsset ==
  /\ required # NoModule /\ found = "no"
  /\ IF \A p \in knownScripts : p[1] # RootScript(inRequireScript) THEN
       found' = "asset" /\ UNCHANGED <<rawScript, required, calls>>
     ELSE IF <<inRequireScript, required>> \in Files THEN
       /\ rawScript' = {<<inRequireScript, required>>} /\ found' = "raw"
       /\ UNCHANGED <<required, calls>>
     ELSE IF required \in LuiModules THEN
       found' = "asset" /\ UNCHANGED <<rawScript, required, calls>>
     ELSE ScriptError /\ UNCHANGED rawScript
  /\ UNCHANGED <<running, starting, inRequireScript, knownScripts, packages, loaded,
                 given, starts>>

\* hks_load_stub; the chunk runs, unless it does not compile.
HksLoad ==
  /\ found # "no"
  /\ LET got == IF rawScript # {} THEN CHOOSE s \in rawScript : TRUE ELSE EngineScript IN
     /\ rawScript' = {}
     /\ knownScripts' = IF rawScript = {} THEN knownScripts
                         ELSE knownScripts \cup {<<got, inRequireScript>>}
     /\ \/ /\ Len(calls) < MaxDepth
           /\ calls' = Append(calls, got) /\ loaded' = loaded \cup {got}
           /\ packages' = [name \in DOMAIN packages \cup {required} |->
                            IF name = required THEN [root |-> Last(calls)[1], got |-> got]
                            ELSE packages[name]]
           /\ given' = [name |-> required, got |-> got]
           /\ required' = NoModule /\ found' = "no"
        \/ /\ got # EngineScript
           /\ ScriptError /\ UNCHANGED <<packages, loaded, given>>
  /\ UNCHANGED <<running, starting, inRequireScript, starts>>

----------------------------------------------------------------------------
(* The life of the interface *)

\* hks_start_stub: globals are reset, the scripts are loaded one by one.
Start ==
  /\ ~running /\ starts < MaxStarts
  /\ running' = TRUE /\ starting' = Roots /\ starts' = starts + 1
  /\ inRequireScript' = Engine /\ knownScripts' = {} /\ rawScript' = {}
  /\ packages' = <<>> /\ loaded' = {EngineScript}
  /\ UNCHANGED <<calls, requireVars, given>>

\* load_script: it is known before it runs; it may not compile.
LoadRoot ==
  /\ running /\ calls = <<>>
  /\ \E r \in starting :
       /\ starting' = starting \ {r}
       /\ knownScripts' = knownScripts \cup {<<RootScript(r), r>>}
       /\ \/ calls' = <<RootScript(r)>> /\ loaded' = loaded \cup {RootScript(r)}
          \/ UNCHANGED <<calls, loaded>>
  /\ UNCHANGED <<running, inRequireScript, rawScript, packages, requireVars,
                 given, starts>>

\* A script calls a function of another; the engine calls one by itself once
\* all have started.
Call ==
  /\ running /\ required = NoModule /\ Len(calls) < MaxDepth
  /\ calls = <<>> => starting = {}
  /\ \E script \in loaded : calls' = Append(calls, script)
  /\ UNCHANGED <<running, starting, globalVars, packages, requireVars, loaded,
                 given, starts>>

Return ==
  /\ calls # <<>> /\ required = NoModule
  /\ calls' = Front(calls)
  /\ UNCHANGED <<running, starting, globalVars, packages, requireVars, loaded,
                 given, starts>>

\* hks_shutdown_stub: also the first half of lui_restart
Shutdown ==
  /\ running /\ calls = <<>> /\ starting = {}
  /\ running' = FALSE
  /\ inRequireScript' = Engine /\ knownScripts' = {} /\ rawScript' = {}
  /\ loaded' = {}
  /\ UNCHANGED <<starting, packages, calls, requireVars, given, starts>>

UiNext == Require \/ FindAsset \/ HksLoad \/ Start \/ LoadRoot \/ Call \/ Return \/ Shutdown

UiSpec == UiInit /\ [][UiNext]_uiVars

----------------------------------------------------------------------------

\* A script that requires a name is given the module beside the root of the script
\* that was first to require it since the interface started, if there is a file,
\* and the engine's otherwise. It is its own mod's when nobody came before it.
RequireIsOfFirst ==
  given.name \in DOMAIN packages =>
    given.got = Beside(packages[given.name].root, given.name)
=============================================================================
