------------------------------ MODULE Language ------------------------------
(***************************************************************************)
(* src/client/component/language.cpp with language.txt = schinese: the     *)
(* text of loaded assets is patched when fastfiles load and by a loop, and *)
(* a monitor switches the hook of SL_ConvertToString on and off around the *)
(* loading of maps. All on the main thread, but for the engine's loading:  *)
(* an asset is there when DB_LoadXAssets returns, or with DB_LOAD_ASYNC    *)
(* comes later. The engine gives the place of a freed asset to a later     *)
(* one. The files of translations are read once and are constants; the     *)
(* videos' tracing is left out.                                            *)
(***************************************************************************)
EXTENDS Integers, SequencesExt

CONSTANTS
  Places,      \* addresses of LocalizeEntry assets
  Keys,        \* their names
  Translated,  \* those in translations_cache
  NoKey        \* of a free place

ASSUME LanguageAssumption == Translated \subseteq Keys /\ NoKey \notin Keys

VARIABLES
  keyAt,       \* per place: the name of the asset there
  chinese,     \* the places whose value is patched
  over,        \* pairs of places: the asset in the first was loaded after the one
               \* in the second, and of one name DB_FindXAssetHeader finds the last
  subtitles,   \* the cells of the subtitle table that sl_reverse has: "none",
               \* "english", "late" (in english, come as late has it), "chinese"
  seen,        \* lentry_patched_addrs
  late,        \* history: the places of assets that came after the load and were
               \* not patched since
  hooked,      \* on_game_initialized has run
  subtitleTask,  \* a patch_subtitle_csv of the monitor is scheduled
  slActive,    \* g_sl_hook_active
  svTime,      \* g_sv_loaded_time: "unset", "set", "due" from ten seconds on
  ffOld,       \* g_last_fastfile_time is thirty seconds ago
  wasLoaded,   \* the static of the monitor
  svLoaded,    \* SV_Loaded
  loading      \* the engine loads a map and verifies it

assetVars == <<keyAt, chinese, over, subtitles, seen, late>>
timeVars == <<svTime, ffOld, wasLoaded>>
engineVars == <<svLoaded, loading>>
languageVars == <<assetVars, hooked, subtitleTask, slActive, timeVars, engineVars>>

LanguageInit ==
  /\ keyAt = [p \in Places |-> NoKey] /\ chinese = {} /\ over = {}
  /\ subtitles = "none" /\ seen = {} /\ late = {}
  /\ hooked = FALSE /\ subtitleTask = FALSE /\ slActive = FALSE
  /\ svTime = "unset" /\ ffOld = FALSE /\ wasLoaded = FALSE
  /\ svLoaded = FALSE /\ loading = FALSE

----------------------------------------------------------------------------
(* Patching: the assets are keys, as loaded, with patched those in chinese *)

\* DB_FindXAssetHeader(key), as a set
Found(keys, newer, key) ==
  LET named == {p \in Places : keys[p] = key}
  IN {p \in named : \A q \in named \ {p} : <<p, q>> \in newer}

\* patch_localize_assets skips the addresses it patched before.
NewEntries(keys) == {p \in Places \ seen : keys[p] \in Translated}

\* patch_all_localize_assets_via_find
FoundEntries(keys, newer) == UNION {Found(keys, newer, key) : key \in Translated}

\* Mutant: the assets that are found by name are not patched.
PatchNewOnly(keys, newer, patched) ==
  /\ chinese' = patched \cup NewEntries(keys)
  /\ seen' = seen \cup NewEntries(keys) /\ late' = {}

PatchAll(keys, newer, patched) ==
  /\ chinese' = patched \cup NewEntries(keys) \cup FoundEntries(keys, newer)
  /\ seen' = seen \cup NewEntries(keys) /\ late' = {}

\* patch_subtitle_csv
PatchSubtitles(table) == IF table = "none" THEN "none" ELSE "chinese"

Used == {p \in Places : keyAt[p] # NoKey}

\* DB_LoadXAssets frees zones and loads others; then the stub patches.
LoadXAssets ==
  \E freed \in SUBSET Used :
  \E taken \in SUBSET (Places \ (Used \ freed)) :
  \E loaded \in [taken -> Keys] :
  \E table \in {"none", "english"} :
    LET kept == Used \ freed
        keys == [p \in Places |-> IF p \in taken THEN loaded[p]
                                  ELSE IF p \in freed THEN NoKey ELSE keyAt[p]]
        patched == chinese \ (freed \cup taken) IN
    /\ keyAt' = keys
    /\ \E new \in SetToSeqs(taken) :
         over' = (over \cap (kept \X kept)) \cup (taken \X kept)
                 \cup {c \in taken \X taken :
                         \E i \in DOMAIN new, j \in DOMAIN new : i > j /\ c = <<new[i], new[j]>>}
    /\ IF hooked
       THEN /\ PatchAll(keys, over', patched)
            /\ subtitles' = PatchSubtitles(table)
            /\ ffOld' = FALSE
       ELSE chinese' = patched /\ subtitles' = table /\ UNCHANGED <<seen, late, ffOld>>
    /\ UNCHANGED <<hooked, subtitleTask, slActive, svTime, wasLoaded, engineVars>>

\* A load that goes on after DB_LoadXAssets returned; before the hook it makes no
\* difference when the asset comes.
AssetArrives ==
  /\ hooked
  /\ \/ \E p \in Places \ Used, key \in Keys :
          /\ keyAt' = [q \in Places |-> IF q = p THEN key ELSE keyAt[q]]
          /\ over' = over \cup ({p} \X Used)
          /\ chinese' = chinese \ {p} /\ late' = late \cup {p}
          /\ UNCHANGED subtitles
     \/ /\ subtitles' = "late"
        /\ UNCHANGED <<keyAt, over, chinese, late>>
  /\ UNCHANGED <<seen, hooked, subtitleTask, slActive, timeVars, engineVars>>

\* on_game_initialized: patches, hooks and starts the monitor and the loop.
OnGameInitialized ==
  /\ ~hooked /\ hooked' = TRUE
  /\ PatchAll(keyAt, over, chinese)
  /\ subtitles' = PatchSubtitles(subtitles)
  /\ ffOld' = FALSE
  /\ UNCHANGED <<keyAt, over, subtitleTask, slActive, svTime, wasLoaded, engineVars>>

\* The loop of three seconds
PatchLoop ==
  /\ hooked
  /\ chinese' = chinese \cup NewEntries(keyAt) /\ seen' = seen \cup NewEntries(keyAt)
  /\ late' = late \ NewEntries(keyAt)
  /\ UNCHANGED <<keyAt, over, subtitles, hooked, subtitleTask, slActive, timeVars, engineVars>>

\* Ten seconds after the monitor switched the hook on, whatever was loaded since
SubtitleTask ==
  /\ subtitleTask /\ subtitleTask' = FALSE
  /\ subtitles' = PatchSubtitles(subtitles)
  /\ UNCHANGED <<keyAt, chinese, over, seen, late, hooked, slActive, timeVars, engineVars>>

----------------------------------------------------------------------------
(* The monitor of SV_Loaded, and the clock *)

Monitor ==
  LET exited == wasLoaded /\ ~svLoaded
      active == slActive /\ ~exited
      time == IF exited THEN "unset" ELSE svTime
      set == IF svLoaded /\ time = "unset" THEN "set" ELSE time IN
  /\ hooked
  /\ wasLoaded' = svLoaded
  /\ IF active
     THEN slActive' = TRUE /\ svTime' = time /\ UNCHANGED subtitleTask
     ELSE /\ svTime' = set
          /\ slActive' = (set = "due" \/ ffOld)
          /\ subtitleTask' = (subtitleTask \/ slActive')
  /\ UNCHANGED <<assetVars, hooked, ffOld, engineVars>>

TimePasses ==
  /\ \/ svTime = "set" /\ svTime' = "due" /\ UNCHANGED ffOld
     \/ hooked /\ ~ffOld /\ ffOld' = TRUE /\ UNCHANGED svTime
  /\ UNCHANGED <<assetVars, hooked, subtitleTask, slActive, wasLoaded, engineVars>>

\* The engine leaves one map, and loads the next.
MapExits ==
  /\ svLoaded /\ svLoaded' = FALSE
  /\ UNCHANGED <<assetVars, hooked, subtitleTask, slActive, timeVars, loading>>

MapLoads ==
  /\ ~svLoaded
  /\ loading' = ~loading
  /\ svLoaded' = loading
  /\ UNCHANGED <<assetVars, hooked, subtitleTask, slActive, timeVars>>

LanguageNext ==
  \/ LoadXAssets \/ AssetArrives \/ OnGameInitialized \/ PatchLoop \/ SubtitleTask
  \/ Monitor \/ TimePasses \/ MapExits \/ MapLoads

LanguageSpec == LanguageInit /\ [][LanguageNext]_languageVars
----------------------------------------------------------------------------
(* Properties *)

\* What the game looks up by name is translated, though an asset whose place
\* an earlier one had is taken for patched, and though one zone's asset may
\* come to light again when the zone that covered it is freed. Not so what
\* comes after DB_LoadXAssets returned: that is translated by the loop if its
\* place is a new one, and by the next load else.
ShownIsTranslated ==
  hooked => /\ FoundEntries(keyAt, over) \subseteq chinese \cup late
            /\ subtitles # "english"

\* language.cpp:274: while a map is loaded and verified, the hook of
\* SL_ConvertToString is transparent.
TransparentWhileLoading == loading => ~slActive
=============================================================================
