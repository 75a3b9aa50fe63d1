----------------------------- MODULE MCContent -----------------------------
(* The components that make what the player reads out of files, or keep it,  *)
(* side by side: two processes of one installation that update it, with two *)
(* listed files and a stray one; the scripts of two levels, one of them     *)
(* with a copy in both search paths and a reference to a library; the       *)
(* interface scripts of two mods that have a module of the same name; the   *)
(* translation of two places' texts; the in-game console; dvars and cheats;  *)
(* the formats of the online services.                                      *)
EXTENDS Updater, Scripts, UiScripting, Language, GameConsole, Dvars, Buffers

CONSTANTS
  ra, rb, util, menu,                    \* roots and modules
  a, b, lib, e, path1, path2, l1, l2, h1, h2, h3, h4

VARIABLE component  \* the one that runs

MCFiles == {<<ra, util>>, <<rb, util>>, <<rb, menu>>}

MCRefs == (a :> {lib}) @@ (b :> {}) @@ (lib :> {}) @@ (e :> {})
MCFolder == (a :> AnyLevel) @@ (b :> l1) @@ (lib :> NoLevel) @@ (e :> NoLevel)
MCPaths == <<path1, path2>>
MCHeap == <<h1, h2, h3, h4>>
MCSourceFiles ==
  {(path1 :> ((a :> x) @@ (b :> v) @@ (lib :> z) @@ (e :> w)))
   @@ (path2 :> ((a :> y) @@ (b :> "absent") @@ (lib :> "absent") @@ (e :> "absent"))) :
     v \in {"broken", "good"}, w \in {"broken", "good"},
     x \in {"absent", "broken", "good"}, y \in {"absent", "good"},
     z \in {"absent", "broken"}}

\* Bits that end in the middle of a byte, and bytes that look like markers
Bits(n) == {k \in Bit : (n \div 2^k) % 2 = 1}
MCBitFields ==
  {[kind |-> "bool", value |-> <<Bits(v)>>] : v \in {0, 1}}
  \cup {[kind |-> k, value |-> <<Bits(129), Bits(2), Bits(254), Bits(90)>>] : k \in {"int32", "uint32"}}
  \cup {[kind |-> "bytes", value |-> v] : v \in {<<Bits(131)>>, <<Bits(7), Bits(224)>>}}
MCByteFields ==
  {[kind |-> k, value |-> [i \in 1 .. Fixed[k] |-> 16 + i]] : k \in DOMAIN Fixed}
  \cup {[kind |-> "string", value |-> v] : v \in {<<>>, <<65, 66>>}}
  \cup {[kind |-> "blob", value |-> v] : v \in {<<>>, <<0, 19, 8>>}}
  \cup {[kind |-> "array", value |-> <<n>>] : n \in {1, 70000}}

MCInit ==
  /\ component \in {"updater", "scripts", "ui_scripting", "language", "game_console", "dvars", "byte_buffer", "bit_buffer"}
  /\ UpdaterInit /\ ScriptsInit /\ UiInit /\ LanguageInit /\ GameConsoleInit
  /\ DvarsInit /\ ByteInit /\ BitInit
  /\ component # "scripts" => level = l1 /\ sources = CHOOSE s \in MCSourceFiles : TRUE
  /\ component # "dvars" => dediServer /\ ~cheats
  /\ component # "byte_buffer" => types
  /\ component # "bit_buffer" => bitTypes

MCNext ==
  /\ UNCHANGED component
  /\ \/ component = "updater" /\ UpdaterNext
        /\ UNCHANGED <<scriptVars, uiVars, languageVars, gameConsoleVars, dvarVars, byteVars, bitVars>>
     \/ component = "scripts" /\ ScriptsNext
        /\ UNCHANGED <<updaterVars, uiVars, languageVars, gameConsoleVars, dvarVars, byteVars, bitVars>>
     \/ component = "ui_scripting" /\ UiNext
        /\ UNCHANGED <<updaterVars, scriptVars, languageVars, gameConsoleVars, dvarVars, byteVars, bitVars>>
     \/ component = "language" /\ LanguageNext
        /\ UNCHANGED <<updaterVars, scriptVars, uiVars, gameConsoleVars, dvarVars, byteVars, bitVars>>
     \/ component = "game_console" /\ GameConsoleNext
        /\ UNCHANGED <<updaterVars, scriptVars, uiVars, languageVars, dvarVars, byteVars, bitVars>>
     \/ component = "dvars" /\ DvarsNext
        /\ UNCHANGED <<updaterVars, scriptVars, uiVars, languageVars, gameConsoleVars, byteVars, bitVars>>
     \/ component = "byte_buffer" /\ ByteNext
        /\ UNCHANGED <<updaterVars, scriptVars, uiVars, languageVars, gameConsoleVars, dvarVars, bitVars>>
     \/ component = "bit_buffer" /\ BitNext
        /\ UNCHANGED <<updaterVars, scriptVars, uiVars, languageVars, gameConsoleVars, dvarVars, byteVars>>

MCSpec ==
  /\ MCInit
  /\ [][MCNext]_<<component, updaterVars, scriptVars, uiVars, languageVars, gameConsoleVars, dvarVars, byteVars, bitVars>>
=============================================================================
