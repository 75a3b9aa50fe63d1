---------------------------- MODULE GameConsole ----------------------------
(***************************************************************************)
(* The in-game console of src/client/component/game_console.cpp: an input  *)
(* line with a history, edited by the key events of the main thread, and   *)
(* an output of at most 512 lines to which any thread prints, both drawn   *)
(* by the renderer's pipeline, which resizes the view and keeps the text   *)
(* that enter executes. Texts are opaque: the cursor, the matching of      *)
(* names and the drawing are left out.                                     *)
(***************************************************************************)
EXTENDS Integers, SequencesExt

CONSTANTS
  Texts,        \* what the input line may hold
  NoText,       \* the empty line
  MaxLines,     \* 512
  HistorySize,  \* 10
  ViewSizes     \* the values of visible_line_count

ASSUME ConsoleAssumption ==
  /\ NoText \notin Texts
  /\ {MaxLines, HistorySize} \subseteq Nat \ {0}
  /\ ViewSizes \subseteq 2 .. MaxLines

VARIABLES
  open, outputVisible,  \* keyCatchers & 1, con.output_visible
  line,                 \* con.buffer
  fixedInput, choice,   \* fixed_input, auto_complete_choice; NoText for none
  mayComplete,          \* may_auto_complete
  history, historyIndex,
  lines,                \* con.output.size()
  view, offset,         \* visible_line_count, display_line_offset
  clearing              \* main is between the two halves of clear

inputVars == <<line, fixedInput, choice, mayComplete>>
historyVars == <<history, historyIndex>>
outputVars == <<lines, view, offset, clearing>>
gameConsoleVars == <<open, outputVisible, inputVars, historyVars, outputVars>>

GameConsoleInit ==
  /\ open = FALSE /\ outputVisible = FALSE
  /\ line = NoText /\ fixedInput = NoText /\ choice = NoText /\ mayComplete = FALSE
  /\ history = <<>> /\ historyIndex = -1
  /\ lines = 0 /\ view = 0 /\ offset = 0 /\ clearing = FALSE

----------------------------------------------------------------------------
(* Output *)

\* Mutant: a view at the end does not follow.
PushLine ==
  /\ lines' = IF lines = MaxLines THEN lines ELSE lines + 1
  /\ UNCHANGED offset

\* A view at the end moves with a new line, at the limit too, where the lines
\* move themselves.
PrintInternal ==
  /\ offset' = IF view > 0 /\ offset = lines - view THEN offset + 1 ELSE offset
  /\ lines' = IF lines = MaxLines THEN lines ELSE lines + 1

\* By any thread
ConsolePrint == PrintInternal /\ UNCHANGED <<open, outputVisible, inputVars, historyVars, view, clearing>>

PageUp ==
  /\ lines > view /\ offset > 0
  /\ offset' = offset - 1

PageDown ==
  /\ lines > view /\ offset < lines - view
  /\ offset' = offset + 1

ScrollOutput ==
  /\ open /\ ~clearing
  /\ PageUp \/ PageDown
  /\ UNCHANGED <<open, outputVisible, inputVars, historyVars, lines, view, clearing>>

----------------------------------------------------------------------------
(* Input *)

\* clear(): the line and what was matched with it
ClearInput(text) == line' = text /\ fixedInput' = NoText /\ UNCHANGED <<choice, mayComplete>>

\* The clear command, and ctrl-c: the offset is reset outside the output's lock.
ClearConsole ==
  /\ ~clearing
  /\ ClearInput(NoText)
  /\ offset' = 0 /\ clearing' = TRUE
  /\ UNCHANGED <<open, outputVisible, historyVars, lines, view>>

ClearOutput ==
  /\ clearing /\ clearing' = FALSE
  /\ lines' = 0
  /\ history' = <<>> /\ historyIndex' = -1
  /\ UNCHANGED <<open, outputVisible, inputVars, view, offset>>

\* The grave key; with shift the output toggles, in an open console.
ToggleConsole ==
  /\ ~clearing
  /\ open' = ~open
  /\ ClearInput(NoText)
  /\ \/ outputVisible' = FALSE
     \/ ~open /\ outputVisible' = TRUE
  /\ UNCHANGED <<historyVars, outputVars>>

ToggleOutput ==
  /\ ~clearing /\ open
  /\ outputVisible' = ~outputVisible
  /\ UNCHANGED <<open, inputVars, historyVars, outputVars>>

\* A character, a paste or a backspace makes the line another text.
Edit ==
  /\ open /\ ~clearing
  /\ line' \in (Texts \cup {NoText}) \ {line}
  /\ UNCHANGED <<open, outputVisible, fixedInput, choice, mayComplete, historyVars, outputVars>>

AutoComplete ==
  /\ open /\ ~clearing /\ mayComplete
  /\ ClearInput(choice)
  /\ UNCHANGED <<open, outputVisible, historyVars, outputVars>>

Recall(index) ==
  /\ open /\ ~clearing
  /\ historyIndex' = index
  /\ ClearInput(IF index = -1 THEN NoText ELSE history[index + 1])
  /\ UNCHANGED <<open, outputVisible, history, outputVars>>

UpArrow == Recall(IF historyIndex + 1 >= Len(history) THEN Len(history) - 1 ELSE historyIndex + 1)
DownArrow == Recall(IF historyIndex = -1 THEN -1 ELSE historyIndex - 1)

\* fixed_input goes to the command buffer, the line to the front of the
\* history, from where it was recalled, and to the output.
Enter ==
  LET recalled == historyIndex # -1 /\ history[historyIndex + 1] = line
      others == IF recalled THEN RemoveAt(history, historyIndex + 1) ELSE history
      longer == <<line>> \o others IN
  /\ open /\ ~clearing
  /\ history' = IF Len(longer) > HistorySize THEN RemoveAt(longer, HistorySize + 1) ELSE longer
  /\ historyIndex' = -1
  /\ PrintInternal
  /\ ClearInput(NoText)
  /\ UNCHANGED <<open, outputVisible, view, clearing>>

----------------------------------------------------------------------------
(* draw_console, by the renderer's pipeline *)

\* An empty line leaves the text and the matches of the one before.
DrawInput ==
  IF line = NoText
  THEN choice' = NoText /\ UNCHANGED <<line, fixedInput, mayComplete>>
  ELSE /\ fixedInput' = line
       /\ choice' \in Texts \cup {NoText}
       /\ mayComplete' = (choice' # NoText)
       /\ UNCHANGED line

DrawConsole ==
  /\ view' \in ViewSizes
  /\ IF open THEN DrawInput ELSE UNCHANGED inputVars
  /\ UNCHANGED <<open, outputVisible, historyVars, lines, offset, clearing>>

GameConsoleNext ==
  \/ ConsolePrint \/ ScrollOutput
  \/ ClearConsole \/ ClearOutput
  \/ ToggleConsole \/ ToggleOutput
  \/ Edit \/ AutoComplete \/ UpArrow \/ DownArrow \/ Enter
  \/ DrawConsole

GameConsoleSpec == GameConsoleInit /\ [][GameConsoleNext]_gameConsoleVars
----------------------------------------------------------------------------
(* Properties *)

NewestVisible == lines \in offset + 1 .. offset + view

\* Who sees the newest line sees those printed after it, whichever thread
\* prints, at the limit of the output and after the view was resized, and
\* loses it only by paging up, by a clear or by a smaller view. The first line
\* after a clear may be missed: another thread's print between its two halves
\* leaves the offset at one (game_console.cpp:442).
FollowsNewest ==
  [][view' = view /\ offset' >= offset /\ lines > 0 /\ lines' > 0 /\ NewestVisible
       => NewestVisible']_gameConsoleVars
=============================================================================
