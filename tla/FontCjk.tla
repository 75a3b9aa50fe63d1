------------------------------ MODULE FontCjk ------------------------------
(***************************************************************************)
(* src/client/component/font_cjk.cpp with language.txt = schinese and a    *)
(* baked font: the texture of the game's font image and the glyphs of the  *)
(* registered fonts are replaced by whichever thread comes first, the one  *)
(* that sets up the image, the one that draws text and registers fonts, or *)
(* the async pipeline after game initialization. Nothing locks them out of *)
(* what they share. A font registered or injected while another thread     *)
(* goes through the fonts may move the containers away, and a texture that *)
(* another thread took back is a null pointer: either ends the program.    *)
(* The images of other fonts, that get the texture after it, are left out. *)
(***************************************************************************)
EXTENDS Integers

CONSTANTS
  Fonts,
  MaxRefusals  \* how often Direct3D refuses the texture or its view

ASSUME FontCjkAssumption == MaxRefusals \in Nat

Initializers == {"async", "draw", "images"}

VARIABLES
  image,        \* gamefonts_pc: "absent", or with the texture of the "game" or "cjk"
  atlas,        \* cjk_atlas_tex is set
  view,         \* cjk_atlas_srv is set
  registered,   \* registered_fonts
  injected,     \* injected_fonts, those whose glyphs are replaced
  ready,
  step,         \* of each thread: "idle", "create", "view", "attach", "test",
                \* "inject", and of images "again"
  toInject,     \* the fonts each has not come to
  early,        \* images is in try_early_cjk_init
  drawing,      \* the font of the text being drawn, or none, as a set
  retry,        \* init_after_game_load is due on the async pipeline
  refusals,
  undone,       \* history: the atlas was taken back from a thread that had seen it
  crashed

textureVars == <<image, atlas, view, refusals, undone>>
initVars == <<step, toInject, early>>
textVars == <<registered, injected, drawing>>
fontVars == <<textureVars, initVars, textVars, ready, retry, crashed>>

FontCjkInit ==
  /\ image = "absent" /\ atlas = FALSE /\ view = FALSE
  /\ registered = {} /\ injected = {} /\ drawing = {}
  /\ step = [t \in Initializers |-> "idle"] /\ toInject = [t \in Initializers |-> {}]
  /\ early = FALSE /\ ready = FALSE /\ retry = TRUE
  /\ refusals = 0 /\ undone = FALSE /\ crashed = FALSE

GoTo(t, next) == step' = [step EXCEPT ![t] = next]

\* images goes on to the second half of its hook.
LeaveHook(t) == GoTo(t, IF t = "images" /\ early THEN "again" ELSE "idle")

----------------------------------------------------------------------------
(* replace_font_atlas_texture, of the image as it is loaded *)

ReplaceTexture(t, loaded) ==
  GoTo(t, IF loaded = "absent" \/ (atlas /\ loaded = "cjk") THEN "test"
          ELSE IF atlas THEN "attach" ELSE "create")

\* The device refuses t, which leaves a null pointer: another thread that took
\* the texture for good has none now.
Refuse(t) ==
  /\ refusals < MaxRefusals /\ refusals' = refusals + 1
  /\ atlas' = FALSE
  /\ undone' = (undone \/ ready \/ \E u \in Initializers \ {t} : step[u] = "inject")
  /\ GoTo(t, "test")

CreateTexture(t) ==
  /\ step[t] = "create"
  /\ \/ atlas' = TRUE /\ GoTo(t, "view") /\ UNCHANGED <<refusals, undone>>
     \/ Refuse(t)
  /\ UNCHANGED <<image, view, crashed>>

\* CreateShaderResourceView of whatever the texture is by now
CreateView(t) ==
  /\ step[t] = "view"
  /\ \/ atlas /\ view' = TRUE /\ GoTo(t, "attach") /\ UNCHANGED <<atlas, refusals, undone, crashed>>
     \/ atlas /\ view' = FALSE /\ Refuse(t) /\ UNCHANGED crashed
     \/ ~atlas /\ crashed' = TRUE /\ UNCHANGED <<atlas, view, refusals, undone, step>>
  /\ UNCHANGED image

Attach(t) ==
  /\ step[t] = "attach"
  /\ IF atlas THEN image' = "cjk" /\ GoTo(t, "test") /\ UNCHANGED crashed
     ELSE crashed' = TRUE /\ UNCHANGED <<image, step>>
  /\ UNCHANGED <<atlas, view, refusals, undone>>

----------------------------------------------------------------------------
(* try_early_cjk_init and init_after_game_load *)

\* Mutant: without the texture there is no second attempt.
TestOrGiveUp(t) ==
  /\ step[t] = "test"
  /\ IF atlas /\ (early \/ t # "images")
     THEN GoTo(t, "inject") /\ toInject' = [toInject EXCEPT ![t] = registered]
     ELSE LeaveHook(t) /\ UNCHANGED toInject
  /\ UNCHANGED retry

\* if (!cjk_atlas_tex): only init_after_game_load tries again.
Test(t) ==
  /\ step[t] = "test"
  /\ IF atlas /\ (early \/ t # "images")
     THEN GoTo(t, "inject") /\ toInject' = [toInject EXCEPT ![t] = registered]
     ELSE LeaveHook(t) /\ UNCHANGED toInject
  /\ retry' = (retry \/ (~atlas /\ t # "images"))

\* Another thread goes through the fonts.
Contended(t) == \E u \in Initializers \ {t} : step[u] = "inject"

\* inject_cjk_glyphs_into_font
Inject(t) ==
  /\ \E f \in toInject[t] :
       /\ injected' = injected \cup {f}
       /\ toInject' = [toInject EXCEPT ![t] = @ \ {f}]
  /\ crashed' \in {FALSE, Contended(t)}
  /\ UNCHANGED <<step, ready>>

BecomeReady(t) ==
  /\ step[t] = "inject" /\ toInject[t] = {}
  /\ ready' = TRUE
  /\ LeaveHook(t)
  /\ UNCHANGED <<toInject, injected, crashed>>

\* The rest of image_setup_stub
Again ==
  /\ step["images"] = "again"
  /\ early' = FALSE
  /\ IF ready /\ view THEN ReplaceTexture("images", image) ELSE GoTo("images", "idle")

\* The next step of a thread that is in one of the two
InitStep(t) ==
  /\ ~crashed
  /\ \/ CreateTexture(t) /\ UNCHANGED <<toInject, early, textVars, ready, retry>>
     \/ CreateView(t) /\ UNCHANGED <<toInject, early, textVars, ready, retry>>
     \/ Attach(t) /\ UNCHANGED <<toInject, early, textVars, ready, retry>>
     \/ Test(t) /\ UNCHANGED <<textureVars, early, textVars, ready, crashed>>
     \/ (Inject(t) \/ BecomeReady(t)) /\ UNCHANGED <<textureVars, early, registered, drawing, retry>>
     \/ t = "images" /\ Again /\ UNCHANGED <<textureVars, toInject, textVars, ready, retry, crashed>>

----------------------------------------------------------------------------
(* The three threads come to them *)

\* on_game_initialized, and each retry after it
AsyncInit ==
  /\ ~crashed /\ retry /\ step["async"] = "idle"
  /\ retry' = FALSE
  /\ IF ready THEN UNCHANGED step ELSE ReplaceTexture("async", image)
  /\ UNCHANGED <<textureVars, toInject, early, textVars, ready, crashed>>

\* image_setup_stub, each time the image is loaded
ImageSetup ==
  /\ ~crashed /\ step["images"] = "idle"
  /\ image' = "game"
  /\ early' = ~ready
  /\ IF ready THEN GoTo("images", "again") ELSE ReplaceTexture("images", "game")
  /\ UNCHANGED <<atlas, view, refusals, undone, toInject, textVars, ready, retry, crashed>>

\* r_register_font_stub, on the thread that draws
RegisterFont ==
  /\ ~crashed /\ drawing = {}
  /\ \E f \in Fonts \ registered :
       /\ registered' = registered \cup {f}
       /\ injected' = IF ready THEN injected \cup {f} ELSE injected
  /\ crashed' \in {FALSE, Contended("draw")}
  /\ UNCHANGED <<textureVars, initVars, drawing, ready, retry>>

\* r_add_cmd_draw_text_stub and the one with a cursor
DrawText ==
  /\ ~crashed /\ drawing = {}
  /\ \E f \in registered : drawing' = {f}
  /\ IF ready THEN UNCHANGED step ELSE ReplaceTexture("draw", image)
  /\ UNCHANGED <<textureVars, toInject, early, registered, injected, ready, retry, crashed>>

TextDrawn ==
  /\ ~crashed /\ drawing # {} /\ step["draw"] = "idle"
  /\ injected' = IF ready /\ view THEN injected \cup drawing ELSE injected
  /\ crashed' \in {FALSE, ready /\ view /\ Contended("draw")}
  /\ drawing' = {}
  /\ UNCHANGED <<textureVars, initVars, registered, ready, retry>>

FontCjkNext ==
  \/ AsyncInit \/ ImageSetup \/ RegisterFont \/ DrawText \/ TextDrawn
  \/ \E t \in Initializers : InitStep(t)

\* The threads run; the image need not be set up again, nor text drawn.
FontCjkFairness ==
  WF_fontVars(AsyncInit) /\ \A t \in Initializers : WF_fontVars(InitStep(t))

FontCjkSpec == FontCjkInit /\ [][FontCjkNext]_fontVars /\ FontCjkFairness

----------------------------------------------------------------------------

\* Once the image of the game's fonts is there, the font gets ready with a view
\* of its texture, without which no Chinese text is drawn, whichever threads
\* came too early and however often the device refused one. Two ends are left
\* out: the races above that end the program, and a refusal that takes the
\* texture back from a thread which goes on with it. That one makes the font
\* ready without a view, and nothing tries again then.
CjkBecomesReady == image # "absent" ~> (ready /\ view) \/ undone \/ crashed
=============================================================================
