----------------------------- MODULE Lifecycle -----------------------------
(***************************************************************************)
(* The life of the process: main.cpp starts it by way of the stages of     *)
(* loader/component_loader.cpp, the hooks of ExitProcess end it from any   *)
(* of the game's threads. In between, the messages of console.cpp go from  *)
(* those threads to the two threads of the console window, to stdout when  *)
(* headless, or, while a dedicated server runs a command of rcon.cpp, to   *)
(* the admin who sent it. An error of the game in such a command leaves it *)
(* by a longjmp (ERR_DROP). What calls printf goes to the window at once,  *)
(* past the queue (print_stub), and is left out, as are the pre_destroy of *)
(* scheduler, ipc and demonware, which are in their own modules.           *)
(***************************************************************************)
EXTENDS Integers, SequencesExt

CONSTANTS
  Main,         \* the game's main thread
  Workers,      \* other threads of the game
  Admins,       \* addresses that send rcon requests
  Nobody,       \* no address
  MaxMessages,  \* bound on the messages of a run
  MaxRequests   \* bound on its rcon requests

ASSUME LifecycleAssumption ==
  Main \notin Workers /\ Nobody \notin Admins /\ {MaxMessages, MaxRequests} \subseteq Nat

Threads == {Main} \cup Workers
Silence == <<>>

VARIABLES
  headless, dedicated,  \* flags of the command line
  stage,      \* of main: "post_start", "launcher", "load", "post_load", "boot", "game"
  handled,    \* whether pre_destroy has begun
  leaving,    \* per thread: "no", "joining" in pre_destroy, "exiting"
  ended,      \* the process is gone
  started, terminate,  \* started_, terminate_runner_
  runner,     \* Console IO: "none", "waiting", "idle", "printing", "done"
  window,     \* Console Window: "none", "open", "done"
  quit,       \* a quit in the command buffer
  count,      \* history: messages dispatched, which numbers them
  writing,    \* per thread: its message past the test of redirect, as a sequence
  queue, batch, shown,  \* message_queue_, the runner's copy, the console's text
  target, redirectBuffer,  \* redirect_target_, Nobody when not redirecting
  rcon,       \* main runs a command of rcon
  requests,   \* history: how many there were
  since,      \* history: count at the last setup_redirect
  replies,    \* history: the replies sent
  dropped     \* history: a command of rcon was left by an error

processVars == <<headless, dedicated, stage>>
exitVars == <<handled, leaving, ended>>
consoleVars == <<started, terminate, runner, window, quit>>
messageVars == <<count, writing, queue, batch, shown>>
rconVars == <<target, redirectBuffer, rcon, requests, since, replies, dropped>>
lifeVars == <<processVars, exitVars, consoleVars, messageVars, rconVars>>

LifeInit ==
  /\ headless \in BOOLEAN /\ dedicated \in BOOLEAN
  /\ stage = "post_start"
  /\ handled = FALSE /\ leaving = [t \in Threads |-> "no"] /\ ended = FALSE
  /\ started = FALSE /\ terminate = FALSE /\ quit = FALSE
  /\ runner = "none" /\ window = "none"
  /\ count = 0 /\ writing = [t \in Threads |-> Silence]
  /\ queue = <<>> /\ batch = <<>> /\ shown = <<>>
  /\ target = Nobody /\ redirectBuffer = <<>> /\ rcon = FALSE
  /\ requests = 0 /\ since = 0
  /\ replies = {} /\ dropped = FALSE

\* A thread that runs the game: main from the start, the others in the game.
Runs(t) ==
  /\ ~ended /\ leaving[t] = "no"
  /\ t = Main \/ stage = "game"
  /\ writing[t] = Silence

----------------------------------------------------------------------------
(* component_loader and the end of the process *)

\* Mutant: terminate_runner_ is not set.
JoinOnly(t) ==
  IF handled
  THEN leaving' = [leaving EXCEPT ![t] = "exiting"] /\ UNCHANGED <<handled, terminate>>
  ELSE leaving' = [leaving EXCEPT ![t] = "joining"] /\ handled' = TRUE /\ UNCHANGED terminate

\* The first caller destroys the components, a second one is back at once.
PreDestroy(t) ==
  IF handled
  THEN leaving' = [leaving EXCEPT ![t] = "exiting"] /\ UNCHANGED <<handled, terminate>>
  ELSE leaving' = [leaving EXCEPT ![t] = "joining"] /\ handled' = TRUE /\ terminate' = TRUE

Leave(t) ==
  /\ PreDestroy(t)
  /\ UNCHANGED <<processVars, ended, started, runner, window, quit, messageVars, rconVars>>

Joined(t) ==
  /\ ~ended /\ leaving[t] = "joining"
  /\ runner \in {"none", "done"} /\ window \in {"none", "done"}
  /\ leaving' = [leaving EXCEPT ![t] = "exiting"]
  /\ UNCHANGED <<processVars, handled, ended, consoleVars, messageVars, rconVars>>

\* std::exit, or the return of main; the deleter of the components finds
\* pre_destroy handled.
Exit(t) ==
  /\ ~ended /\ leaving[t] = "exiting"
  /\ ended' = TRUE
  /\ UNCHANGED <<processVars, handled, leaving, consoleVars, messageVars, rconVars>>

\* exit_hook, on a thread that calls ExitProcess, in a command as well
ExitHook(t) == Runs(t) /\ stage \in {"boot", "game"} /\ Leave(t)

----------------------------------------------------------------------------
(* main *)

Stages == <<"post_start", "launcher", "load", "post_load", "boot">>

StartUp ==
  /\ Runs(Main)
  /\ \E i \in 1 .. Len(Stages) - 1 : stage = Stages[i] /\ stage' = Stages[i + 1]
  /\ UNCHANGED <<headless, dedicated, exitVars, consoleVars, messageVars, rconVars>>

\* A stage fails or the launcher is closed: premature_shutdown.
GiveUp == Runs(Main) /\ stage \in Range(Front(Stages)) /\ Leave(Main)

\* The game asks for SystemParametersInfoA or GlobalMemoryStatusEx:
\* console::post_unpack starts the threads, unless headless.
PostUnpack ==
  /\ Runs(Main) /\ stage = "boot"
  /\ stage' = "game"
  /\ terminate' = (headless /\ terminate)
  /\ runner' = IF headless THEN "none" ELSE "waiting"
  /\ window' = IF headless THEN "none" ELSE "open"
  /\ UNCHANGED <<headless, dedicated, exitVars, started, quit, messageVars, rconVars>>

\* A frame: started_ is set by the first main pipeline, quit calls ExitProcess.
MainFrame ==
  /\ Runs(Main) /\ stage = "game" /\ ~rcon
  /\ started' = ~headless
  /\ IF quit
     THEN PreDestroy(Main) /\ quit' = FALSE
     ELSE UNCHANGED <<handled, leaving, terminate, quit>>
  /\ UNCHANGED <<processVars, ended, runner, window, messageVars, rconVars>>

----------------------------------------------------------------------------
(* console *)

\* dispatch_message up to the queue's lock; message_redirect holds its own.
DispatchMessage(t) ==
  LET message == <<[by |-> t, no |-> count + 1]>> IN
  /\ Runs(t) /\ stage \in {"boot", "game"}
  /\ count < MaxMessages
  /\ count' = count + 1
  /\ CASE target # Nobody ->
            redirectBuffer' = redirectBuffer \o message /\ UNCHANGED <<writing, shown>>
       [] target = Nobody /\ headless ->
            shown' = shown \o message /\ UNCHANGED <<writing, redirectBuffer>>
       [] OTHER ->
            writing' = [writing EXCEPT ![t] = message] /\ UNCHANGED <<shown, redirectBuffer>>
  /\ UNCHANGED <<processVars, exitVars, consoleVars, queue, batch, target, rcon, requests, since,
                 replies, dropped>>

Enqueue(t) ==
  /\ ~ended /\ writing[t] # Silence
  /\ queue' = queue \o writing[t]
  /\ writing' = [writing EXCEPT ![t] = Silence]
  /\ UNCHANGED <<processVars, exitVars, consoleVars, count, batch, shown, rconVars>>

RunnerGoto(label) == runner' = label /\ UNCHANGED <<started, terminate, window, quit>>

RunnerStarts ==
  /\ ~ended /\ runner = "waiting" /\ started
  /\ RunnerGoto("idle")
  /\ UNCHANGED <<processVars, exitVars, messageVars, rconVars>>

\* Mutant: the queue is read, not emptied.
CopyQueue == batch' = queue /\ UNCHANGED queue

EmptyMessageQueue == batch' = queue /\ queue' = <<>>

RunnerTakes ==
  /\ ~ended /\ runner = "idle" /\ ~terminate
  /\ EmptyMessageQueue
  /\ RunnerGoto("printing")
  /\ UNCHANGED <<processVars, exitVars, count, writing, shown, rconVars>>

RunnerPrints ==
  /\ ~ended /\ runner = "printing"
  /\ shown' = shown \o batch /\ batch' = <<>>
  /\ RunnerGoto("idle")
  /\ UNCHANGED <<processVars, exitVars, count, writing, queue, rconVars>>

RunnerEnds ==
  /\ ~ended /\ runner = "idle" /\ terminate
  /\ RunnerGoto("done")
  /\ UNCHANGED <<processVars, exitVars, messageVars, rconVars>>

\* The window's loop ends with terminate_runner_, or when it is closed, which
\* asks the game to quit.
WindowEnds ==
  /\ ~ended /\ window = "open"
  /\ terminate
  /\ window' = "done"
  /\ UNCHANGED <<processVars, exitVars, started, terminate, runner, quit, messageVars, rconVars>>

WindowClosed ==
  /\ ~ended /\ window = "open"
  /\ window' = "done" /\ quit' = TRUE
  /\ UNCHANGED <<processVars, exitVars, started, terminate, runner, messageVars, rconVars>>

----------------------------------------------------------------------------
(* rcon, on a dedicated server's main thread *)

\* Mutant: the buffer keeps what a command left by an error had written.
SetupKeepsBuffer(admin) ==
  target' = admin /\ since' = count /\ UNCHANGED redirectBuffer

SetupRedirect(admin) ==
  target' = admin /\ since' = count /\ redirectBuffer' = <<>>

RconRequest(admin) ==
  /\ Runs(Main) /\ stage = "game" /\ dedicated /\ ~rcon
  /\ requests < MaxRequests /\ requests' = requests + 1
  /\ SetupRedirect(admin)
  /\ rcon' = TRUE
  /\ UNCHANGED <<processVars, exitVars, consoleVars, messageVars, replies, dropped>>

\* Mutant: is_redirecting_ stays set.
ClearNothing ==
  /\ replies' = replies \cup {[to |-> target, since |-> since, text |-> redirectBuffer]}
  /\ redirectBuffer' = <<>> /\ UNCHANGED target

ClearRedirect ==
  /\ replies' = replies \cup {[to |-> target, since |-> since, text |-> redirectBuffer]}
  /\ target' = Nobody /\ redirectBuffer' = <<>>

RconReply ==
  /\ Runs(Main) /\ rcon
  /\ ClearRedirect
  /\ rcon' = FALSE
  /\ UNCHANGED <<processVars, exitVars, consoleVars, messageVars, requests, since, dropped>>

RconError ==
  /\ Runs(Main) /\ rcon
  /\ rcon' = FALSE /\ dropped' = TRUE
  /\ UNCHANGED <<processVars, exitVars, consoleVars, messageVars, target, redirectBuffer, requests, since,
                 replies>>

----------------------------------------------------------------------------
LifeNext ==
  \/ StartUp \/ GiveUp \/ PostUnpack \/ MainFrame
  \/ RunnerStarts \/ RunnerTakes \/ RunnerPrints \/ RunnerEnds
  \/ WindowEnds \/ WindowClosed
  \/ \E admin \in Admins : RconRequest(admin)
  \/ RconReply \/ RconError
  \/ \E t \in Threads :
       ExitHook(t) \/ Joined(t) \/ Exit(t) \/ DispatchMessage(t) \/ Enqueue(t)

\* Threads run: the game boots and goes from frame to frame, commands end.
LifeFairness ==
  /\ WF_lifeVars(PostUnpack) /\ WF_lifeVars(MainFrame)
  /\ WF_lifeVars(RconReply \/ RconError)
  /\ WF_lifeVars(RunnerStarts \/ RunnerTakes \/ RunnerPrints \/ RunnerEnds)
  /\ WF_lifeVars(WindowEnds)
  /\ \A t \in Threads : WF_lifeVars(Joined(t)) /\ WF_lifeVars(Exit(t)) /\ WF_lifeVars(Enqueue(t))

LifeSpec == LifeInit /\ [][LifeNext]_lifeVars /\ LifeFairness
----------------------------------------------------------------------------
(* Properties *)

Numbers(messages) == {messages[i].no : i \in DOMAIN messages}
OnConsole == shown \o batch \o queue

\* What the console shows, holds and is about to show has each message once,
\* those of one thread in the order it printed them, and none that went or
\* will go to an admin.
MessagesOnceInOrder ==
  /\ \A i, j \in DOMAIN OnConsole :
       i < j => /\ OnConsole[i].no # OnConsole[j].no
                /\ OnConsole[i].by = OnConsole[j].by => OnConsole[i].no < OnConsole[j].no
  /\ \A r \in replies : Numbers(r.text) \cap Numbers(OnConsole) = {}
  /\ Numbers(redirectBuffer) \cap Numbers(OnConsole) = {}

\* The reply to an admin has no message from before the request: what a
\* command left by an error had written is not for the next admin.
ReplyIsOfRequest == \A r \in replies : \A n \in Numbers(r.text) : n > r.since

\* Every message gets to the console or into a reply, unless the process ends
\* or an error left a command of rcon, after which messages stay redirected.
MessageArrives ==
  \A n \in 1 .. MaxMessages :
    count >= n ~> \/ n \in Numbers(shown) \/ \E r \in replies : n \in Numbers(r.text)
                  \/ terminate \/ dropped

\* Main left before its first frame: the runner waits for started_, which
\* nobody will set, and pre_destroy for the runner (console.cpp:141).
LeftEarly == leaving[Main] = "joining" /\ runner = "waiting" /\ ~started

\* Whoever ends the process, and whoever else does meanwhile, it ends.
ShutdownEnds == handled /\ ~LeftEarly ~> ended
=============================================================================
