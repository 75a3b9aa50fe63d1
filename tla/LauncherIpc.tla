---------------------------- MODULE LauncherIpc ----------------------------
(***************************************************************************)
(* src/client/component/ipc.cpp, with the discord.cpp it drives: a thread  *)
(* that keeps a pipe to the launcher, writes the lines of a queue to it    *)
(* and reads messages, and a task of the main thread that queues presence  *)
(* when it changed. pc names the next step of the thread; between two of   *)
(* its steps the main thread runs, and the launcher may be gone at any.    *)
(* The hello is not modelled beyond the step that writes it.               *)
(***************************************************************************)
EXTENDS Discord

CONSTANTS
  Presences,       \* what serialize_presence may return
  NoPresence,      \* the empty last_sent
  MaxConnections,  \* bound on the connections of a run
  MaxQueue         \* presence changes only while the queue is shorter

ASSUME NoPresenceAssumption == NoPresence \notin Presences
ASSUME BoundsAssumption == {MaxConnections, MaxQueue} \subseteq Nat

VARIABLES
  pc,           \* "none", "connect", "hello", "swap", "write", "peek", "read",
                \* "disown", "clear" or "exited"
  alive,        \* the local of io_loop
  stop,         \* stop_io
  joinedIo,     \* pre_destroy has joined the thread
  queue,        \* the queue, a sequence of lines
  pending,      \* the lines the thread swapped out, still to be written
  forceResend,  \* force_resend
  tick,         \* where send_presence is: "idle", "compose" or "enqueue"
  lastSent,     \* last_sent
  presence,     \* what serialize_presence returns now
  connection,   \* history: the number of the current or last connection
  shown         \* the presence the launcher read last in this connection

threadVars == <<pc, alive, stop, joinedIo, connection>>
tickVars == <<tick, lastSent, presence>>
lineVars == <<queue, pending, forceResend, tickVars, shown>>
vars == <<discordVars, threadVars, lineVars>>

PresenceLine(value) == [type |-> "presence", value |-> value, connection |-> 0]
AckLine == [type |-> "connect-ack", value |-> NoPresence, connection |-> connection]

Init ==
  /\ DiscordInit
  /\ pc = "none" /\ alive = FALSE /\ stop = FALSE /\ joinedIo = FALSE
  /\ queue = <<>> /\ pending = <<>>
  /\ forceResend = FALSE
  /\ tick = "idle" /\ lastSent = NoPresence
  /\ presence \in Presences
  /\ connection = 0 /\ shown = NoPresence

----------------------------------------------------------------------------
(* The main thread *)

PostLoad ==
  /\ pc = "none" /\ ~stop
  /\ pc' = "connect"
  /\ UNCHANGED <<discordVars, alive, stop, joinedIo, connection, lineVars>>

\* The match, the players or the join transport change, not during the task
\* that composes a line of them.
PresenceChanges ==
  /\ tick = "idle" /\ Len(queue) < MaxQueue
  /\ presence' \in Presences \ {presence}
  /\ UNCHANGED <<discordVars, threadVars, queue, pending, forceResend, tick, lastSent, shown>>

\* send_presence, every five seconds: force_resend.exchange ...
TakeForceResend ==
  /\ tick = "idle"
  /\ tick' = "compose"
  /\ forceResend' = FALSE
  /\ lastSent' = IF forceResend THEN NoPresence ELSE lastSent
  /\ UNCHANGED <<discordVars, threadVars, queue, pending, presence, shown>>

\* ... then the line is composed and compared ...
Compose ==
  /\ tick = "compose"
  /\ lastSent' = presence
  /\ tick' = IF presence = lastSent THEN "idle" ELSE "enqueue"
  /\ UNCHANGED <<discordVars, threadVars, queue, pending, forceResend, presence, shown>>

\* ... and queued. The IPC thread may run between any two of the three.
Enqueue ==
  /\ tick = "enqueue"
  /\ queue' = Append(queue, PresenceLine(lastSent))
  /\ tick' = "idle"
  /\ UNCHANGED <<discordVars, threadVars, pending, forceResend, lastSent, presence, shown>>

SendPresence == TakeForceResend \/ Compose \/ Enqueue

PreDestroy ==
  /\ ~stop
  /\ stop' = TRUE
  /\ UNCHANGED <<discordVars, pc, alive, joinedIo, connection, lineVars>>

Join ==
  /\ stop /\ ~joinedIo /\ pc \in {"none", "exited"}
  /\ joinedIo' = TRUE
  /\ UNCHANGED <<discordVars, pc, alive, stop, connection, lineVars>>

----------------------------------------------------------------------------
(* The IPC thread, one connection after the other *)

\* Mutant: retries until a launcher listens.
RetryForever ==
  /\ pc = "connect" /\ stop
  /\ UNCHANGED vars

GiveUpConnecting ==
  /\ pc = "connect" /\ stop
  /\ pc' = "exited"
  /\ UNCHANGED <<discordVars, alive, stop, joinedIo, connection, lineVars>>

\* CreateFileW opens the pipe: a launcher listens.
Connect ==
  /\ pc = "connect" /\ connection < MaxConnections
  /\ pc' = "hello"
  /\ connection' = connection + 1
  /\ shown' = NoPresence
  /\ UNCHANGED <<discordVars, alive, stop, joinedIo, queue, pending, forceResend, tickVars>>

\* Mutant: no force_resend.
HelloOnly ==
  /\ pc = "hello"
  /\ alive' \in BOOLEAN
  /\ pc' = IF alive' /\ ~stop THEN "swap" ELSE "disown"
  /\ UNCHANGED <<discordVars, stop, joinedIo, connection, lineVars>>

\* The hello is written, or not; the next tick streams presence again.
Hello ==
  /\ pc = "hello"
  /\ alive' \in BOOLEAN
  /\ pc' = IF alive' /\ ~stop THEN "swap" ELSE "disown"
  /\ forceResend' = TRUE
  /\ UNCHANGED <<discordVars, stop, joinedIo, connection, queue, pending, tickVars, shown>>

Swap ==
  /\ pc = "swap"
  /\ pending' = queue /\ queue' = <<>>
  /\ pc' = "write"
  /\ UNCHANGED <<discordVars, alive, stop, joinedIo, connection, forceResend, tickVars, shown>>

\* write_all of the next line: the launcher gets it, or the pipe is broken
\* and the lines that are left are dropped.
Write ==
  /\ pc = "write" /\ pending # <<>>
  /\ \/ /\ pending' = Tail(pending)
        /\ shown' = IF Head(pending).type = "presence" THEN Head(pending).value ELSE shown
        /\ UNCHANGED <<pc, alive>>
     \/ pending' = <<>> /\ alive' = FALSE /\ pc' = "peek" /\ UNCHANGED shown
  /\ UNCHANGED <<discordVars, stop, joinedIo, connection, queue, forceResend, tickVars>>

Written ==
  /\ pc = "write" /\ pending = <<>>
  /\ pc' = "peek"
  /\ UNCHANGED <<discordVars, alive, stop, joinedIo, connection, lineVars>>

\* PeekNamedPipe fails, finds nothing, or finds a message.
Peek ==
  /\ pc = "peek"
  /\ \/ alive' = FALSE /\ pc' = "disown"
     \/ UNCHANGED alive /\ pc' = IF alive /\ ~stop THEN "swap" ELSE "disown"
     \/ UNCHANGED alive /\ pc' = "read"
  /\ UNCHANGED <<discordVars, stop, joinedIo, connection, lineVars>>

\* hello-ack or presence-owner
OwnerMessage ==
  /\ \E launcherOwns \in BOOLEAN : SetLauncherPresenceOwner(launcherOwns)
  /\ UNCHANGED <<owns, silent, release, card, inviteVars, queue>>

\* handle_connect: queued if it names a token or an address, acknowledged anyway.
ConnectMessage ==
  /\ \/ QueueJoin /\ UNCHANGED joined
     \/ UNCHANGED inviteVars /\ Len(queue) < MaxQueue
  /\ queue' = Append(queue, AckLine)
  /\ UNCHANGED ownershipVars

HandleIncomingLine ==
  /\ pc = "read"
  /\ OwnerMessage \/ ConnectMessage
  /\ UNCHANGED <<gameVars, threadVars, pending, forceResend, tickVars, shown>>

\* No complete line is left in inbuf.
ReadDone ==
  /\ pc = "read"
  /\ pc' = IF alive /\ ~stop THEN "swap" ELSE "disown"
  /\ UNCHANGED <<discordVars, alive, stop, joinedIo, connection, lineVars>>

\* Mutant: the card is left to a launcher that is gone.
DisownNothing ==
  /\ pc = "disown"
  /\ pc' = "clear"
  /\ UNCHANGED <<discordVars, alive, stop, joinedIo, connection, lineVars>>

\* CloseHandle; the native card may come back.
Disown ==
  /\ pc = "disown"
  /\ SetLauncherPresenceOwner(FALSE)
  /\ pc' = "clear"
  /\ UNCHANGED <<owns, silent, release, card, gameVars, inviteVars,
                 alive, stop, joinedIo, connection, lineVars>>

\* Mutant: the lines of this connection stay queued.
KeepQueue ==
  /\ pc = "clear"
  /\ pc' = IF stop THEN "exited" ELSE "connect"
  /\ UNCHANGED <<discordVars, alive, stop, joinedIo, connection, lineVars>>

Clear ==
  /\ pc = "clear"
  /\ queue' = <<>>
  /\ pc' = IF stop THEN "exited" ELSE "connect"
  /\ UNCHANGED <<discordVars, alive, stop, joinedIo, connection, pending,
                 forceResend, tickVars, shown>>

----------------------------------------------------------------------------
ThreadStep ==
  \/ GiveUpConnecting \/ Connect \/ Hello \/ Swap \/ Write \/ Written
  \/ Peek \/ HandleIncomingLine \/ ReadDone \/ Disown \/ Clear

\* ipc.cpp alone
IpcNext ==
  PostLoad \/ PresenceChanges \/ SendPresence \/ PreDestroy \/ Join \/ ThreadStep

\* send_presence and the tasks of discord.cpp run one after the other.
Next == IpcNext \/ (tick = "idle" /\ DiscordNext /\ UNCHANGED <<threadVars, lineVars>>)

Spec == Init /\ [][Next]_vars

\* The tasks of the main thread run, the grace period passes, a write returns
\* (the launcher reads, or its end of the pipe is gone), a read ends.
Fairness ==
  /\ WF_vars(SendPresence) /\ WF_vars(Join)
  /\ WF_vars(ThreadStep) /\ WF_vars(ReadDone)

FairSpec == Spec /\ Fairness /\ DiscordFairness
----------------------------------------------------------------------------
(* Properties *)

Lines == [type : {"presence"}, value : Presences, connection : {0}]
           \cup [type : {"connect-ack"}, value : {NoPresence}, connection : 1 .. MaxConnections]

\* Without a pipe no launcher owns the card: its claim is dropped before the
\* thread looks for another one, and before it exits.
NoOwnerWithoutPipe == pc \in {"none", "connect", "clear", "exited"} => ~wireOwns

\* The acknowledgement of an invite goes to the launcher that sent it, never
\* to the next one that connects.
AcksStayInConnection ==
  \A line \in ToSet(queue) \cup ToSet(pending) :
    line.type = "connect-ack" => line.connection = connection /\ pc # "connect"

\* A launcher that stays connected ends up with the presence of the game, also
\* when it connected to a game whose presence does not change any more.
PresenceReachesLauncher ==
  \A value \in Presences :
    <>[](alive /\ ~stop /\ presence = value) => <>[](shown = value)

\* pre_destroy gets its join, connected or not.
IpcShutdownJoins == stop ~> joinedIo

\* When the launcher is gone for good, whichever step its pipe broke at and
\* whatever it claimed before, the native card is shown again.
CardSurvivesLauncher == <>[](pc = "connect" /\ ~stop) => <>[]card
=============================================================================
