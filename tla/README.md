# A TLA+ verification project for s1-mod

s1-mod is a Windows client and dedicated server for Call of Duty: Advanced
Warfare. It loads the game's binary, patches it, and replaces its online
services: it emulates the Steam API and the Demonware servers inside the
process, finds and joins game servers over its own UDP messages, opens private
matches to friends by hole punching, reports presence to Discord or to a
separate launcher, updates itself, runs scripts of mods, and translates the
game. The engine is called at fixed addresses and is not in the repository, and
neither are the rendezvous server, the master server and the launcher.

This directory models the parts where control flow, concurrency, files and
unreliable messages meet. `PROJECT.json` lists the components, the runs, a
mutant for every property, the source lines of every definition, and the
hazards the properties are for.

## Inventory

Paths are below `src/src/client/`; `c/` stands for `component/`, `dw/` for
`game/demonware/`.

| component | state | operations | hard behaviour |
|---|---|---|---|
| scheduler (`c/scheduler.cpp`) | four pipelines, each a list of tasks and one of new tasks; the async thread, `kill` | `schedule`, `once`, `loop`, `on_game_initialized`, `execute` in three frame hooks and a thread | tasks that schedule tasks, erasing during the scan, threads that append while another scans, shutdown |
| nat (`c/nat.cpp`) | `hosting_enabled`, `host_token`, one `punch_attempt` | `begin_join`, `nat_host`, two loops, five datagram handlers | lost, late and doubled datagrams, a deadline racing an acknowledgement, two roles sharing one attempt |
| discord (`c/discord.cpp`) | who owns the card, `pending_route`, `pending_join_secret` | four loops, Discord callbacks, calls of the IPC thread | claims from another thread, a grace period, invites before the game can act on them |
| ipc (`c/ipc.cpp`) | the pipe thread, a queue of lines, `force_resend`, `stop_io` | presence, messages of the launcher, reconnect, shutdown | a pipe that breaks between any two steps |
| party (`c/party.cpp`) | `connect_state`, retries in the scheduler | `connect`, `reconnect`, `connect_lan`, the answer to `getInfo`, `connect_to_party`, `start_map` | answers of former requests, retries until the online data is synced |
| server list, LAN list (`c/server_list.cpp`, `c/lan_server_list.cpp`) | servers, page, query queue, time stamps | refresh, page, join, frame work, answers | late and doubled answers, indices into lists that are sorted meanwhile |
| demonware (`c/demonware.cpp`, `dw/`) | socket map, queues of the servers, keys, transaction numbers, a user file | Winsock hooks, the server thread, handshakes, services, two wire formats | sockets shared with a thread, replies cut by the game's buffers, reconnects |
| updater (`updater/`, `c/updater.cpp`) | files on disk, jobs of the download threads | download, move the running binary aside, clean up, relaunch | crashes, short writes, cancellation, several processes on one disk |
| lifecycle (`main.cpp`, `loader/component_loader.cpp`) | stage, whether pre_destroy ran | start up, exit hooks | two threads that end the process |
| console, rcon (`c/console.cpp`, `c/rcon.cpp`) | message queue, two threads, redirection buffer | dispatch, print, redirect, reply | messages of any thread, an error that leaves a command by longjmp |
| map rotation (`c/map_rotation.cpp`) | rotations, index, dvars | `map_rotate`, end of a level | three waits for the online data, a command buffer that grows meanwhile |
| scripts (`c/gsc/`, `c/scripting.cpp`, `c/notifies.cpp`, `c/filesystem.cpp`) | handles, function table, replaced functions, search paths | load, link, run, restart, leave | what outlives a level, an error in the middle of loading |
| UI scripting (`c/ui_scripting.cpp`) | globals of three hooks, roots | start, require, load, shutdown | nested requires, errors caught by scripts |
| game console (`c/game_console.cpp`) | output, view, input line, history | print, scroll, edit, clear | prints from any thread between two halves of a clear |
| language, CJK font (`c/language.cpp`, `c/font_cjk.cpp`) | patched assets and fonts, a hook's switch | load, patch, monitor, inject | assets at the places of former ones, three threads without a lock |
| dvars (`c/dvars.cpp`, `c/dvar_cheats.cpp`) | values, `sv_cheats` | checks before every change, overrides | who may change what, on a client, a host and a server |
| network, steam, auth, bots, launcher window, loader, engine patches, utilities | | | see *Not modelled* |

How they interact:

- Every component registers its loops with the scheduler. The loops of nat,
  discord, party, the lists, the rotation and the language run on the main
  pipeline, so their handlers never overlap, nor do the handlers of datagrams,
  which the engine's frame calls. The scheduler's async thread, the IPC thread, the
  demonware thread, the two console threads and the update threads run beside it.
- The IPC thread calls `discord::queue_join` and
  `discord::set_launcher_presence_owner`; its tick reads
  `discord::get_presence_state`, which reads `party` and `nat`.
- An invite ends in `nat::begin_join` or in `connect` of `party`; `nat` ends a
  successful attempt with `connect`.
- `connect` sends `getInfo`. The answer, `infoResponse`, goes to the server list
  first and to `party` after it; a refresh of either list resets `party`'s
  `connect_state`. The LAN list joins with `connect_lan`.
- The rotation puts `map` into the engine's command buffer, which `party::start_map`
  takes up or puts off.
- While rcon runs a command, what any thread prints goes to its buffer and not to
  the console.
- The exit hook calls every component's `pre_destroy`; scheduler, ipc, demonware
  and console join their threads there.

What makes each correct is listed property by property under *Runs*.

## Modules

| module | models | used by |
|---|---|---|
| `TaskPromise` | what `scheduler.hpp` promises, with no lists or locks | `Scheduler` implements it (`KeepsPromise`) |
| `Scheduler` | `scheduler.cpp` | `MCScheduler`, `Scheduler_proofs` |
| `NatPunch` | `nat.cpp` on every peer, and the network | `MCNatPunch`, `MCNatPunchMutual`, `NatPunch_proofs` |
| `Discord` | `discord.cpp` in multiplayer | `MCProcess` |
| `LauncherIpc` | `ipc.cpp`, EXTENDS `Discord` | `MCPresence`, `LauncherIpc_proofs` |
| `Party` | the joining side of `party.cpp` | `MCParty` |
| `ServerList`, `LanServerList` | the two lists, each EXTENDS `Party` | `MCServerList`, `MCLanServerList`, `ServerList_proofs` |
| `Demonware` | hooks, server thread, servers | `MCDemonware`, `Demonware_proofs` |
| `Lifecycle` | `main.cpp`, `console.cpp`, `rcon.cpp` | `MCProcess`, `Lifecycle_proofs` |
| `MapRotation` | `map_rotation.cpp` and `start_map` | `MCProcess` |
| `FontCjk` | `font_cjk.cpp` | `MCProcess` |
| `Updater` | `updater/` | `MCContent`, `Content_proofs` |
| `Scripts`, `UiScripting` | the scripts of the game and of the interface | `MCContent`, `Content_proofs` |
| `GameConsole`, `Language` | what the player reads | `MCContent`, `MCLanguage`, `Content_proofs` |
| `Dvars` | `dvar_cheats.cpp`, `dvars.cpp` | `MCContent`, `Content_proofs` |
| `ByteBuffer`, `BitBuffer`, `Buffers` | `byte_buffer.cpp`, `bit_buffer.cpp`, both | `MCContent`, `Content_proofs` |
| `SequenceLemmas` | facts about the community modules' operators | `Content_proofs`, `Demonware_proofs` |

An action is a handler, a loop's body or one step of a thread between two points
where another may run. Constants that start with `Max` bound what would go on for
ever.

**Scheduler.** `newCallbacks` and `callbacks` are the two vectors of each
pipeline, `iter` the iterator of `execute`. A pass is `BeginPass` (lock, merge),
then `Skip` or `Run` and `Return` for each task, then `EndPass`; anything may
happen between `Run` and `Return`, because `new_callbacks_` is unlocked then.
`Return` erases or advances, and for the poll of `on_game_initialized` also
schedules its once. Time is `elapsed`, counted up to the task's delay. `Kind`
says what the handler returns; what else it does is `Schedule`. `stamp`, `runs`
and `batch` are history. The refinement maps a task to unborn, waiting, running
or ended.

**NatPunch.** Each peer has the session and the attempt of `nat.cpp`; `net` holds
every datagram a peer sent, and receiving does not remove it, so loss, delay,
reordering and duplication need no actions of their own. The rendezvous server
may introduce any two datagrams that name the same token, or reject any join, at
any time. Tokens are drawn by one peer only, for the 64 bits `generate_token`
draws do not collide. A peer has a public address and a private one, of a LAN or a VPN, and
both are its candidates; `Reached` says who receives what is sent to an address from which
network. Every client acknowledges every punch, whatever its token, as the code does.

**Discord, LauncherIpc.** `OwnershipTick`, `UpdateDiscord`, `Ready`, `NativeJoin`
and `ProcessPendingRoute` are the loops and callbacks of the main thread;
`SetLauncherPresenceOwner` and `QueueJoin` the calls of the other one. The IPC
thread is a program counter: connect, hello, swap, write (one line per step),
peek, read (one message per step), disown, clear. A line is a record: the
presence it carries, or the acknowledgement with the connection it belongs to. A tick of
`send_presence` is three steps (`TakeForceResend`, `Compose`, `Enqueue`), for the thread may
raise `force_resend` or clear the queue between any two.

**Party, ServerList, LanServerList.** `connect_state` is three variables, a
challenge is the number of its request. `queries` is every `getInfo` sent, and
each may be answered at any time, any number of times. The retries in the
scheduler are a bag, for equal ones may be scheduled twice. `disconnect` is the mod's own
command, which does nothing in the virtual lobby.
`Live_SyncOnlineDataFlags` is synced, 32 or something else. `infoResponse` is one
action: the list's part and the join's part. In the query queue a server is
fresh, asked, or late after ten seconds; in the LAN list it is old after ten
seconds without an answer. Sorting is an insertion at any place.

**Demonware.** The game's side is one action per Winsock hook, the thread a
program counter over the servers in the order of `server_main`. A packet is one
`send`; a service's reply has two parts, which `recv` may take separately.
`transcript` is the buffer of `keys.cpp` that is hashed; a key is the pair of the
session key and what was hashed. The user file holds the number of the request that
wrote it; a write the disk refuses is answered like any other. The game takes what it reads
on a connection for the answer to what it sent there, so what a closed connection left in
the queues fails the next handshake. Ciphers and the formats of messages are left out; the formats' own
correctness is `Buffers`.

**Buffers.** A message is written field by field, sent, and read back field by
field; values are sequences of bytes. `ByteBuffer` is markers, sizes and zeroes, a
field per step; the header of an array has markers whatever the writer's setting, and turns
the reader's types on. In `BitBuffer` a byte is the set of its bits; a call of `write` or
`read` is a step for its beginning (`BeginWrite`, `BeginRead`) and one for every round
of its loop (`WriteRound`, `ReadRound`), with the masks of the code. Messages are
shorter than the 2^31 bits at which its counters would overflow.

**Updater.** Each process of the installation has the program counter of its
update thread and a job per listed file; `disk` holds the content of each file, and
`opener` whose write is the last. `Crash` may come between any two steps, a
write may end short. A running image may be moved, but neither written nor
deleted.

**Lifecycle.** `stage` is where `main` is, `leaving` where each thread is in
`ExitProcess`. A message is tested for redirection in `DispatchMessage` and queued
in `Enqueue`, for another thread may run between the two. The console's IO thread
takes the queue (`RunnerTakes`) and prints the copy (`RunnerPrints`). `RconError`
is the longjmp out of a command. What calls `printf` goes to the window past the queue and is left
out (`print_stub`).

**MapRotation.** The engine's command buffer is a sequence that `Execute` works
off; what `start_map` and `perform_map_rotation` put off are tasks. The rotation is
applied up to the first map, or the default one if that does not exist. A dvar is whether it is empty
and what it parses to, which may be nothing. The loop at the end of a level waits until the cgame is gone.

**Scripts, UiScripting.** A script is known by its name and, once loaded, by an
address of the engine's heap, which gives the addresses of a level that was left
to the next one. Loading is recursive in the engine; here it is the stack
`linking`. A source is read from the first search path that has the file, or else from a
fastfile's raw file; an unknown script or function ends the level in any step of it. `promised` is the set of scripts a level must run, by the state of the
files when it loaded. In the interface `calls` is the stack of the scripts that
run; the globals of the hooks are variables, as in the code, and `packages` is the engine's
`package.loaded`, which has one module of a name for all.

**GameConsole, Language, FontCjk.** Lines are a number and a view; `clear` is two
steps, for the output is locked twice. Assets have a place, a name and whether
they are patched; the engine finds the last one of a name (`over`). An asset is there when
`DB_LoadXAssets` returns, or comes later (`AssetArrives`). The font's three initializers
are threads: the texture, its view, the image and each font of `registered_fonts` are steps of
their own, between which the others go on.

**Dvars.** A change passes `SetCheats` or `SetDvar`, with the source it is made
from; `setBy` is the source of each value. Two threads that change dvars at once are left out.

## Runs

| run | distinct states | instance |
|---|---|---|
| `scheduler` | 116 890 | two pipelines; an undelayed once, a delayed loop, a poll and its once on the other pipeline |
| `nat_join` | 309 996 | two hosts, a third peer that joins twice, from a network where the first host's private address is the second's |
| `nat_mutual` | 239 224 | two hosts that join each other once |
| `presence` | 255 608 | two connections, one line in the queue; claims of the card and two presences, or one invite |
| `lan_list` | 183 252 | two servers on pages of one row, two joins, one retry at a time |
| `server_list` | 300 792 | two servers, pages of one row, one query per frame, two refreshes, two joins |
| `demonware` | 427 824 | a tcp and a udp handle, two STUN servers; five packets, or one packet and two datagrams |
| `content` | 1 134 442 | eight components side by side, see below |
| `process` | 128 801 | four components side by side, see below |
| `nat_fallback`, `party_advertised`, `language_hook` | | **violated**, see *What the runs found* |

`content` and `process` put components that share no state into one state machine:
the initial state chooses one of them, and only that one takes steps. A property of
one component sees all of its behaviours and none of the others', which is
what a run of its own would show. Where components do share state (ipc and discord, the
lists and party, scheduler and its pollers) they are composed for real.

What the properties say:

- `UndelayedInOrder`, `PassRunsItsBatch`, `KeepsPromise`, `GameInitializedRuns`,
  `ShutdownJoins` (`scheduler`): a task without delay starts before everything scheduled
  after it; a pass runs only what it found; every task runs once or for ever and never
  twice at a time, as `scheduler.hpp` promises; `on_game_initialized` runs; the
  async thread ends.
- `AtMostOneConnect`, `ConnectsToInvitedHost`, `HostSessionCloses` (`nat_join`),
  `JoinResolves` (`nat_mutual`): a join connects at most once, and reaches the host of its
  token or nobody, but for a private candidate that is another machine's on the joiner's network; a closed match drops its session; a join ends in a connect, the fallback or an error.
- `NoOwnerWithoutPipe`, `AcksStayInConnection`, `CardSurvivesLauncher`,
  `PresenceReachesLauncher`, `IpcShutdownJoins` (`presence`): the launcher owns the card
  only while its pipe stands; acknowledgements reach the launcher they answer; when the
  launcher is gone for good, the native card is shown again; a presence that stays arrives; the thread ends.
- `NoSecondCard`, `InvitesInOrder`, `QueuedInviteJoins` (`process`): from the first tick after the
  launcher's claim until it is withdrawn, the native card is off; queued invites
  are joined in order, at most once, and in the end, with a launcher that may say anything.
- `StartsLatestJoin`, `WaitingJoinConnects` (`lan_list`), `ListedOnce`, `QueueDrains`
  (`server_list`): only the answer to the latest join starts one; a join that waits for the
  online data gets to the engine, unless it waits at 32 in the virtual lobby; a server is listed once; silent servers leave the queue.
- `AnswersAreSequential`, `FirstHandshakeAgrees`, `HandshakeAnswered`,
  `DemonwareJoins` (`demonware`): what a server gives out is the whole replies in the order of
  the requests; both sides of a first handshake hash the same; a handshake is answered, on a connection
  that no former one left anything to (`fresh`); the thread is joined.
- `SomeBinaryIntact`, `SuccessMeansLatest` (`content`): a complete binary is on disk at
  every moment; an update that reports success leaves the latest files.
- `RunsItsScripts`, `PointsIntoLinkedCode`, `RequireIsOfFirst`: a level runs the `main` and
  `init` of its scripts once; no handle, function or hook points into freed code; a
  script gets the module of a name that belongs to the mod that required the name first.
- `ShownIsTranslated`, `FollowsNewest`: no English text by name, but what comes after a load
  returned; a view at the newest line
  stays there.
- `CheatsAreReset`, `ReadsWhatWasWritten`: with cheats off no cheat dvar holds what the console or a
  server's message gave it; both formats read back what was written, up to an array without types.
- `MessagesOnceInOrder`, `ReplyIsOfRequest`, `MessageArrives`, `ShutdownEnds`,
  `LevelExitRotates`, `CjkBecomesReady` (`process`): each message goes to the console or to one
  admin, once and in order, and arrives; a reply holds nothing from before its request; the process
  ends, whoever ends it; a level that ended leads to a map; the Chinese font gets ready, with a view to draw from.

Why the bounds are enough for what the runs ask:

- `scheduler`: two pipelines give every interleaving of a frame with the async thread;
  a task that schedules into another pipeline, one that repeats and one that is erased in the
  middle of the scan meet in one list. `runs` counts to 2, enough to see a second start.
- `nat_*`: a second join is what a late message of the first can harm, a second host what it
  can be confused with, also by its private address; two peers that are both host and joiner is the
  smallest case of shared attempts, and they have public addresses of their own.
- `presence`: what outlives a connection meets the next one; the queue overflows at two lines. Claims and invites
  share no state of `discord.cpp`, so a behaviour has one of them.
- `lan_list`, `server_list`: with rows of one server the second page exists with two; a second
  join or refresh meets the answers of the first. `PageSize` (14 in the code) and
  `QueryLimit` (3) are scaled down. Retries are `lan_list`'s part, queries `server_list`'s.
- `demonware`: five packets are a login, a handshake and two requests, or a handshake, a closed
  connection and the next handshake; a reply cut in two parts is what separate `recv`s see.
- `content`: two processes meet in every pair of steps, with two listed files a download may
  fail while the other goes on, and two faults may hit both (`MaxFaults`); the second level meets
  what the first left, at the same addresses; two mods have a module of one name; two places
  for two texts are enough to be reused; four lines are more than a view and a limit; three
  fields put the third at every offset in a byte; four changes turn cheats on and off with a dvar
  set in between.
- `process`: two threads and two messages race each other and the redirection, two requests let
  an error of the first meet the second (of one admin: a request is told by when it was made, not by whom); rotations of two maps, of none and of a missing one;
  three invites are one queued, one that replaces it and one after it was routed; one font, that may
  be there before the image, after it, or between two threads' steps, and one refusal of the device.

The deadlock check is off where the system may rightly stop: in `presence` after `pre_destroy`
with the queue full, in `demonware` and `process` after the end of the thread or the process,
in `content` when the bounded inputs are used up.

**Fairness.** Weak fairness of the loops and threads that go on as long as the process does: the
scheduler's passes and handlers return, its clock goes on, the IPC thread steps and a write to the
pipe returns (the launcher reads, or its end is closed); the demonware thread is scheduled and its
join returns when the thread ended; `main` boots, frames come, the console's threads and the exiting
threads run, and a command of rcon ends; the engine executes its command buffer and the scheduler the
rotation's tasks; the font's tasks run; deadlines pass. The runs side by side ask the same of the component
that runs. Nothing is assumed of the network, of servers, launchers, players or engine flags: properties
that need the game to be and stay ready, the game to keep a connection open, or the cgame to go, say so in
their premise.

### What the runs found

- **A join may end in silence** (`nat_fallback`). `nat.hpp:16` promises a connect, the
  fallback or an error. The attempt is one global: when the rendezvous introduces a joiner for
  the peer's own open match, `nat.cpp:442` overwrites it, and the peer's own join is gone.
  `JoinResolves`, which passes, is the promise with this one exception.
- **The advertised server may be another one** (`party_advertised`). `discord.cpp:88` advertises
  the server the client is on, from `party::get_target`, which is the last server that was asked:
  `connect` sets it before the answer, and no refusal or silence restores it.
- **The text hook may be on while a map loads** (`language_hook`). `language.cpp:274` says it is
  transparent then. The monitor also switches it on thirty seconds after the last fastfile, whatever
  the map does, and it stays on when the next one starts to load.

Behaviour no document contradicts, kept as the code has it:

- an answer with another challenge from the current target drops the client, so a query of the
  list may end a game; a doubled `infoResponse` connects again; a retry of an earlier join may follow
  a later one;
- the second click joins the row at the remembered index, whatever server is there by then;
- a join may connect to a machine on the joiner's own network that has the host's private address, if
  that one acknowledges first, as every client does (`Clash` in `ConnectsToInvitedHost`);
- after the launcher's claim both cards are shown until the next tick, at most 250 ms;
- in the virtual lobby with the flags at 32 a join retries for ever, for its `disconnect` does nothing there;
- the queues of a demonware server outlive a connection, and what is left in them fails the next handshake;
- a script that requires a name which another mod's script required before gets that one's module;
- an array written to a byte buffer with the types off is misread; nothing in the repository writes one;
- an asset that comes, after `DB_LoadXAssets` returned, to an address patched before stays in English until
  the next load;
- a native invite is routed without the test for readiness the launcher's invites get;
- a `pre_destroy` before the demonware thread started is undone by it, and the join never
  returns (`DemonwareJoins` leaves it out); a process that ends before its first frame waits for
  the console's IO thread (`LeftEarly` in `ShutdownEnds`);
- the second demonware handshake hashes the first one's packets too;
- three initializers of the font share unlocked containers: a font registered while another thread
  goes through them may end the program (`crashed`); a texture that Direct3D refuses a view is taken back from
  a thread that goes on with it, the font is ready without one, and nothing tries again (`undone`);
- after an error in a command of rcon messages stay redirected until the next one (`dropped`);
- a refused change of `sv_cheats` resets the cheat dvars all the same.

## Proofs

`tlapm` checks every proof to the last leaf. What is proved holds for every value of the constants
that satisfies the assumptions of the modules: homes, delays and kinds of tasks have their types and a
poll has its own once; a token has one drawer; `None`, `Nobody` and the like are nobody's address;
private addresses on one network differ, and a machine whose own address is public has nobody beside it; pages
and limits are positive; a host advertises its own address; tcp servers come before udp servers in a frame;
the binary's two names are not names of other files; scripts are finitely many, the heap has an address for
each and the engine has files for every level; a field of a message has the bytes its kind says, a C string has
no zero in it, lengths fit an `int`, and an array has elements. The theorems rest on nothing else but the models.

- `Scheduler_proofs`. `SchedulerTypeCorrect`: no iterator leaves its list and a running handler has
  a task under it, while tasks are merged and erased. `UndelayedTasksInOrder`: `OrderInv` is stated of
  the *line* of a pipeline, its tasks followed by its new tasks, which the merge leaves alone: the line
  is sorted by time of scheduling (`SortedOK`); an undelayed task before the iterator has run
  (`ScannedOK`); the task under a running handler has run (`RunningOK`); only a task that has run has left
  (`EndedOK`); a poll in the line has not scheduled its once (`PollsOK`). Four lemmas with the line as a
  parameter are the mathematics, three tie them to the lists. `PassRunsOnlyItsBatch`: during a pass
  every task of the list is in the batch the merge found. `SchedulerKeepsPromise` is the refinement of
  `TaskPromise`, a theorem per action: the merge and the scan are stutters, a task runs while its handler is
  under the iterator, what leaves the list has ended, and once the async thread is joined it has no pass
  (`AsyncInv`).
- `NatPunch_proofs`. `NatTypeCorrect`, `TokensNameOpenHosts`, `JoinConnectsOnce`,
  `JoinConnectsToHost`. `NatInv` strengthens them: an address that comes with a token in a datagram of punching, or is
  a joiner's candidate, is the host's own or a private one that clashes with it (`Credible`), unless the receiver is
  the host; a host's attempt has its own token; an attempt that joins has not connected. Without the first an
  acknowledgement might come from another joiner, without the last a second connect is possible.
- `LauncherIpc_proofs`. `OneCard` (`CardInv`: what ownership is decided from, and that a claim
  which a tick has seen is in effect), `LauncherInvitesInOrder`
  (`InvitesInv`: the invite in the slot is newer than all that were joined); `OwnerHasPipe` and `AcksReachTheirLauncher` (`LinesInv`: every acknowledgement queued or
  being written is of the connection that stands).
- `ServerList_proofs`. `OnlyLatestJoinStarts` (`JoinInv`: a challenge that is set is that of the latest
  join, which no refresh has cancelled, and no query of the list has one) and `ServersListedOnce`
  (`ListInv`: the list is empty while the master is asked, and listed and queued servers are apart).
  `LanKeepsLatestJoin`: the steps of `party` and the same invariant, with the LAN list in the place of the
  internet list.
- `Lifecycle_proofs`. `RepliesAreOfTheirRequest` (`ReplyInv`: all that is in the buffer was written since it was
  last emptied, which says nothing of other threads' messages during the request) and `ConsoleHasMessagesOnce` (`HeldInv`, where a message may be between test and queue;
  `OrderInv`, what is shown, copied and queued is in order per thread).
- `Content_proofs`, on the components of the run `content`:
  - `BinarySurvives` (`IntactInv`: a process runs from a complete file under one of the two
    names, which is why a move or a deletion that fails leaves one) and `SuccessfulUpdateIsLatest`
    (`LatestInv`: as long as there was no fault, what is partial is being written by the last that
    opened it, only old binaries are moved aside, and a job that is done left its file current or being
    written again);
  - `TextsTranslated`, inductive as it stands (an arrival covers what was found and uncovers nothing), `ViewFollows` (`ViewInv`) and `CheatsReset` (`CheatInv`, which
    only adds the type of `setBy`: no path but `SetCheats` gives a cheat dvar a value of the console's while
    cheats are off, and that one resets it);
  - `NoFreedCode` (`CodeInv`: the function table holds exactly the linked scripts, at their
    addresses, and handles and hooks are among them) and `FirstRequireDecides` (`RequireInv`: what is
    required is looked up for the root of the innermost call; `PackagesInv`: what is kept is of its first requirer);
  - `PromisedScriptsRun`. `RunInv` is three parts: scripts are loaded only between two stages, from files nobody
    edits meanwhile (`LoadInv`); each promised script is loaded, being linked or still in the files to come
    (`PromiseInv`); what has run is what the handles that are gone say (`RanInv`);
  - `ByteBufferReadsBack` (`ByteInv`: the fields lie one behind the other from the first byte on, and the reader
    stands where the next begins, up to an array without types, so every marker and size is found where it is
    looked for), `BitBufferReadsBack`
    (`BitInv`: so do the bits of the calls; in the middle of a call the bits done are those of its data, and no
    round touches a bit before them) and `BuffersReadBack`, both together. `RoundWrites` and `RoundReads` say what
    a round with its shifts and masks does to each bit.
- `Demonware_proofs`. `AnswersSequential` (`AnswerInv`: the queue of a server is the end of what was sent to it,
  and the number of transactions and the user file are those after the requests taken so far, which is why a
  reply that is cut, or a connection that is closed, moves no later one) and `HandshakeAgrees` (`HandshakeInv`:
  what was hashed are the packets of the handshake taken so far, if it is the session's first).
- `SequenceLemmas`. What flattening, minima and enumerations of the community modules return. The library's
  induction theorems take an operator, which the provers here cannot instantiate; an induction is therefore
  made as the least element of a set of numbers, which exists by the well-founded order of the finite
  subsets (`LeastNumber`, `SetInduction`).

Model-checked only: liveness, which this prover does not reach under fairness, that is
`GameInitializedRuns`, `ShutdownJoins`, `HostSessionCloses`, `JoinResolves`, `PresenceReachesLauncher`,
`CardSurvivesLauncher`, `IpcShutdownJoins`, `WaitingJoinConnects`, `QueueDrains`, `HandshakeAnswered`, `DemonwareJoins`,
`MessageArrives`, `ShutdownEnds`, `LevelExitRotates`, `QueuedInviteJoins` and `CjkBecomesReady`; hence all that is
said of `MapRotation` and `FontCjk`. Every safety and action property and the refinement of
`TaskPromise` are proved.

## Not modelled, and why

The repository is large, and most of it is not a state machine: `structs.hpp` declares the engine's memory,
dvar and symbol tables are addresses, `language.cpp` and `command.cpp` are in large part tables and text, the
services answer constants, and `cryptography.cpp` wraps a library. A definition for them would state
a constant or an identity. That bounds the share of the lines the models cover.

- *network*: dispatch by command is a sequential look-up; the modules that use it have each handler as
  an action. *authentication*: sequential tests on one packet in assembly hooks.
- *steam emulation*: the interfaces answer constants; the handlers the callback queue runs are the
  engine's, outside the repository.
- *bots*, the kick and status commands of *party*, *dedicated*: one engine call each, or a test and a
  call per task. A kick names a slot, which another player may hold when its task runs; whether one may
  join in between is the engine's. The queued commands of a dedicated server run at the end of its
  initialization; commands of the console run at once as soon as the online flags are clear, which may be
  before it (`dedicated.cpp:83`).
- *engine patches*, *loader and protections*: patched bytes and memory layout, out of TLC's reach.
- *launcher window*, drawing: user interface. *common utilities*: `concurrency::container` is the
  critical section that makes its users' actions atomic; the rest has no state.
- Of modelled components: the text of presence, the validity of addresses and secrets, singleplayer (whose
  paths return at once), passwords of rcon, ciphers, builtin script functions, Lua conversions, glyph
  layout.

Assumed and not checked: a custom script whose name the compiler has a token for is in a fastfile too
(`db_is_x_asset_default` knows custom scripts by their own names only); a handler does not run a nested frame of its pipeline (nested `execute` would move
the vector below the outer iterator); the engine's `Com_Error` leaves the handlers' critical sections; the
Discord library calls back from `Discord_RunCallbacks` only; `WriteFile` to the pipe returns.
