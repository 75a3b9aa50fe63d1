------------------------------- MODULE Party -------------------------------
(***************************************************************************)
(* The joining side of src/client/component/party.cpp, all of it on the    *)
(* main thread: a join asks the server for its info with a challenge, and  *)
(* the answer leads to connect_to_party, which retries by way of the       *)
(* scheduler until the online data is synced. Queries and answers are UDP  *)
(* datagrams: an answer to any query sent may come at any time, more than  *)
(* once or never, so only the queries are kept. Where the engine goes from *)
(* CL_ConnectFromParty and Com_Error is modelled from how the code uses it.*)
(***************************************************************************)
EXTENDS Integers, Bags

CONSTANTS
  Servers,      \* server addresses
  None,         \* the zeroed address
  MaxRequests,  \* bound on the joins of a run
  MaxRetries    \* bound on the retries scheduled at a time

ASSUME NoneAssumption == None \notin Servers
ASSUME PartyBoundsAssumption == {MaxRequests, MaxRetries} \subseteq Nat

VARIABLES
  host, challenge, hostDefined,  \* connect_state; a challenge is a number
  retries,    \* the bag of connect_to_party calls scheduled
  flags,      \* Live_SyncOnlineDataFlags: "synced" (0), "32" or "other"
  connecting, \* where the engine is connecting to
  inGame,     \* the server the client plays on
  virtualLobby, \* VirtualLobby_Loaded
  queries,    \* the getInfo datagrams sent: address and challenge
  requests,   \* history: how many joins asked for info, each a challenge
  cancelled,  \* history: how many of them the last reset cancelled
  started     \* history: the challenge whose answer started a join last

connectState == <<host, challenge, hostDefined>>
engineVars == <<flags, connecting, inGame, virtualLobby>>
partyVars == <<connectState, retries, engineVars, queries, requests, cancelled, started>>

PartyInit ==
  /\ host = None /\ challenge = 0 /\ hostDefined = FALSE
  /\ retries = EmptyBag
  /\ flags = "other"
  /\ connecting = None /\ inGame = None /\ virtualLobby = FALSE
  /\ queries = {}
  /\ requests = 0 /\ cancelled = 0 /\ started = 0

----------------------------------------------------------------------------
(* connect_to_party *)

Retry(target, init) == [target |-> target, init |-> init]

\* Com_Error(ERR_DROP), or CL_Disconnect
Drop == connecting' = None /\ inGame' = None

\* disconnect_stub: the command leaves a game, never the virtual lobby.
Disconnect ==
  IF virtualLobby THEN UNCHANGED <<connecting, inGame>> ELSE Drop

\* CL_ConnectFromParty leaves the game or the virtual lobby for the target.
ConnectFromParty(target) ==
  connecting' = target /\ inGame' = None /\ virtualLobby' = FALSE

\* left are the other retries, sync is what Live_SyncOnlineDataFlags returns.
ConnectToParty(target, left, sync) ==
  IF sync = "synced"
  THEN retries' = left /\ ConnectFromParty(target)
  ELSE /\ retries' = left (+) SetToBag({Retry(target, sync = "32")})
       /\ UNCHANGED <<connecting, inGame, virtualLobby>>

\* Mutant: the retry at 32 does not disconnect.
RunRetryOnly(r) ==
  /\ BagIn(r, retries)
  /\ ConnectToParty(r.target, retries (-) SetToBag({r}), flags)
  /\ UNCHANGED <<connectState, flags, queries, requests, cancelled, started>>

\* The scheduler runs a retry; one that saw 32 disconnects first, which leaves
\* the game and takes the flags from 32 to 0 unless it is the virtual lobby.
RunRetry(r) ==
  LET left == retries (-) SetToBag({r})
      disconnects == r.init /\ ~virtualLobby
      after == IF disconnects /\ flags = "32" THEN "synced" ELSE flags IN
  /\ BagIn(r, retries)
  /\ flags' = after
  /\ IF disconnects /\ after # "synced"
     THEN /\ Disconnect /\ UNCHANGED virtualLobby
          /\ retries' = left (+) SetToBag({Retry(r.target, FALSE)})
     ELSE ConnectToParty(r.target, left, after)
  /\ UNCHANGED <<connectState, queries, requests, cancelled, started>>

----------------------------------------------------------------------------
(* Joining and its answer *)

Query(address, number) == [address |-> address, challenge |-> number]

\* connect, by the console, an invite, the server list or reconnect
Connect(target) ==
  /\ requests < MaxRequests
  /\ requests' = requests + 1
  /\ host' = target /\ challenge' = requests + 1 /\ hostDefined' = TRUE
  /\ queries' = queries \cup {Query(target, requests + 1)}
  /\ UNCHANGED <<retries, flags, cancelled, started>>

ConnectCommand ==
  /\ \E target \in Servers : Connect(target)
  /\ UNCHANGED <<connecting, inGame, virtualLobby>>

\* In game it disconnects and comes back to itself; in the virtual lobby, once
\* that counts as a game, it comes back for ever and asks nothing.
ReconnectCommand ==
  /\ hostDefined
  /\ inGame' = None
  /\ connecting' = IF inGame = None THEN connecting ELSE None
  /\ UNCHANGED virtualLobby
  /\ Connect(host)

\* The local network's list joins without asking, and without a new challenge.
ConnectLan(target) ==
  /\ BagCardinality(retries) < MaxRetries
  /\ host' = target /\ hostDefined' = TRUE
  /\ retries' = retries (+) SetToBag({Retry(target, FALSE)})
  /\ UNCHANGED <<challenge, engineVars, queries, requests, cancelled, started>>

\* Mutant: reset only clears hostDefined.
Undefine ==
  /\ hostDefined' = FALSE
  /\ cancelled' = requests
  /\ UNCHANGED <<host, challenge>>

ResetConnectState ==
  /\ host' = None /\ challenge' = 0 /\ hostDefined' = FALSE
  /\ cancelled' = requests

\* infoResponse: the part for the join. The info is that of a server that can
\* be joined, or it fails one of the tests after the challenge.
JoinAnswered(q) ==
  /\ UNCHANGED <<connectState, flags, queries, requests, cancelled>>
  /\ \/ host # q.address /\ UNCHANGED <<retries, connecting, inGame, virtualLobby, started>>
     \/ /\ host = q.address
        /\ Drop /\ UNCHANGED <<retries, virtualLobby, started>>
     \/ /\ host = q.address /\ challenge = q.challenge
        /\ flags = "synced" \/ BagCardinality(retries) < MaxRetries
        /\ started' = q.challenge
        /\ ConnectToParty(q.address, retries, flags)

----------------------------------------------------------------------------
(* The engine *)

EnterGame ==
  /\ connecting # None
  /\ inGame' = connecting /\ connecting' = None
  /\ UNCHANGED <<connectState, retries, flags, virtualLobby, queries, requests, cancelled, started>>

LeaveGame ==
  /\ Drop
  /\ UNCHANGED <<connectState, retries, flags, virtualLobby, queries, requests, cancelled, started>>

\* The menu loads the virtual lobby, or drops it.
LobbyChanges ==
  /\ connecting = None /\ inGame = None
  /\ virtualLobby' = ~virtualLobby
  /\ UNCHANGED <<connectState, retries, flags, connecting, inGame, queries, requests, cancelled, started>>

SyncFlags ==
  /\ flags' \in {"synced", "32", "other"} \ {flags}
  /\ UNCHANGED <<connectState, retries, connecting, inGame, virtualLobby, queries, requests, cancelled, started>>

PartyNext ==
  \/ ConnectCommand \/ ReconnectCommand
  \/ \E target \in Servers : ConnectLan(target)
  \/ \E r \in BagToSet(retries) : RunRetry(r)
  \/ EnterGame \/ LeaveGame \/ LobbyChanges \/ SyncFlags

\* party.cpp with the server list's refresh
PartyAlone ==
  \/ PartyNext
  \/ ResetConnectState /\ UNCHANGED <<retries, engineVars, queries, requests, started>>
  \/ \E q \in queries : JoinAnswered(q)

\* The scheduler runs what is scheduled.
PartyFairness == \A target \in Servers, init \in BOOLEAN : WF_partyVars(RunRetry(Retry(target, init)))

PartySpec == PartyInit /\ [][PartyAlone]_partyVars /\ PartyFairness
----------------------------------------------------------------------------
(* Properties *)

\* Only the answer to the latest join starts one, and none does once the join
\* was cancelled by a refresh of the server list, however late or often the
\* answers of former joins of the same server come.
StartsLatestJoin ==
  [][started' # started => started' = requests /\ started' > cancelled]_partyVars

\* A join that had to wait for the online data gets to the engine, by way of
\* the state 32 as well, as long as that does not meet the virtual lobby, which
\* no disconnect leaves: its retries go on until the flags let one connect.
WaitingJoinConnects ==
  \A target \in Servers :
    <>[](flags = "synced" \/ (flags = "32" /\ ~virtualLobby)) =>
      ((\E init \in BOOLEAN : BagIn(Retry(target, init), retries)) ~> connecting = target)

\* discord.cpp:88: a client on a server advertises that one.
AdvertisesCurrentServer == inGame # None => host \in {None, inGame}
=============================================================================
