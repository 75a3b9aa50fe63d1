----------------------------- MODULE ServerList -----------------------------
(***************************************************************************)
(* src/client/component/server_list.cpp on top of party.cpp, with which it *)
(* shares the answers to getInfo and the connect. Commands, menu callbacks *)
(* and datagrams run on the main thread. In LAN mode the menu calls lead   *)
(* to lan_server_list.cpp and leave this list alone.                       *)
(***************************************************************************)
EXTENDS Party, SequencesExt

CONSTANTS
  PageSize,     \* server_limit
  QueryLimit,   \* query_limit
  MaxRefreshes  \* bound on the refreshes of a run

ASSUME ListAssumption == {PageSize, QueryLimit} \subseteq Nat \ {0} /\ MaxRefreshes \in Nat

VARIABLES
  servers,     \* the addresses listed
  queue,       \* queued_servers: "none", "fresh" (0), "asked", "late" after 10 s
  requesting,  \* master_state.requesting
  page,        \* server_list_page
  update,      \* update_server_list
  lanMode,     \* lan_mode
  lastIndex,   \* the static of join_server, 0 for none
  refreshes    \* history: how often the list was refreshed

listVars == <<servers, queue, requesting, page, update, lanMode, lastIndex, refreshes>>
vars == <<partyVars, listVars>>

Init ==
  /\ PartyInit
  /\ servers = <<>>
  /\ queue = [s \in Servers |-> "none"]
  /\ requesting = FALSE
  /\ page = 0 /\ update = FALSE
  /\ lanMode = FALSE
  /\ lastIndex = 0
  /\ refreshes = 0

\* The challenge of a query of the list, random as those of joins: no join's.
NoJoin == -1

Queued(state) == {s \in Servers : queue[s] = state}
PageCount == (Len(servers) + PageSize - 1) \div PageSize

----------------------------------------------------------------------------
(* The menu *)

\* getservers is sent, unless the name of the master does not resolve.
AskMaster ==
  /\ requesting' = TRUE \/ UNCHANGED requesting
  /\ refreshes' = refreshes + 1

Refresh ==
  /\ ~lanMode /\ refreshes < MaxRefreshes
  /\ servers' = <<>> /\ queue' = [s \in Servers |-> "none"] /\ page' = 0
  /\ AskMaster
  /\ ResetConnectState
  /\ UNCHANGED <<retries, engineVars, queries, requests, started, update, lanMode, lastIndex>>

\* The first click on a row selects it, the second in a row connects.
JoinServer(index) ==
  LET i == index + page * PageSize IN
  /\ ~lanMode /\ i <= Len(servers)
  /\ IF lastIndex # i THEN lastIndex' = i /\ UNCHANGED partyVars
     ELSE Connect(servers[i]) /\ UNCHANGED <<connecting, inGame, virtualLobby, lastIndex>>
  /\ UNCHANGED <<servers, queue, requesting, page, update, lanMode, refreshes>>

\* ui_feeder_count says 0 once, so that the menu reads every row again.
FeederCount ==
  /\ ~lanMode /\ update
  /\ update' = FALSE
  /\ UNCHANGED <<partyVars, servers, queue, requesting, page, lanMode, lastIndex, refreshes>>

\* The wheel, at most every half a second.
Scroll ==
  /\ ~lanMode /\ ~update
  /\ \/ page + 1 < PageCount /\ page' = page + 1
     \/ page > 0 /\ page' = page - 1
  /\ update' = TRUE
  /\ UNCHANGED <<partyVars, servers, queue, requesting, lanMode, lastIndex, refreshes>>

SetLanMode ==
  /\ lanMode' = ~lanMode
  /\ page' = 0
  /\ UNCHANGED <<partyVars, servers, queue, requesting, update, lastIndex, refreshes>>

----------------------------------------------------------------------------
(* The queries *)

\* Mutant: an expired server is asked again.
AskAgain ==
  /\ Queued("fresh") \cup Queued("late") # {}
  /\ \E asked \in SUBSET (Queued("fresh") \cup Queued("late")) :
       /\ asked # {}
       /\ queue' = [s \in Servers |-> IF s \in asked THEN "asked" ELSE queue[s]]
       /\ queries' = queries \cup {Query(s, NoJoin) : s \in asked}
  /\ UNCHANGED <<connectState, retries, engineVars, requests, cancelled, started,
                 servers, requesting, page, update, lanMode, lastIndex, refreshes>>

\* do_frame_work: drop what did not answer, ask the next few.
FrameWork ==
  /\ Queued("fresh") \cup Queued("late") # {}
  /\ \E asked \in SUBSET Queued("fresh") :
       /\ Cardinality(asked) <= QueryLimit
       /\ Cardinality(asked) = QueryLimit \/ asked = Queued("fresh")
       /\ queue' = [s \in Servers |-> IF s \in asked THEN "asked"
                                      ELSE IF queue[s] = "late" THEN "none" ELSE queue[s]]
       /\ queries' = queries \cup {Query(s, NoJoin) : s \in asked}
  /\ UNCHANGED <<connectState, retries, engineVars, requests, cancelled, started,
                 servers, requesting, page, update, lanMode, lastIndex, refreshes>>

\* Ten seconds pass.
Late(s) ==
  /\ queue[s] = "asked"
  /\ queue' = [queue EXCEPT ![s] = "late"]
  /\ UNCHANGED <<partyVars, servers, requesting, page, update, lanMode, lastIndex, refreshes>>

\* Mutant: every list of the master is taken.
TakeEveryList ==
  /\ refreshes > 0
  /\ \E known \in SUBSET Servers :
       queue' = [s \in Servers |-> IF s \in known THEN "fresh" ELSE queue[s]]
  /\ UNCHANGED <<partyVars, servers, requesting, page, update, lanMode, lastIndex, refreshes>>

\* getServersResponse, to this or an earlier getservers
GetServersResponse ==
  /\ requesting
  /\ requesting' = FALSE
  /\ \E known \in SUBSET Servers :
       queue' = [s \in Servers |-> IF s \in known THEN "fresh" ELSE queue[s]]
  /\ UNCHANGED <<partyVars, servers, page, update, lanMode, lastIndex, refreshes>>

\* handle_info_response: a dedicated running server of this play mode that was
\* asked is listed, where its clients and ping sort it.
HandleInfoResponse(q) ==
  \/ UNCHANGED listVars
  \/ /\ queue[q.address] \in {"asked", "late"}
     /\ queue' = [queue EXCEPT ![q.address] = "none"]
     /\ \E i \in 1 .. Len(servers) + 1 : servers' = InsertAt(servers, i, q.address)
     /\ update' = TRUE
     /\ UNCHANGED <<requesting, page, lanMode, lastIndex, refreshes>>

\* infoResponse: first the list, then the join
InfoResponse(q) == HandleInfoResponse(q) /\ JoinAnswered(q)

----------------------------------------------------------------------------
Next ==
  \/ PartyNext /\ UNCHANGED listVars
  \/ Refresh \/ FeederCount \/ Scroll \/ SetLanMode
  \/ \E index \in 1 .. PageSize : JoinServer(index)
  \/ FrameWork \/ GetServersResponse
  \/ \E s \in Servers : Late(s)
  \/ \E q \in queries : InfoResponse(q)

Spec == Init /\ [][Next]_vars

\* The frame loop runs and the clock goes on.
ListFairness == WF_vars(FrameWork) /\ \A s \in Servers : WF_vars(Late(s))

FairSpec == Spec /\ ListFairness
----------------------------------------------------------------------------
(* Properties *)

\* A server is listed once, and not while its answer is awaited, whatever lists
\* and answers are late or doubled: each refresh starts from empty lists.
ListedOnce ==
  /\ IsInjective(servers)
  /\ \A i \in DOMAIN servers : queue[servers[i]] = "none"
  /\ requesting => servers = <<>>

\* No server waits in the queue for ever: it answers or is dropped.
QueueDrains == \A s \in Servers : queue[s] # "none" ~> queue[s] = "none"
=============================================================================
