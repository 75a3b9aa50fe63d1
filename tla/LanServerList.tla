---------------------------- MODULE LanServerList ----------------------------
(***************************************************************************)
(* src/client/component/lan_server_list.cpp on top of party.cpp, where its *)
(* joins lead. While the menu is open a broadcast asks for servers every   *)
(* three seconds and drops those that were silent for ten; an answer, late *)
(* or doubled, lists a server or renews it. All on the main thread.        *)
(***************************************************************************)
EXTENDS Party, SequencesExt

CONSTANT PageSize  \* server_limit

ASSUME PageAssumption == PageSize \in Nat \ {0}

VARIABLES
  listed,    \* the addresses in servers
  old,       \* those of them last seen more than ten seconds ago
  page,      \* server_list_page
  update,    \* update_server_list
  menuOpen,  \* menu_systemlink_join
  asked      \* some getLANInfo was broadcast

lanVars == <<listed, old, page, update, menuOpen, asked>>
vars == <<partyVars, lanVars>>

Init ==
  /\ PartyInit
  /\ listed = <<>> /\ old = {}
  /\ page = 0 /\ update = FALSE
  /\ menuOpen = FALSE /\ asked = FALSE

PageCount == (Len(listed) + PageSize - 1) \div PageSize

----------------------------------------------------------------------------
MoveMenu ==
  /\ menuOpen' = ~menuOpen
  /\ UNCHANGED <<partyVars, listed, old, page, update, asked>>

\* refresh, which broadcasts
Refresh ==
  /\ listed' = <<>> /\ old' = {} /\ page' = 0
  /\ ResetConnectState
  /\ asked' = TRUE
  /\ UNCHANGED <<retries, engineVars, queries, requests, started, update, menuOpen>>

\* do_frame_work once broadcast_interval has passed: do_broadcast and
\* clean_stale_servers, which leaves the page
FrameWork ==
  /\ menuOpen
  /\ asked' = TRUE
  /\ listed' = SelectSeq(listed, LAMBDA s : s \notin old)
  /\ old' = {}
  /\ UNCHANGED <<partyVars, page, update, menuOpen>>

\* Ten seconds without an answer of a server
Silence(s) ==
  /\ s \in ToSet(listed) \ old
  /\ old' = old \cup {s}
  /\ UNCHANGED <<partyVars, listed, page, update, menuOpen, asked>>

\* insert_server: where its clients and ping sort it
InsertServer(s) ==
  LET others == SelectSeq(listed, LAMBDA t : t # s) IN
  \E i \in 1 .. Len(others) + 1 : listed' = InsertAt(others, i, s)

\* lanInfoResponse of a running server of this play mode, not this process;
\* others change nothing. The answer may be doubled and late.
LanInfoResponse(s) ==
  /\ asked /\ menuOpen
  /\ InsertServer(s)
  /\ old' = old \ {s} /\ update' = TRUE
  /\ UNCHANGED <<partyVars, page, menuOpen, asked>>

\* The wheel: update_server_list, which no one clears, disables it from the
\* first server on.
Scroll ==
  /\ menuOpen
  /\ page' \in IF update THEN {page}
               ELSE {page} \cup {p \in {page - 1, page + 1} : p \in 0 .. PageCount - 1}
  /\ update' = (update \/ page' # page)
  /\ UNCHANGED <<partyVars, listed, old, menuOpen, asked>>

\* join_server: a row that is gone meanwhile joins nothing.
JoinServer(index) ==
  LET i == index + page * PageSize IN
  /\ menuOpen /\ i <= Len(listed)
  /\ ConnectLan(listed[i])
  /\ UNCHANGED lanVars

JoinNext ==
  \/ ConnectCommand \/ ReconnectCommand
  \/ \E r \in BagToSet(retries) : RunRetry(r)
  \/ \E q \in queries : JoinAnswered(q)
  \/ EnterGame \/ LeaveGame \/ LobbyChanges \/ SyncFlags

Next ==
  \/ JoinNext /\ UNCHANGED lanVars
  \/ MoveMenu \/ Refresh \/ FrameWork \/ Scroll
  \/ \E s \in Servers : Silence(s) \/ LanInfoResponse(s)
  \/ \E index \in 1 .. PageSize : JoinServer(index)

\* The scheduler runs what joins wait for.
Spec == Init /\ [][Next]_vars /\ PartyFairness
=============================================================================
