-------------------------- MODULE ServerList_proofs --------------------------
(***************************************************************************)
(* The two server lists and the joins they share with party.cpp, for any   *)
(* number of servers, refreshes and joins and pages of any size.           *)
(***************************************************************************)
EXTENDS ServerList, SequenceTheorems, TLAPS

\* The local network's list, with its own variables over the same joins
VARIABLES listed, old, menuOpen, asked

Lan == INSTANCE LanServerList

----------------------------------------------------------------------------
(* Joins *)

\* A challenge that is set is that of the latest join, which no refresh has
\* cancelled; no query has the challenge of a state that was reset.
JoinInv ==
  /\ {requests, cancelled, challenge} \subseteq Nat /\ cancelled <= requests
  /\ challenge # 0 => challenge = requests /\ challenge > cancelled
  /\ \A q \in queries : q.challenge \in Int \ {0}

LEMMA JoinInitially == Init => JoinInv
<1>1. Init => requests = 0 /\ cancelled = 0 /\ challenge = 0 /\ queries = {}
  BY DEF Init, PartyInit
<1>2. QED
  BY <1>1 DEF JoinInv

LEMMA ConnectKeepsJoins ==
  ASSUME JoinInv, NEW target, Connect(target)
  PROVE  JoinInv' /\ UNCHANGED started
BY DEF JoinInv, Connect, Query

LEMMA JoinStep ==
  ASSUME JoinInv, [Next]_vars
  PROVE  JoinInv' /\ (started' = started \/ (started' = requests /\ started' > cancelled))
<1>1. CASE PartyNext
  <2>1. CASE ConnectCommand \/ ReconnectCommand
    BY <2>1, ConnectKeepsJoins DEF ConnectCommand, ReconnectCommand
  <2>2. CASE \E target \in Servers : ConnectLan(target)
    BY <2>2 DEF ConnectLan, JoinInv
  <2>3. CASE \E r \in BagToSet(retries) : RunRetry(r)
    BY <2>3 DEF RunRetry, connectState, JoinInv
  <2>4. CASE EnterGame \/ LeaveGame \/ LobbyChanges \/ SyncFlags
    BY <2>4 DEF EnterGame, LeaveGame, LobbyChanges, SyncFlags, connectState, JoinInv
  <2>5. QED
    BY <1>1, <2>1, <2>2, <2>3, <2>4 DEF PartyNext
<1>2. CASE Refresh
  <2>1. requests' = requests /\ cancelled' = requests /\ challenge' = 0 /\ UNCHANGED <<queries, started>>
    BY <1>2 DEF Refresh, ResetConnectState
  <2>2. QED
    BY <2>1 DEF JoinInv
<1>3. CASE FrameWork
  <2>1. \A q \in queries' : q \in queries \/ q.challenge = -1
    BY <1>3 DEF FrameWork, Query, NoJoin
  <2>2. QED
    BY <1>3, <2>1 DEF FrameWork, connectState, JoinInv
<1>4. CASE \E index \in 1 .. PageSize : JoinServer(index)
  <2>1. PICK index \in 1 .. PageSize : JoinServer(index)
    BY <1>4
  <2>2. CASE UNCHANGED partyVars
    BY <2>2 DEF partyVars, connectState, JoinInv
  <2>3. CASE \E target : Connect(target)
    BY <2>3, ConnectKeepsJoins
  <2>4. QED
    BY <2>1, <2>2, <2>3 DEF JoinServer
<1>5. CASE \E q \in queries : InfoResponse(q)
  BY <1>5 DEF InfoResponse, JoinAnswered, connectState, JoinInv
<1>6. CASE UNCHANGED partyVars
  BY <1>6 DEF partyVars, connectState, JoinInv
<1>7. CASE FeederCount \/ Scroll \/ SetLanMode \/ GetServersResponse \/ (\E s \in Servers : Late(s)) \/ UNCHANGED vars
  BY <1>6, <1>7 DEF FeederCount, Scroll, SetLanMode, GetServersResponse, Late, vars
<1>8. QED
  BY <1>1, <1>2, <1>3, <1>4, <1>5, <1>7 DEF Next

\* With the list's queries among the joins' and refreshes that cancel joins,
\* only the answer to the latest join starts one (party.cpp:216-230, 639-736).
THEOREM OnlyLatestJoinStarts == Spec => StartsLatestJoin
<1>1. Init => JoinInv
  BY JoinInitially
<1>2. JoinInv /\ [Next]_vars => JoinInv'
  BY JoinStep
<1>3. JoinInv /\ [Next]_vars => [started' # started => started' = requests /\ started' > cancelled]_partyVars
  BY JoinStep
<1>4. QED
  BY <1>1, <1>2, <1>3, PTL DEF Spec, StartsLatestJoin

\* The list of the local network joins without a challenge and cancels with its
\* refreshes, as the other does: the invariant is the same.
LEMMA LanJoinStep ==
  ASSUME JoinInv, [Lan!Next]_Lan!vars
  PROVE  JoinInv' /\ (started' = started \/ (started' = requests /\ started' > cancelled))
<1>1. CASE Lan!JoinNext
  <2>1. CASE Lan!ConnectCommand \/ Lan!ReconnectCommand
    BY <2>1 DEF Lan!ConnectCommand, Lan!ReconnectCommand, Lan!Connect, Lan!Query, JoinInv
  <2>2. CASE \E r \in Lan!BagToSet(retries) : Lan!RunRetry(r)
    BY <2>2 DEF Lan!RunRetry, Lan!connectState, JoinInv
  <2>3. CASE \E q \in queries : Lan!JoinAnswered(q)
    BY <2>3 DEF Lan!JoinAnswered, Lan!connectState, JoinInv
  <2>4. CASE Lan!EnterGame \/ Lan!LeaveGame \/ Lan!LobbyChanges \/ Lan!SyncFlags
    BY <2>4 DEF Lan!EnterGame, Lan!LeaveGame, Lan!LobbyChanges, Lan!SyncFlags, Lan!connectState, JoinInv
  <2>5. QED
    BY <1>1, <2>1, <2>2, <2>3, <2>4 DEF Lan!JoinNext
<1>2. CASE Lan!Refresh
  <2>1. requests' = requests /\ cancelled' = requests /\ challenge' = 0 /\ UNCHANGED <<queries, started>>
    BY <1>2 DEF Lan!Refresh, Lan!ResetConnectState
  <2>2. QED
    BY <2>1 DEF JoinInv
<1>3. CASE \E index \in 1 .. PageSize : Lan!JoinServer(index)
  BY <1>3 DEF Lan!JoinServer, Lan!ConnectLan, JoinInv
<1>4. CASE \/ Lan!MoveMenu \/ Lan!FrameWork \/ Lan!Scroll \/ UNCHANGED Lan!vars
           \/ \E s \in Servers : Lan!Silence(s) \/ Lan!LanInfoResponse(s)
  <2>1. UNCHANGED Lan!partyVars
    BY <1>4 DEF Lan!MoveMenu, Lan!FrameWork, Lan!Scroll, Lan!vars, Lan!Silence, Lan!LanInfoResponse
  <2>2. QED
    BY <2>1 DEF Lan!partyVars, Lan!connectState, JoinInv
<1>5. QED
  BY <1>1, <1>2, <1>3, <1>4 DEF Lan!Next

\* With the list of the local network as well only the answer to the latest join
\* starts one: joining a row leaves the challenge of a join that waits alone
\* (lan_server_list.cpp:191-202, party.cpp:232-254).
THEOREM LanKeepsLatestJoin == Lan!Spec => Lan!StartsLatestJoin
<1>1. Lan!Init => JoinInv
  BY DEF Lan!Init, Lan!PartyInit, JoinInv
<1>2. JoinInv /\ [Lan!Next]_Lan!vars => JoinInv'
  BY LanJoinStep
<1>3. JoinInv /\ [Lan!Next]_Lan!vars
        => [started' # started => started' = requests /\ started' > cancelled]_Lan!partyVars
  BY LanJoinStep
<1>4. QED
  BY <1>1, <1>2, <1>3, PTL DEF Lan!Spec, Lan!StartsLatestJoin

----------------------------------------------------------------------------
(* The list *)

\* The addresses asked are servers, the joined one included, and none is asked
\* before the master's list is there.
AddressInv ==
  /\ hostDefined => host \in Servers
  /\ \A q \in queries : q.address \in Servers
  /\ servers \in Seq(Servers) /\ page \in Nat
  /\ queue \in [Servers -> {"none", "fresh", "asked", "late"}]
  /\ requesting => \A s \in Servers : queue[s] = "none"

ListInv == AddressInv /\ ListedOnce

LEMMA InsertAtElements ==
  ASSUME NEW S, NEW s \in Seq(S), NEW i \in 1 .. Len(s) + 1, NEW e \in S
  PROVE  /\ InsertAt(s, i, e) \in Seq(S)
         /\ Len(InsertAt(s, i, e)) = Len(s) + 1
         /\ \A j \in 1 .. Len(s) + 1 :
              InsertAt(s, i, e)[j] = IF j < i THEN s[j] ELSE IF j = i THEN e ELSE s[j - 1]
<1> DEFINE front == SubSeq(s, 1, i - 1)
           back == SubSeq(s, i, Len(s))
<1>1. front \in Seq(S) /\ Len(front) = i - 1 /\ \A j \in 1 .. i - 1 : front[j] = s[j]
  OBVIOUS
<1>2. back \in Seq(S) /\ Len(back) = Len(s) - i + 1 /\ \A j \in 1 .. Len(s) - i + 1 : back[j] = s[i + j - 1]
  OBVIOUS
<1> HIDE DEF front, back
<1>3. InsertAt(s, i, e) = (front \o <<e>>) \o back
  BY DEF InsertAt, front, back
<1> DEFINE start == front \o <<e>>
<1>4. start \in Seq(S) /\ Len(start) = i /\ \A j \in 1 .. i : start[j] = IF j < i THEN s[j] ELSE e
  <2>1. <<e>> \in Seq(S) /\ Len(<<e>>) = 1 /\ <<e>>[1] = e
    OBVIOUS
  <2>2. /\ start \in Seq(S) /\ Len(start) = Len(front) + Len(<<e>>)
        /\ \A j \in 1 .. Len(front) + Len(<<e>>) :
             start[j] = IF j <= Len(front) THEN front[j] ELSE <<e>>[j - Len(front)]
    BY <1>1, <2>1, ConcatProperties, Zenon
  <2> HIDE DEF start
  <2>3. QED
    BY <1>1, <2>1, <2>2
<1> HIDE DEF start
<1>5. /\ start \o back \in Seq(S) /\ Len(start \o back) = Len(start) + Len(back)
      /\ \A j \in 1 .. Len(start) + Len(back) :
           (start \o back)[j] = IF j <= Len(start) THEN start[j] ELSE back[j - Len(start)]
  BY <1>2, <1>4, ConcatProperties, Zenon
<1>6. ASSUME NEW j \in 1 .. Len(s) + 1
      PROVE  (start \o back)[j] = IF j < i THEN s[j] ELSE IF j = i THEN e ELSE s[j - 1]
  <2>1. CASE j <= i
    BY <1>2, <1>4, <1>5, <2>1
  <2>2. CASE ~(j <= i)
    <3>1. (start \o back)[j] = back[j - i]
      BY <1>2, <1>4, <1>5, <2>2
    <3>2. back[j - i] = s[j - 1]
      BY <1>2, <2>2
    <3>3. QED
      BY <2>2, <3>1, <3>2
  <2>3. QED
    BY <2>1, <2>2, Zenon
<1>7. InsertAt(s, i, e) = start \o back
  BY <1>3 DEF start
<1>8. QED
  BY <1>2, <1>4, <1>5, <1>6, <1>7

LEMMA InsertKeepsInjective ==
  ASSUME NEW S, NEW s \in Seq(S), NEW i \in 1 .. Len(s) + 1, NEW e \in S,
         IsInjective(s), \A j \in DOMAIN s : s[j] # e
  PROVE  IsInjective(InsertAt(s, i, e))
<1> DEFINE t == InsertAt(s, i, e)
<1>1. /\ DOMAIN t = 1 .. Len(s) + 1
      /\ \A j \in 1 .. Len(s) + 1 : t[j] = IF j < i THEN s[j] ELSE IF j = i THEN e ELSE s[j - 1]
  BY InsertAtElements
<1> HIDE DEF t
<1>2. ASSUME NEW j \in 1 .. Len(s) + 1, NEW k \in 1 .. Len(s) + 1, t[j] = t[k] PROVE j = k
  <2>1. ASSUME NEW l \in 1 .. Len(s), NEW m \in 1 .. Len(s), s[l] = s[m] PROVE l = m
    BY <2>1 DEF IsInjective
  <2>2. \A l \in 1 .. Len(s) : s[l] # e
    OBVIOUS
  <2>3. CASE j = i \/ k = i
    <3>1. t[i] = e
      BY <1>1
    <3>2. ASSUME NEW l \in 1 .. Len(s) + 1, l # i PROVE t[l] # e
      BY <1>1, <2>2, <3>2
    <3>3. QED
      BY <1>2, <2>3, <3>1, <3>2, Zenon
  <2>4. CASE j # i /\ k # i
    <3> DEFINE place(l) == IF l < i THEN l ELSE l - 1
    <3>1. /\ place(j) \in 1 .. Len(s) /\ t[j] = s[place(j)]
          /\ place(k) \in 1 .. Len(s) /\ t[k] = s[place(k)]
      BY <1>1, <2>4
    <3>2. place(j) = place(k)
      BY <1>2, <2>1, <3>1, Zenon
    <3>3. j \in Int /\ k \in Int /\ i \in Int
      OBVIOUS
    <3> HIDE DEF t
    <3>4. QED
      BY <2>4, <3>2, <3>3
  <2>5. QED
    BY <2>3, <2>4, Zenon
<1>3. QED
  BY <1>1, <1>2 DEF IsInjective, t

LEMMA ListInitially == Init => ListInv
<1> SUFFICES ASSUME Init PROVE ListInv
  OBVIOUS
<1>1. servers = <<>> /\ page = 0 /\ hostDefined = FALSE /\ queries = {}
      /\ requesting = FALSE /\ queue = [s \in Servers |-> "none"]
  BY DEF Init, PartyInit
<1>2. QED
  BY <1>1 DEF ListInv, AddressInv, ListedOnce, IsInjective

LEMMA ConnectKeepsList ==
  ASSUME ListInv, NEW target \in Servers, Connect(target), UNCHANGED <<servers, queue, requesting, page>>
  PROVE  ListInv'
<1>1. host' = target /\ \A q \in queries' : q \in queries \/ q.address = target
  BY DEF Connect, Query
<1>2. QED
  BY <1>1 DEF ListInv, AddressInv, ListedOnce

LEMMA ListStep == ListInv /\ [Next]_vars => ListInv'
<1> SUFFICES ASSUME ListInv, [Next]_vars PROVE ListInv'
  OBVIOUS
<1>1. CASE PartyNext /\ UNCHANGED listVars
  <2> UNCHANGED <<servers, queue, requesting, page>>
    BY <1>1 DEF listVars
  <2>1. CASE ConnectCommand
    BY <2>1, ConnectKeepsList DEF ConnectCommand
  <2>2. CASE ReconnectCommand
    BY <2>2, ConnectKeepsList DEF ReconnectCommand, ListInv, AddressInv
  <2>3. CASE \E target \in Servers : ConnectLan(target)
    BY <2>3 DEF ConnectLan, ListInv, AddressInv, ListedOnce
  <2>4. CASE \E r \in BagToSet(retries) : RunRetry(r)
    BY <2>4 DEF RunRetry, connectState, ListInv, AddressInv, ListedOnce
  <2>5. CASE EnterGame \/ LeaveGame \/ LobbyChanges \/ SyncFlags
    BY <2>5 DEF EnterGame, LeaveGame, LobbyChanges, SyncFlags, connectState, ListInv, AddressInv, ListedOnce
  <2>6. QED
    BY <1>1, <2>1, <2>2, <2>3, <2>4, <2>5 DEF PartyNext
<1>2. CASE Refresh
  <2>1. /\ servers' = <<>> /\ queue' = [s \in Servers |-> "none"] /\ page' = 0
        /\ hostDefined' = FALSE /\ queries' = queries
    BY <1>2 DEF Refresh, ResetConnectState
  <2>2. QED
    BY <2>1 DEF ListInv, AddressInv, ListedOnce, IsInjective
<1>3. CASE FrameWork
  <2>1. PICK chosen \in SUBSET Queued("fresh") :
          /\ queue' = [s \in Servers |-> IF s \in chosen THEN "asked"
                                         ELSE IF queue[s] = "late" THEN "none" ELSE queue[s]]
          /\ queries' = queries \cup {Query(s, NoJoin) : s \in chosen}
    BY <1>3 DEF FrameWork
  <2>2. UNCHANGED <<hostDefined, host, servers, requesting, page>>
    BY <1>3 DEF FrameWork, connectState
  <2>3. chosen \subseteq Servers /\ \A s \in chosen : queue[s] = "fresh"
    BY DEF Queued
  <2>4. \A s \in Servers : queue[s] = "none" => queue'[s] = "none"
    BY <2>1, <2>3
  <2>5. AddressInv'
    <3>1. \A q \in queries' : q \in queries \/ q.address \in chosen
      BY <2>1 DEF Query
    <3>2. queue' \in [Servers -> {"none", "fresh", "asked", "late"}]
      BY <2>1 DEF ListInv, AddressInv
    <3>3. QED
      BY <2>2, <2>3, <2>4, <3>1, <3>2 DEF ListInv, AddressInv
  <2>6. \A i \in DOMAIN servers : servers[i] \in Servers
    BY ElementOfSeq DEF ListInv, AddressInv
  <2>7. QED
    BY <2>2, <2>4, <2>5, <2>6 DEF ListInv, ListedOnce
<1>4. CASE \E index \in 1 .. PageSize : JoinServer(index)
  <2>1. PICK index \in 1 .. PageSize : JoinServer(index)
    BY <1>4
  <2> DEFINE i == index + page * PageSize
  <2>2. UNCHANGED <<servers, queue, requesting, page>> /\ i <= Len(servers)
    BY <2>1 DEF JoinServer
  <2>3. CASE UNCHANGED partyVars
    BY <2>2, <2>3 DEF partyVars, connectState, ListInv, AddressInv, ListedOnce
  <2>4. CASE Connect(servers[i])
    <3>1. page * PageSize \in Nat
      BY ListAssumption DEF ListInv, AddressInv
    <3>2. i \in 1 .. Len(servers)
      BY <2>2, <3>1, ListAssumption DEF ListInv, AddressInv
    <3>3. servers[i] \in Servers
      BY <3>2, ElementOfSeq DEF ListInv, AddressInv
    <3>4. QED
      BY <2>2, <2>4, <3>3, ConnectKeepsList
  <2>5. QED
    BY <2>1, <2>3, <2>4 DEF JoinServer
<1>5. CASE \E q \in queries : InfoResponse(q)
  <2>1. PICK q \in queries : InfoResponse(q)
    BY <1>5
  <2>2. UNCHANGED <<host, hostDefined, queries, page>>
    BY <2>1 DEF InfoResponse, JoinAnswered, HandleInfoResponse, connectState, listVars
  <2>3. CASE UNCHANGED listVars
    BY <2>2, <2>3 DEF listVars, ListInv, AddressInv, ListedOnce
  <2>4. CASE /\ queue[q.address] \in {"asked", "late"}
             /\ queue' = [queue EXCEPT ![q.address] = "none"]
             /\ \E i \in 1 .. Len(servers) + 1 : servers' = InsertAt(servers, i, q.address)
             /\ requesting' = requesting
    <3>1. q.address \in Servers
      BY DEF ListInv, AddressInv
    <3>2. PICK i \in 1 .. Len(servers) + 1 : servers' = InsertAt(servers, i, q.address)
      BY <2>4
    <3>3. AddressInv'
      BY <2>2, <2>4, <3>1, <3>2, InsertAtElements DEF ListInv, AddressInv
    <3>4. \A j \in DOMAIN servers : servers[j] # q.address
      BY <2>4 DEF ListInv, ListedOnce
    <3>5. IsInjective(servers')
      BY <3>1, <3>2, <3>4, InsertKeepsInjective DEF ListInv, AddressInv, ListedOnce
    <3>6. ASSUME NEW j \in DOMAIN servers'
          PROVE  servers'[j] = q.address \/ \E k \in DOMAIN servers : servers'[j] = servers[k]
      <4>1. j \in 1 .. Len(servers) + 1
        BY <3>1, <3>2, InsertAtElements DEF ListInv, AddressInv
      <4>2. servers'[j] = IF j < i THEN servers[j] ELSE IF j = i THEN q.address ELSE servers[j - 1]
        <5>1. servers \in Seq(Servers) /\ i \in 1 .. Len(servers) + 1
          BY <3>2 DEF ListInv, AddressInv
        <5>2. \A k \in 1 .. Len(servers) + 1 :
                InsertAt(servers, i, q.address)[k]
                  = IF k < i THEN servers[k] ELSE IF k = i THEN q.address ELSE servers[k - 1]
          BY ONLY <3>1, <5>1, InsertAtElements
        <5>3. QED
          BY <3>2, <4>1, <5>2
      <4>3. j < i => j \in DOMAIN servers
        BY <4>1 DEF ListInv, AddressInv
      <4>4. j > i => j - 1 \in DOMAIN servers
        BY <4>1 DEF ListInv, AddressInv
      <4>5. QED
        BY <4>1, <4>2, <4>3, <4>4
    <3>7. ASSUME NEW j \in DOMAIN servers' PROVE queue'[servers'[j]] = "none"
      <4>1. CASE servers'[j] = q.address
        BY <2>4, <3>1, <4>1 DEF ListInv, AddressInv
      <4>2. CASE \E k \in DOMAIN servers : servers'[j] = servers[k]
        BY <2>4, <4>2 DEF ListInv, AddressInv, ListedOnce
      <4>3. QED
        BY <3>6, <4>1, <4>2
    <3>8. ~requesting'
      BY <2>4, <3>1 DEF ListInv, AddressInv
    <3>9. QED
      BY <3>3, <3>5, <3>7, <3>8 DEF ListInv, ListedOnce
  <2>5. QED
    BY <2>1, <2>3, <2>4 DEF InfoResponse, HandleInfoResponse
<1>6. CASE GetServersResponse
  <2>1. servers = <<>> /\ servers' = <<>> /\ ~requesting' /\ UNCHANGED <<hostDefined, host, queries, page>>
    BY <1>6 DEF GetServersResponse, partyVars, connectState, ListInv, ListedOnce
  <2>2. queue' \in [Servers -> {"none", "fresh", "asked", "late"}]
    BY <1>6 DEF GetServersResponse, ListInv, AddressInv
  <2>3. QED
    BY <2>1, <2>2 DEF ListInv, AddressInv, ListedOnce, IsInjective
<1>7. ASSUME NEW s \in Servers, Late(s) PROVE ListInv'
  <2>1. UNCHANGED <<hostDefined, host, queries, servers, requesting, page>>
    BY <1>7 DEF Late, partyVars, connectState
  <2>2. queue[s] = "asked" /\ queue' = [queue EXCEPT ![s] = "late"]
    BY <1>7 DEF Late
  <2>3. QED
    BY <2>1, <2>2 DEF ListInv, AddressInv, ListedOnce
<1>8. CASE FeederCount \/ Scroll \/ SetLanMode \/ UNCHANGED vars
  <2>1. UNCHANGED <<hostDefined, host, queries, servers, queue, requesting>>
    BY <1>8 DEF FeederCount, Scroll, SetLanMode, vars, listVars, partyVars, connectState
  <2>2. page' \in Nat
    BY <1>8 DEF FeederCount, Scroll, SetLanMode, vars, listVars, ListInv, AddressInv
  <2>3. QED
    BY <2>1, <2>2 DEF ListInv, AddressInv, ListedOnce
<1>9. QED
  BY <1>1, <1>2, <1>3, <1>4, <1>5, <1>6, <1>7, <1>8 DEF Next

\* Whatever lists and answers come late or doubled, a server is listed once and
\* not asked while it is listed (server_list.cpp:210-242, 357-421).
THEOREM ServersListedOnce == Spec => []ListedOnce
<1>1. ListInv => ListedOnce
  BY DEF ListInv
<1>2. QED
  BY <1>1, ListInitially, ListStep, PTL DEF Spec
=============================================================================
