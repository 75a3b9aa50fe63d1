------------------------------ MODULE Demonware ------------------------------
(***************************************************************************)
(* src/client/component/demonware.cpp and the servers it emulates: the     *)
(* game's socket calls (any game thread) put packets into a server's input *)
(* queue and take replies out of its output queue, the "Demonware" thread  *)
(* takes the packets one by one and answers them. A packet of the game is  *)
(* one send; a service's reply may be received in two parts.              *)
(***************************************************************************)
EXTENDS Integers, SequencesExt, FiniteSetsExt

CONSTANTS
  TcpSockets, UdpSockets,  \* the handles the game uses for either protocol
  Stuns,                   \* the udp servers
  Discoveries,             \* the types of datagrams sent: 20 nat, 30 ip, others unanswered
  Order,                   \* the servers in the order a frame visits them, tcp before udp
  Budgets                  \* bound: the numbers of packets and datagrams the game may send

Tcp == {"auth", "lobby"}  \* the third, umbrella, takes packets and answers none

ASSUME DemonwareAssumption ==
  /\ Order \in [1..Len(Order) -> Tcp \cup Stuns] /\ Range(Order) = Tcp \cup Stuns
  /\ \A i, j \in DOMAIN Order : i < j /\ Order[j] \in Tcp => Order[i] \in Tcp
  /\ Budgets \subseteq [packets : Nat, datagrams : Nat]

VARIABLES
  linked,      \* socket_map: the server of each tcp socket, "none" without one
  blocking,    \* blocking_sockets: the udp sockets set blocking
  tcpIn, tcpOut, udpIn, udpOut,  \* the servers' queues
  exitServer, thread, at,        \* exit_server; where the thread is, at which server of Order
  destroy,                       \* pre_destroy: "no", "joining", "joined"
  sessionKey, transcript, keys,  \* keys.cpp: data and packet_buffer
  transactions,                  \* the static id of service_reply::send
  userFile,                      \* players2/user: the request that wrote the file, 0 for none
  stage, left, asked, read,      \* the game: its handshake, and what it sent and received
  fresh                          \* history: nothing was left over when it came to the lobby last

socketVars == <<linked, blocking>>
queueVars == <<tcpIn, tcpOut, udpIn, udpOut>>
threadVars == <<exitServer, thread, at, destroy>>
lobbyVars == <<sessionKey, transcript, keys, transactions, userFile>>
gameVars == <<stage, left, asked, read, fresh>>
vars == <<socketVars, queueVars, threadVars, lobbyVars, gameVars>>

\* A refused file is one the disk does not take.
Tasks == {"set_user_file", "set_refused_file", "get_user_file", "other"}
\* A reply: a service answer has a number, the data of a file is named by the request that wrote it.
Reply(id, result, file) == [id |-> id, result |-> result, file |-> file]
Raw(result) == Reply(0, result, 0)
Parts(reply) ==
  IF reply.id = 0 THEN <<[reply |-> reply, part |-> 1]>>
  ELSE <<[reply |-> reply, part |-> 1], [reply |-> reply, part |-> 2]>>

Init ==
  /\ linked = [s \in TcpSockets |-> "none"] /\ blocking = {}
  /\ tcpIn = [t \in Tcp |-> <<>>] /\ tcpOut = [t \in Tcp |-> <<>>]
  /\ udpIn = [t \in Stuns |-> <<>>] /\ udpOut = [t \in Stuns |-> [s \in UdpSockets |-> <<>>]]
  /\ exitServer = FALSE /\ thread = "created" /\ at = 0 /\ destroy = "no"
  /\ sessionKey = FALSE /\ transcript = <<>> /\ keys = <<>>
  /\ transactions = 0 /\ userFile = 0
  /\ stage = "start" /\ left \in Budgets
  /\ asked = [t \in Tcp |-> <<>>] /\ read = [t \in Tcp |-> <<>>] /\ fresh = FALSE

----------------------------------------------------------------------------
(* The game's calls. It logs in with the ticket server, shakes hands with  *)
(* the lobby and then calls services; a closed lobby connection is opened  *)
(* again with a new handshake. It takes what it receives on a connection   *)
(* for the answer to what it sent there: its handshake fails on any other. *)

\* socket_link: the queues are the server's, and stay as they are.
Connect(s) ==
  /\ linked[s] = "none"
  /\ \E t \in Tcp \cup {"elsewhere"} :
       /\ linked' = IF t \in Tcp THEN [linked EXCEPT ![s] = t] ELSE linked
       /\ fresh' = IF t = "lobby" THEN tcpIn[t] = <<>> /\ tcpOut[t] = <<>> /\ t \notin Range(linked)
                   ELSE fresh
  /\ UNCHANGED <<blocking, queueVars, threadVars, lobbyVars, stage, left, asked, read>>

CloseSocket(s) ==
  /\ linked' = [linked EXCEPT ![s] = "none"]
  /\ stage' = IF linked[s] = "lobby" /\ stage # "start" THEN "ticket" ELSE stage
  /\ UNCHANGED <<blocking, queueVars, threadVars, lobbyVars, left, asked, read, fresh>>

\* What the game sends next: one handshake step, or a request.
Packets(t) ==
  IF t = "auth" THEN IF stage = "start" THEN {"post", "ticket"} ELSE {}
  ELSE CASE stage = "start" -> {}
         [] stage = "ticket" -> {"header"}
         [] stage = "acked" -> {"auth"}
         [] stage = "done" -> Tasks \cup {"zero", "junk"}
         [] OTHER -> {}

\* The stages of a game that has sent a step of its handshake, and has its answer
Waiting(step) == IF step = "header" THEN "waiting_header" ELSE "waiting_auth"
Completed(step) == IF step = "header" THEN "acked" ELSE "done"

Send(s) ==
  /\ linked[s] # "none" /\ left.packets > 0 /\ left' = [left EXCEPT !.packets = @ - 1]
  /\ \E p \in Packets(linked[s]) :
       /\ tcpIn' = [tcpIn EXCEPT ![linked[s]] = Append(@, p)]
       /\ asked' = [asked EXCEPT ![linked[s]] = Append(@, p)]
       /\ stage' = IF p \in {"header", "auth"} THEN Waiting(p) ELSE stage
  /\ UNCHANGED <<socketVars, tcpOut, udpIn, udpOut, threadVars, lobbyVars, read, fresh>>

\* The stage after the next part of a server's stream
After(current, unit, t) ==
  CASE t = "auth" -> IF current = "start" /\ unit.reply = Raw("ticket") THEN "ticket" ELSE current
    [] current = "waiting_header" -> IF unit.reply = Raw("ack") THEN "acked" ELSE "failed"
    [] current = "waiting_auth" -> IF unit.reply = Raw("done") THEN "done" ELSE "failed"
    [] t = "lobby" /\ current \in {"ticket", "acked"} -> "failed"
    [] OTHER -> current

Advance(t, units) ==
  IF Len(units) = 1 THEN After(stage, units[1], t)
  ELSE After(After(stage, units[1], t), units[2], t)

\* select_stub: the linked sockets with a reply pending; none once exit_server is set.
ReadReady == IF exitServer THEN {}
             ELSE {s \in TcpSockets : linked[s] # "none" /\ tcpOut[linked[s]] # <<>>}

\* The game receives, by at most length parts, from a socket select reported.
Recv(s) ==
  /\ s \in ReadReady
  /\ LET out == tcpOut[linked[s]] IN \E length \in 1..2 :
       LET units == SubSeq(out, 1, length) IN
         /\ length <= Len(out)
         /\ tcpOut' = [tcpOut EXCEPT ![linked[s]] = SubSeq(out, length + 1, Len(out))]
         /\ read' = [read EXCEPT ![linked[s]] = @ \o units]
         /\ stage' = Advance(linked[s], units)
  /\ UNCHANGED <<socketVars, tcpIn, udpIn, udpOut, threadVars, lobbyVars, left, asked, fresh>>

IoctlSocket(s) ==
  /\ \E block \in BOOLEAN : blocking' = IF block THEN blocking \cup {s} ELSE blocking \ {s}
  /\ UNCHANGED <<linked, queueVars, threadVars, lobbyVars, gameVars>>

SendTo(s) ==
  /\ left.datagrams > 0 /\ left' = [left EXCEPT !.datagrams = @ - 1]
  /\ \E t \in Stuns, type \in Discoveries :
       udpIn' = [udpIn EXCEPT ![t] = Append(@, [socket |-> s, type |-> type])]
  /\ UNCHANGED <<socketVars, tcpIn, tcpOut, udpOut, threadVars, lobbyVars, stage, asked, read, fresh>>

\* Every server with data for the socket gives up a datagram, the buffer keeps the last.
RecvFrom(s) ==
  /\ s \notin blocking
  /\ \E t \in Stuns : udpOut[t][s] # <<>>
  /\ udpOut' = [t \in Stuns |-> IF udpOut[t][s] = <<>> THEN udpOut[t]
                                ELSE [udpOut[t] EXCEPT ![s] = Tail(@)]]
  /\ UNCHANGED <<socketVars, tcpIn, tcpOut, udpIn, threadVars, lobbyVars, gameVars>>

----------------------------------------------------------------------------
(* The answers. Each operator gives what the handler does to lobbyVars and *)
(* the replies it sends.                                                   *)

Stream(replies) == FlattenSeq([i \in DOMAIN replies |-> Parts(replies[i])])
Answer(t, replies) == tcpOut' = [tcpOut EXCEPT ![t] = @ \o Stream(replies)]

AuthHandle(packet) ==
  /\ sessionKey' = (sessionKey \/ packet = "ticket")
  /\ Answer("auth", IF packet = "ticket" THEN <<Raw("ticket")>> ELSE <<>>)
  /\ UNCHANGED <<transcript, keys, transactions, userFile>>

ServiceReply(result, file) ==
  /\ transactions' = transactions + 1
  /\ Answer("lobby", <<Reply(transactions + 1, result, file)>>)

SetUserFile ==
  /\ userFile' = transactions + 1
  /\ ServiceReply("info", 0)

GetUserFile ==
  /\ ServiceReply(IF userFile = 0 THEN "no_file" ELSE "file", userFile)
  /\ UNCHANGED userFile

\* call_service: a file that is not written, and a task or a service that is
\* not known, are answered without an error too.
CallService(task) ==
  /\ \/ task = "set_user_file" /\ SetUserFile
     \/ task = "set_refused_file" /\ ServiceReply("info", 0) /\ UNCHANGED userFile
     \/ task = "get_user_file" /\ GetUserFile
     \/ task = "other" /\ ServiceReply("done", 0) /\ UNCHANGED userFile
  /\ UNCHANGED <<sessionKey, transcript, keys>>

\* Mutant: the server's own header is not hashed.
ClientHeaderOnly ==
  /\ transcript' = Append(transcript, "header")
  /\ Answer("lobby", <<Raw("ack")>>)
  /\ UNCHANGED <<sessionKey, keys, transactions, userFile>>

ClientHeader ==
  /\ transcript' = transcript \o <<"header", "ack">>
  /\ Answer("lobby", <<Raw("ack")>>)
  /\ UNCHANGED <<sessionKey, keys, transactions, userFile>>

\* derive_keys_s1 hashes the whole of packet_buffer, which is never emptied.
ClientAuth ==
  /\ transcript' = Append(transcript, "auth")
  /\ keys' = <<sessionKey, transcript'>>
  /\ Answer("lobby", <<Raw("done")>>)
  /\ UNCHANGED <<sessionKey, transactions, userFile>>

LobbyHandle(packet) ==
  \/ packet = "zero" /\ Answer("lobby", <<Raw("zero")>>) /\ UNCHANGED lobbyVars
  \/ packet = "junk" /\ UNCHANGED <<tcpOut, lobbyVars>>
  \/ packet = "header" /\ ClientHeader
  \/ packet = "auth" /\ ClientAuth
  \/ packet \in Tasks /\ CallService(packet)

StunHandle(t, packet) ==
  udpOut' = IF packet.type \notin {20, 30} THEN udpOut
            ELSE [udpOut EXCEPT ![t][packet.socket] = Append(@, packet.type + 1)]

----------------------------------------------------------------------------
(* The thread *)

ServerMain ==
  /\ thread = "created"
  /\ exitServer' = FALSE /\ thread' = "test"
  /\ UNCHANGED <<at, destroy, socketVars, queueVars, lobbyVars, gameVars>>

\* Mutant: the loop has no end.
TestNothing ==
  /\ thread = "test"
  /\ thread' = "frame" /\ at' = 1
  /\ UNCHANGED <<exitServer, destroy, socketVars, queueVars, lobbyVars, gameVars>>

TestExit ==
  /\ thread = "test"
  /\ thread' = IF exitServer THEN "exited" ELSE "frame"
  /\ at' = IF exitServer THEN 0 ELSE 1
  /\ UNCHANGED <<exitServer, destroy, socketVars, queueVars, lobbyVars, gameVars>>

AtServer(t) == thread = "frame" /\ Order[at] = t

\* Mutant: the thread blocks on an empty tcp queue.
FrameWaits(t) ==
  /\ AtServer(t) /\ t \in Stuns
  /\ udpIn[t] = <<>>
  /\ at' = (at + 1) % (Len(Order) + 1)
  /\ thread' = IF at' = 0 THEN "test" ELSE "frame"
  /\ UNCHANGED <<exitServer, destroy, socketVars, queueVars, lobbyVars, gameVars>>

\* The frame moves on from a server whose queue it finds empty.
FrameDone(t) ==
  /\ AtServer(t)
  /\ IF t \in Tcp THEN tcpIn[t] = <<>> ELSE udpIn[t] = <<>>
  /\ at' = (at + 1) % (Len(Order) + 1)
  /\ thread' = IF at' = 0 THEN "test" ELSE "frame"
  /\ UNCHANGED <<exitServer, destroy, socketVars, queueVars, lobbyVars, gameVars>>

\* Mutant: the newest packet is taken.
TcpFrameNewest(t) ==
  /\ AtServer(t) /\ tcpIn[t] # <<>>
  /\ tcpIn' = [tcpIn EXCEPT ![t] = Front(@)]
  /\ IF t = "auth" THEN AuthHandle(Last(tcpIn[t])) ELSE LobbyHandle(Last(tcpIn[t]))
  /\ UNCHANGED <<socketVars, udpIn, udpOut, threadVars, gameVars>>

TcpFrame(t) ==
  /\ AtServer(t) /\ tcpIn[t] # <<>>
  /\ tcpIn' = [tcpIn EXCEPT ![t] = Tail(@)]
  /\ IF t = "auth" THEN AuthHandle(Head(tcpIn[t])) ELSE LobbyHandle(Head(tcpIn[t]))
  /\ UNCHANGED <<socketVars, udpIn, udpOut, threadVars, gameVars>>

UdpFrame(t) ==
  /\ AtServer(t) /\ udpIn[t] # <<>>
  /\ udpIn' = [udpIn EXCEPT ![t] = Tail(@)]
  /\ StunHandle(t, Head(udpIn[t]))
  /\ UNCHANGED <<socketVars, tcpIn, tcpOut, threadVars, lobbyVars, gameVars>>

PreDestroy ==
  /\ destroy = "no" /\ destroy' = "joining"
  /\ exitServer' = TRUE
  /\ UNCHANGED <<thread, at, socketVars, queueVars, lobbyVars, gameVars>>

Join ==
  /\ destroy = "joining" /\ thread = "exited"
  /\ destroy' = "joined"
  /\ UNCHANGED <<exitServer, thread, at, socketVars, queueVars, lobbyVars, gameVars>>

\* The process ends after pre_destroy.
Game ==
  /\ destroy # "joined"
  /\ \/ \E s \in TcpSockets : Connect(s) \/ CloseSocket(s) \/ Send(s) \/ Recv(s)
     \/ \E s \in UdpSockets : IoctlSocket(s) \/ SendTo(s) \/ RecvFrom(s)

Frame == \/ \E t \in Tcp \cup Stuns : FrameDone(t)
         \/ \E t \in Tcp : TcpFrame(t)
         \/ \E t \in Stuns : UdpFrame(t)

ServerThread == ServerMain \/ TestExit \/ Frame

Next == Game \/ ServerThread \/ PreDestroy \/ Join

\* The thread runs; the game polls its open connections.
Spec == Init /\ [][Next]_vars
FairSpec == Spec /\ WF_vars(ServerThread) /\ WF_vars(Join) /\ WF_vars(\E s \in TcpSockets : Recv(s))

----------------------------------------------------------------------------
(* Properties *)

\* The service requests among the first k, and the files the first n write.
TasksIn(requests, k) == Cardinality({i \in 1..k : requests[i] \in Tasks})
WritesIn(requests, n) == {i \in 1..n : requests[i] = "set_user_file"}

\* The number of the request that wrote the file last, 0 without one
LastWrite(requests, n) ==
  IF WritesIn(requests, n) = {} THEN 0 ELSE TasksIn(requests, Max(WritesIn(requests, n)))

\* What a server that took the requests one at a time would have answered to the
\* n-th: service answers are numbered, and a file read is the file last written.
Expected(requests, n) ==
  CASE requests[n] = "ticket" -> <<Raw("ticket")>>
    [] requests[n] = "header" -> <<Raw("ack")>>
    [] requests[n] = "auth" -> <<Raw("done")>>
    [] requests[n] = "zero" -> <<Raw("zero")>>
    [] requests[n] \in {"post", "junk"} -> <<>>
    [] requests[n] \in {"set_user_file", "set_refused_file"} -> <<Reply(TasksIn(requests, n), "info", 0)>>
    [] requests[n] = "other" -> <<Reply(TasksIn(requests, n), "done", 0)>>
    [] requests[n] = "get_user_file" ->
         IF WritesIn(requests, n) = {} THEN <<Reply(TasksIn(requests, n), "no_file", 0)>>
         ELSE <<Reply(TasksIn(requests, n), "file", LastWrite(requests, n))>>

\* How many of its packets a server has taken
Taken(t) == Len(asked[t]) - Len(tcpIn[t])

\* The stream a server gives out, over all its connections and however it is cut by
\* recv, is the whole replies to the packets it took in the order they were sent.
AnswersAreSequential ==
  \A t \in Tcp :
    read[t] \o tcpOut[t] = Stream(FlattenSeq([n \in 1..Taken(t) |-> Expected(asked[t], n)]))

\* The keys of the first handshake come from the session key and from what the
\* client hashed: its header, the server's and its own message.
FirstHandshakeAgrees ==
  (keys # <<>> /\ Cardinality({i \in DOMAIN asked["lobby"] : asked["lobby"][i] = "header"}) = 1)
    => keys = <<TRUE, <<"header", "ack", "auth">>>>

\* A step of the handshake gets its own answer, as the next of the stream, when
\* the game keeps its connection to the lobby open and polls it, unless the
\* thread is told to stop. What a former connection left in the queues would
\* come first on the next one and fail it: the property is about the others.
HandshakeAnswered ==
  \A step \in {"header", "auth"} :
    (stage = Waiting(step) /\ fresh) ~>
      (stage = Completed(step) \/ exitServer \/ \A s \in TcpSockets : linked[s] # "lobby")

\* pre_destroy ends once the thread has begun its loop.
DemonwareJoins == (destroy = "joining" /\ exitServer /\ thread # "created") ~> (destroy = "joined")
=============================================================================
