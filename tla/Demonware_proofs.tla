--------------------------- MODULE Demonware_proofs ---------------------------
(***************************************************************************)
(* The emulated servers, for any sockets, servers, packets and datagrams.  *)
(***************************************************************************)
EXTENDS Demonware, SequenceLemmas

----------------------------------------------------------------------------
(* The queues of a server                                                  *)

PacketsOf(t) == IF t = "auth" THEN {"post", "ticket"}
                ELSE {"header", "auth", "zero", "junk"} \cup Tasks
Replies == [id : Nat,
            result : {"ticket", "ack", "done", "zero", "info", "file", "no_file"},
            file : Nat]
Units == [reply : Replies, part : {1, 2}]

Ends(queue, all) ==
  /\ Len(queue) <= Len(all)
  /\ \A i \in 1..Len(queue) : queue[i] = all[Len(all) - Len(queue) + i]

\* What waits in the queue of a server is the end of what was sent to it.
QueueInv ==
  /\ linked \in [TcpSockets -> Tcp \cup {"none"}]
  /\ transactions \in Nat /\ userFile \in Nat
  /\ DOMAIN asked = Tcp /\ DOMAIN tcpIn = Tcp
  /\ {read, tcpOut} \subseteq [Tcp -> Seq(Units)]
  /\ \A t \in Tcp :
       /\ {asked[t], tcpIn[t]} \subseteq Seq(PacketsOf(t))
       /\ Ends(tcpIn[t], asked[t])

\* The state of the lobby's services follows from the requests it has taken.
ServiceInv ==
  /\ transactions = TasksIn(asked["lobby"], Taken("lobby"))
  /\ userFile = LastWrite(asked["lobby"], Taken("lobby"))

AnswerInv == QueueInv /\ ServiceInv /\ AnswersAreSequential

----------------------------------------------------------------------------
(* Requests and replies                                                    *)

Requests == Seq({"post", "ticket", "header", "auth", "zero", "junk"} \cup Tasks)

LEMMA TasksFinite ==
  ASSUME NEW requests, NEW k \in Nat
  PROVE  TasksIn(requests, k) \in Nat /\ IsFiniteSet({i \in 1..k : requests[i] \in Tasks})
<1>1. IsFiniteSet(1..k)
  <2>1. 1 \in Int /\ k \in Int
    OBVIOUS
  <2>2. QED
    BY <2>1, FS_Interval
<1>2. {i \in 1..k : requests[i] \in Tasks} \in SUBSET (1..k)
  OBVIOUS
<1>3. IsFiniteSet({i \in 1..k : requests[i] \in Tasks})
  BY <1>1, <1>2, FS_Subset
<1>4. QED
  BY <1>3, FS_CardinalityType DEF TasksIn

LEMMA TasksNext ==
  ASSUME NEW requests, NEW k \in Nat
  PROVE  TasksIn(requests, k + 1) =
           IF requests[k + 1] \in Tasks THEN TasksIn(requests, k) + 1 ELSE TasksIn(requests, k)
<1> DEFINE S == {i \in 1..k : requests[i] \in Tasks}
<1>1. IsFiniteSet(S) /\ k + 1 \notin S
  BY TasksFinite
<1>2. CASE requests[k + 1] \in Tasks
  <2>1. {i \in 1..k+1 : requests[i] \in Tasks} = S \cup {k + 1}
    BY <1>2
  <2>2. Cardinality(S \cup {k + 1}) = Cardinality(S) + 1
    BY <1>1, FS_AddElement
  <2>3. QED
    BY <1>2, <2>1, <2>2 DEF TasksIn
<1>3. CASE requests[k + 1] \notin Tasks
  <2>1. {i \in 1..k+1 : requests[i] \in Tasks} = S
    BY <1>3
  <2>2. QED
    BY <1>3, <2>1 DEF TasksIn
<1>4. QED
  BY <1>2, <1>3

LEMMA LastWriteType ==
  ASSUME NEW requests, NEW k \in Nat
  PROVE  LastWrite(requests, k) \in Nat /\ (LastWrite(requests, k) = 0 <=> WritesIn(requests, k) = {})
<1>1. CASE WritesIn(requests, k) # {}
  <2> DEFINE m == Max(WritesIn(requests, k))
  <2>1. WritesIn(requests, k) \in SUBSET (1..k)
    BY DEF WritesIn
  <2>2. m \in WritesIn(requests, k)
    BY <1>1, <2>1, GreatestNumber
  <2>3. m \in 1..k /\ requests[m] \in Tasks
    BY <2>2 DEF WritesIn, Tasks
  <2>4. m - 1 \in Nat /\ (m - 1) + 1 = m
    BY <2>3
  <2>5. TasksIn(requests, m) = TasksIn(requests, m - 1) + 1 /\ TasksIn(requests, m - 1) \in Nat
    <3>1. TasksIn(requests, (m - 1) + 1) = TasksIn(requests, m - 1) + 1
      BY <2>3, <2>4, TasksNext
    <3>2. QED
      BY <2>4, <3>1, TasksFinite
  <2>6. LastWrite(requests, k) = TasksIn(requests, m)
    BY <1>1 DEF LastWrite
  <2>7. QED
    BY <1>1, <2>5, <2>6
<1>2. CASE WritesIn(requests, k) = {}
  BY <1>2 DEF LastWrite
<1>3. QED
  BY <1>1, <1>2

LEMMA LastWriteNext ==
  ASSUME NEW requests, NEW k \in Nat
  PROVE  LastWrite(requests, k + 1) =
           IF requests[k + 1] = "set_user_file" THEN TasksIn(requests, k + 1) ELSE LastWrite(requests, k)
<1>1. CASE requests[k + 1] = "set_user_file"
  <2> DEFINE S == WritesIn(requests, k + 1)
  <2>1. S \in SUBSET (1..k+1) /\ k + 1 \in S
    BY <1>1 DEF WritesIn
  <2>2. Max(S) = k + 1
    <3>1. Max(S) \in S /\ \A i \in S : i <= Max(S)
      BY <2>1, GreatestNumber
    <3>2. QED
      BY <2>1, <3>1
  <2>3. QED
    BY <1>1, <2>1, <2>2 DEF LastWrite
<1>2. CASE requests[k + 1] # "set_user_file"
  <2>1. WritesIn(requests, k + 1) = WritesIn(requests, k)
    BY <1>2 DEF WritesIn
  <2>2. QED
    BY <1>2, <2>1 DEF LastWrite
<1>3. QED
  BY <1>1, <1>2

LEMMA ExpectedIs ==
  ASSUME NEW requests \in Requests, NEW k \in 1..Len(requests)
  PROVE  Expected(requests, k) = <<>> \/ \E r \in Replies : Expected(requests, k) = <<r>>
<1>1. requests[k] \in {"post", "ticket", "header", "auth", "zero", "junk"} \cup Tasks /\ k \in Nat
  BY DEF Requests
<1>2. TasksIn(requests, k) \in Nat /\ LastWrite(requests, k) \in Nat
  BY <1>1, TasksFinite, LastWriteType
<1>3. QED
  BY <1>1, <1>2 DEF Expected, Replies, Reply, Raw, Tasks

AnswersTo(requests, k) == FlattenSeq([n \in 1..k |-> Expected(requests, n)])

LEMMA AnswersNext ==
  ASSUME NEW requests \in Requests, NEW k \in Nat, k + 1 <= Len(requests)
  PROVE  /\ AnswersTo(requests, k) \in Seq(Replies)
         /\ AnswersTo(requests, k + 1) = AnswersTo(requests, k) \o Expected(requests, k + 1)
<1> DEFINE ss == [n \in 1..k |-> Expected(requests, n)]
           s == Expected(requests, k + 1)
<1>1. \A n \in 1..k+1 : Expected(requests, n) \in Seq(Replies)
  <2>1. ASSUME NEW n \in 1..k+1 PROVE Expected(requests, n) \in Seq(Replies)
    <3>1. n \in 1..Len(requests)
      BY DEF Requests
    <3>2. Expected(requests, n) = <<>> \/ \E r \in Replies : Expected(requests, n) = <<r>>
      BY <3>1, ExpectedIs
    <3>3. CASE Expected(requests, n) = <<>>
      BY <3>3
    <3>4. ASSUME NEW r \in Replies, Expected(requests, n) = <<r>> PROVE Expected(requests, n) \in Seq(Replies)
      <4>1. <<r>> \in Seq(Replies)
        OBVIOUS
      <4>2. QED
        BY <3>4, <4>1
    <3>5. QED
      BY <3>2, <3>3, <3>4
  <2>2. QED
    BY <2>1
<1>2. ss \in Seq(Seq(Replies)) /\ Len(ss) = k /\ s \in Seq(Replies)
  BY <1>1
<1>3. [n \in 1..k+1 |-> Expected(requests, n)] = Append(ss, s)
  <2>1. Append(ss, s) = [n \in 1..k+1 |-> IF n \in 1..k THEN ss[n] ELSE s]
    BY <1>2
  <2>2. \A n \in 1..k+1 : n \notin 1..k => n = k + 1
    OBVIOUS
  <2>3. QED
    BY <2>1, <2>2
<1>4. QED
  BY <1>2, <1>3, FlattenAppend DEF AnswersTo

\* What was sent later changes no answer.
LEMMA AnswersPrefix ==
  ASSUME NEW requests \in Requests, NEW p, NEW k \in 0..Len(requests)
  PROVE  /\ AnswersTo(Append(requests, p), k) = AnswersTo(requests, k)
         /\ TasksIn(Append(requests, p), k) = TasksIn(requests, k)
         /\ LastWrite(Append(requests, p), k) = LastWrite(requests, k)
<1>1. \A i \in 1..Len(requests) : Append(requests, p)[i] = requests[i]
  BY DEF Requests
<1>2. \A n \in 0..Len(requests) : TasksIn(Append(requests, p), n) = TasksIn(requests, n)
  <2>1. ASSUME NEW n \in 0..Len(requests)
        PROVE  {i \in 1..n : Append(requests, p)[i] \in Tasks} = {i \in 1..n : requests[i] \in Tasks}
    BY <1>1 DEF Requests
  <2>2. QED
    BY <2>1 DEF TasksIn
<1>3. \A n \in 0..Len(requests) : WritesIn(Append(requests, p), n) = WritesIn(requests, n)
  BY <1>1 DEF WritesIn, Requests
<1>4. \A n \in 0..Len(requests) : LastWrite(Append(requests, p), n) = LastWrite(requests, n)
  <2>1. ASSUME NEW n \in 0..Len(requests), WritesIn(requests, n) # {}
        PROVE  Max(WritesIn(requests, n)) \in 0..Len(requests)
    <3>1. n \in Nat /\ WritesIn(requests, n) \in SUBSET (1..n)
      BY DEF WritesIn, Requests
    <3>2. Max(WritesIn(requests, n)) \in 1..n
      BY <2>1, <3>1, GreatestNumber
    <3>3. QED
      BY <3>2 DEF Requests
  <2>2. QED
    BY <1>2, <1>3, <2>1 DEF LastWrite
<1>5. \A n \in 1..k : Expected(Append(requests, p), n) = Expected(requests, n)
  <2>1. ASSUME NEW n \in 1..k PROVE n \in 1..Len(requests) /\ n \in 0..Len(requests)
    BY DEF Requests
  <2>2. QED
    BY <1>1, <1>2, <1>3, <1>4, <2>1 DEF Expected
<1>6. QED
  BY <1>2, <1>4, <1>5 DEF AnswersTo

LEMMA PartsType == ASSUME NEW r \in Replies PROVE Parts(r) \in Seq(Units)
<1> DEFINE u(i) == [reply |-> r, part |-> i]
<1>1. u(1) \in Units /\ u(2) \in Units
  BY DEF Units
<1>2. <<u(1)>> \in Seq(Units) /\ <<u(1), u(2)>> \in Seq(Units)
  <2> HIDE DEF u
  <2>1. QED
    BY <1>1
<1>3. QED
  BY <1>2 DEF Parts

LEMMA StreamAppend ==
  ASSUME NEW replies \in Seq(Replies), NEW r \in Replies
  PROVE  Stream(replies) \in Seq(Units) /\ Stream(Append(replies, r)) = Stream(replies) \o Parts(r)
<1> DEFINE ss == [i \in DOMAIN replies |-> Parts(replies[i])]
<1>1. ss \in Seq(Seq(Units)) /\ Len(ss) = Len(replies)
  <2>1. \A i \in 1..Len(replies) : Parts(replies[i]) \in Seq(Units)
    BY PartsType
  <2>2. DOMAIN replies = 1..Len(replies) /\ Len(replies) \in Nat
    OBVIOUS
  <2>3. QED
    BY <2>1, <2>2
<1>2. [i \in DOMAIN Append(replies, r) |-> Parts(Append(replies, r)[i])] = Append(ss, Parts(r))
  <2>1. Append(ss, Parts(r)) = [i \in 1..Len(replies)+1 |-> IF i \in 1..Len(replies) THEN ss[i] ELSE Parts(r)]
    BY <1>1
  <2>2. \A i \in 1..Len(replies)+1 : Append(replies, r)[i] = IF i \in 1..Len(replies) THEN replies[i] ELSE r
    OBVIOUS
  <2>3. DOMAIN Append(replies, r) = 1..Len(replies)+1 /\ DOMAIN replies = 1..Len(replies)
    OBVIOUS
  <2>4. QED
    BY <2>1, <2>2, <2>3
<1>3. Parts(r) \in Seq(Units)
  BY PartsType
<1>4. QED
  BY <1>1, <1>2, <1>3, FlattenAppend DEF Stream

LEMMA StreamConcat ==
  ASSUME NEW replies \in Seq(Replies), NEW e, e = <<>> \/ \E r \in Replies : e = <<r>>
  PROVE  /\ {Stream(replies), Stream(e)} \subseteq Seq(Units)
         /\ Stream(replies \o e) = Stream(replies) \o Stream(e)
<1>1. Stream(<<>>) = <<>>
  <2>1. [i \in DOMAIN <<>> |-> Parts(<<>>[i])] = <<>>
    OBVIOUS
  <2>2. QED
    BY <2>1, FlattenEmpty DEF Stream
<1>2. Stream(replies) \in Seq(Units)
  <2>1. \A r \in Replies : Stream(replies) \in Seq(Units)
    BY StreamAppend
  <2>2. Raw("ack") \in Replies
    BY DEF Raw, Reply, Replies
  <2>3. QED
    BY <2>1, <2>2
<1>3. CASE e = <<>>
  <2>1. replies \o e = replies /\ Stream(replies) \o <<>> = Stream(replies) /\ <<>> \in Seq(Units)
    BY <1>2, <1>3, ConcatEmptySeq
  <2>2. QED
    BY <1>1, <1>2, <1>3, <2>1
<1>4. ASSUME NEW r \in Replies, e = <<r>>
      PROVE  Stream(e) \in Seq(Units) /\ Stream(replies \o e) = Stream(replies) \o Stream(e)
  <2>1. replies \o e = Append(replies, r) /\ e = Append(<<>>, r) /\ <<>> \in Seq(Replies)
    BY <1>4, AppendIsConcat
  <2>2. Stream(e) = <<>> \o Parts(r)
    BY <1>1, <2>1, StreamAppend
  <2>3. Stream(e) = Parts(r) /\ Stream(e) \in Seq(Units)
    BY <2>2, PartsType, ConcatEmptySeq
  <2>4. QED
    BY <2>1, <2>3, StreamAppend
<1>5. QED
  BY <1>1, <1>2, <1>3, <1>4

LEMMA StreamNext ==
  ASSUME NEW requests \in Requests, NEW k \in Nat, k + 1 <= Len(requests)
  PROVE  /\ Stream(AnswersTo(requests, k)) \in Seq(Units)
         /\ Stream(Expected(requests, k + 1)) \in Seq(Units)
         /\ Stream(AnswersTo(requests, k + 1)) =
              Stream(AnswersTo(requests, k)) \o Stream(Expected(requests, k + 1))
<1>1. Expected(requests, k + 1) = <<>> \/ \E r \in Replies : Expected(requests, k + 1) = <<r>>
  <2>1. k + 1 \in 1..Len(requests)
    BY DEF Requests
  <2>2. QED
    BY <2>1, ExpectedIs
<1>2. AnswersTo(requests, k) \in Seq(Replies)
      /\ AnswersTo(requests, k + 1) = AnswersTo(requests, k) \o Expected(requests, k + 1)
  BY AnswersNext
<1>3. QED
  BY <1>1, <1>2, StreamConcat

----------------------------------------------------------------------------
(* AnswersAreSequential *)

LEMMA EndsLength ==
  ASSUME NEW X, NEW all \in Seq(X), NEW queue \in Seq(X), Ends(queue, all)
  PROVE  Len(all) - Len(queue) \in 0..Len(all)
BY DEF Ends

LEMMA EndsAppend ==
  ASSUME NEW X, NEW all \in Seq(X), NEW queue \in Seq(X), Ends(queue, all), NEW p \in X
  PROVE  /\ Ends(Append(queue, p), Append(all, p))
         /\ Len(Append(all, p)) - Len(Append(queue, p)) = Len(all) - Len(queue)
<1> DEFINE n == Len(all)
           m == Len(queue)
<1>1. n \in Nat /\ m \in Nat /\ m <= n /\ Len(Append(all, p)) = n + 1 /\ Len(Append(queue, p)) = m + 1
  BY DEF Ends
<1>2. ASSUME NEW i \in 1..m+1
      PROVE  Append(queue, p)[i] = Append(all, p)[(n + 1) - (m + 1) + i]
  <2>1. CASE i = m + 1
    <3>1. (n + 1) - (m + 1) + i = n + 1
      BY <1>1, <2>1
    <3>2. QED
      BY <2>1, <3>1
  <2>2. CASE i \in 1..m
    <3>1. (n + 1) - (m + 1) + i = n - m + i /\ n - m + i \in 1..n
      BY <1>1, <2>2
    <3>2. queue[i] = all[n - m + i]
      BY <2>2 DEF Ends
    <3>3. Append(queue, p)[i] = queue[i] /\ Append(all, p)[n - m + i] = all[n - m + i]
      BY <2>2, <3>1
    <3>4. QED
      BY <3>1, <3>2, <3>3
  <2>3. QED
    BY <1>1, <2>1, <2>2
<1>3. m + 1 <= n + 1 /\ (n + 1) - (m + 1) = n - m
  BY <1>1
<1>4. Ends(Append(queue, p), Append(all, p))
  <2> SUFFICES /\ m + 1 <= n + 1
               /\ \A i \in 1..m+1 : Append(queue, p)[i] = Append(all, p)[(n + 1) - (m + 1) + i]
    BY <1>1, Zenon DEF Ends
  <2>1. QED
    BY <1>2, <1>3
<1>5. QED
  BY <1>1, <1>3, <1>4, Zenon

LEMMA EndsTail ==
  ASSUME NEW X, NEW all \in Seq(X), NEW queue \in Seq(X), Ends(queue, all), queue # <<>>
  PROVE  /\ Ends(Tail(queue), all)
         /\ Tail(queue) \in Seq(X)
         /\ Len(all) - Len(Tail(queue)) = Len(all) - Len(queue) + 1
         /\ Len(all) - Len(queue) + 1 \in 1..Len(all)
         /\ Head(queue) = all[Len(all) - Len(queue) + 1]
<1> DEFINE n == Len(all)
           m == Len(queue)
<1>1. n \in Nat /\ m \in Nat /\ m <= n /\ m # 0 /\ Len(Tail(queue)) = m - 1 /\ Tail(queue) \in Seq(X)
  BY DEF Ends
<1>2. \A i \in 1..m-1 : Tail(queue)[i] = queue[i + 1]
  BY <1>1
<1>3. ASSUME NEW i \in 1..m-1 PROVE Tail(queue)[i] = all[n - (m - 1) + i]
  <2>1. i + 1 \in 1..m /\ n - m + (i + 1) = n - (m - 1) + i
    BY <1>1
  <2>2. queue[i + 1] = all[n - m + (i + 1)]
    BY <2>1 DEF Ends
  <2>3. QED
    BY <1>2, <2>1, <2>2
<1>4. Head(queue) = all[n - m + 1]
  <2>1. 1 \in 1..m /\ Head(queue) = queue[1]
    BY <1>1
  <2>2. QED
    BY <2>1 DEF Ends
<1>5. n - (m - 1) = n - m + 1 /\ n - m + 1 \in 1..n /\ m - 1 <= n
  BY <1>1
<1>6. Ends(Tail(queue), all)
  BY <1>1, <1>3, <1>5 DEF Ends
<1>7. QED
  BY <1>1, <1>4, <1>5, <1>6

LEMMA QueueTypes ==
  ASSUME QueueInv, NEW t \in Tcp
  PROVE  /\ asked[t] \in Requests /\ Len(asked[t]) \in Nat
         /\ tcpIn[t] \in Requests /\ Len(tcpIn[t]) \in Nat
         /\ Taken(t) \in 0..Len(asked[t])
         /\ read[t] \in Seq(Units) /\ tcpOut[t] \in Seq(Units)
<1>1. PacketsOf(t) \subseteq {"post", "ticket", "header", "auth", "zero", "junk"} \cup Tasks
  BY DEF PacketsOf
<1>2. asked[t] \in Requests /\ tcpIn[t] \in Requests
  <2>1. asked[t] \in Seq(PacketsOf(t)) /\ tcpIn[t] \in Seq(PacketsOf(t))
    BY DEF QueueInv
  <2>2. QED
    BY <1>1, <2>1 DEF Requests
<1>3. Len(asked[t]) \in Nat /\ Len(tcpIn[t]) \in Nat
  BY <1>2 DEF Requests
<1>4. read[t] \in Seq(Units) /\ tcpOut[t] \in Seq(Units)
  BY DEF QueueInv
<1>5. Taken(t) \in 0..Len(asked[t])
  <2>1. asked[t] \in Seq(PacketsOf(t)) /\ tcpIn[t] \in Seq(PacketsOf(t)) /\ Ends(tcpIn[t], asked[t])
    BY DEF QueueInv
  <2>2. Len(asked[t]) - Len(tcpIn[t]) \in 0..Len(asked[t])
    BY <2>1, EndsLength
  <2>3. QED
    BY <2>2, Zenon DEF Taken
<1>6. QED
  BY <1>2, <1>3, <1>4, <1>5

LEMMA AnswersInitially == Init => AnswerInv
<1> SUFFICES ASSUME Init PROVE AnswerInv
  OBVIOUS
<1>1. \A t \in Tcp : asked[t] = <<>> /\ tcpIn[t] = <<>> /\ read[t] = <<>> /\ tcpOut[t] = <<>> /\ Taken(t) = 0
  BY DEF Init, Taken
<1>2. TasksIn(asked["lobby"], 0) = 0 /\ LastWrite(asked["lobby"], 0) = 0
  <2>1. {i \in 1..0 : asked["lobby"][i] \in Tasks} = {} /\ WritesIn(asked["lobby"], 0) = {}
    BY DEF WritesIn
  <2>2. QED
    BY <2>1, FS_EmptySet DEF TasksIn, LastWrite
<1>3. \A t \in Tcp : Stream(AnswersTo(asked[t], 0)) = <<>>
  <2>1. \A t \in Tcp : [n \in 1..0 |-> Expected(asked[t], n)] = <<>>
    OBVIOUS
  <2>2. [i \in DOMAIN <<>> |-> Parts(<<>>[i])] = <<>>
    OBVIOUS
  <2>3. QED
    BY <2>1, <2>2, FlattenEmpty DEF AnswersTo, Stream
<1>4. QueueInv
  <2>1. Ends(<<>>, <<>>)
    BY DEF Ends
  <2>2. \A X : <<>> \in Seq(X)
    OBVIOUS
  <2>3. {read, tcpOut} \subseteq [Tcp -> Seq(Units)]
    BY <2>2 DEF Init
  <2>4. \A t \in Tcp : {asked[t], tcpIn[t]} \subseteq Seq(PacketsOf(t)) /\ Ends(tcpIn[t], asked[t])
    BY <1>1, <2>1, <2>2
  <2>5. QED
    BY <2>3, <2>4 DEF Init, QueueInv
<1>5. QED
  BY <1>1, <1>2, <1>3, <1>4 DEF AnswerInv, ServiceInv, AnswersAreSequential, AnswersTo, Init, Tcp

LEMMA AnswersUnchanged ==
  ASSUME AnswerInv, UNCHANGED <<tcpIn, tcpOut, transactions, userFile, asked, read>>,
         linked' \in [TcpSockets -> Tcp \cup {"none"}]
  PROVE  AnswerInv'
<1>1. \A t : Taken(t)' = Taken(t)
  BY DEF Taken
<1>2. QED
  BY <1>1 DEF AnswerInv, QueueInv, ServiceInv, AnswersAreSequential

\* A packet that is sent joins both the queue and what was asked.
LEMMA SendKeepsAnswers ==
  ASSUME AnswerInv, NEW s \in TcpSockets, Send(s)
  PROVE  AnswerInv'
<1>1. PICK t \in Tcp : t = linked[s]
  BY DEF Send, AnswerInv, QueueInv
<1>2. PICK p \in Packets(t) : /\ tcpIn' = [tcpIn EXCEPT ![t] = Append(@, p)]
                              /\ asked' = [asked EXCEPT ![t] = Append(@, p)]
  BY <1>1 DEF Send
<1>3. p \in PacketsOf(t)
  BY <1>1 DEF Packets, PacketsOf, Tcp
<1>4. UNCHANGED <<linked, tcpOut, transactions, userFile, read>>
  BY DEF Send, socketVars, lobbyVars
<1>5. QueueInv
  BY DEF AnswerInv
<1>6. /\ tcpIn'[t] = Append(tcpIn[t], p) /\ asked'[t] = Append(asked[t], p)
      /\ \A u \in Tcp \ {t} : tcpIn'[u] = tcpIn[u] /\ asked'[u] = asked[u]
      /\ DOMAIN tcpIn' = Tcp /\ DOMAIN asked' = Tcp
  BY <1>1, <1>2, <1>5 DEF QueueInv
<1>7. tcpIn[t] \in Seq(PacketsOf(t)) /\ asked[t] \in Seq(PacketsOf(t))
  BY <1>1, <1>5 DEF QueueInv
<1>8. /\ tcpIn'[t] \in Seq(PacketsOf(t)) /\ asked'[t] \in Seq(PacketsOf(t))
      /\ Ends(tcpIn'[t], asked'[t]) /\ Taken(t)' = Taken(t)
  <2>1. Ends(tcpIn[t], asked[t])
    BY <1>1, <1>5 DEF QueueInv
  <2>2. /\ Ends(Append(tcpIn[t], p), Append(asked[t], p))
        /\ Len(Append(asked[t], p)) - Len(Append(tcpIn[t], p)) = Len(asked[t]) - Len(tcpIn[t])
    BY <1>3, <1>7, <2>1, EndsAppend
  <2>3. Append(tcpIn[t], p) \in Seq(PacketsOf(t)) /\ Append(asked[t], p) \in Seq(PacketsOf(t))
    BY <1>3, <1>7
  <2>4. Taken(t)' = Len(asked'[t]) - Len(tcpIn'[t]) /\ Taken(t) = Len(asked[t]) - Len(tcpIn[t])
    BY Zenon DEF Taken
  <2>5. QED
    BY <1>6, <2>2, <2>3, <2>4, Zenon
<1>9. \A u \in Tcp : Taken(u)' = Taken(u)
  <2>1. ASSUME NEW u \in Tcp, u # t PROVE Taken(u)' = Taken(u)
    <3>1. asked'[u] = asked[u] /\ tcpIn'[u] = tcpIn[u]
      BY <1>6, <2>1
    <3>2. QED
      BY <3>1, Zenon DEF Taken
  <2>2. QED
    BY <1>8, <2>1
<1>11. QueueInv'
  <2>1. ASSUME NEW u \in Tcp
        PROVE  /\ asked'[u] \in Seq(PacketsOf(u)) /\ tcpIn'[u] \in Seq(PacketsOf(u))
               /\ Ends(tcpIn'[u], asked'[u])
    <3>1. CASE u = t
      BY <1>8, <3>1
    <3>2. CASE u # t
      BY <1>5, <1>6, <3>2 DEF QueueInv
    <3>3. QED
      BY <3>1, <3>2
  <2>2. QED
    BY <1>4, <1>5, <1>6, <2>1 DEF QueueInv
<1>12. \A u \in Tcp : /\ AnswersTo(asked'[u], Taken(u)) = AnswersTo(asked[u], Taken(u))
                      /\ TasksIn(asked'[u], Taken(u)) = TasksIn(asked[u], Taken(u))
                      /\ LastWrite(asked'[u], Taken(u)) = LastWrite(asked[u], Taken(u))
  <2>1. ASSUME NEW u \in Tcp, u = t \/ u # t
        PROVE  /\ AnswersTo(asked'[u], Taken(u)) = AnswersTo(asked[u], Taken(u))
               /\ TasksIn(asked'[u], Taken(u)) = TasksIn(asked[u], Taken(u))
               /\ LastWrite(asked'[u], Taken(u)) = LastWrite(asked[u], Taken(u))
    <3>1. asked[u] \in Requests /\ Taken(u) \in 0..Len(asked[u])
      BY <1>5, QueueTypes
    <3>2. CASE u = t
      <4>1. asked'[u] = Append(asked[u], p)
        BY <1>6, <3>2
      <4>2. QED
        BY <3>1, <4>1, AnswersPrefix
    <3>3. CASE u # t
      BY <1>6, <3>3
    <3>4. QED
      BY <3>2, <3>3
  <2>2. QED
    BY <2>1
<1>13. QED
  BY <1>4, <1>9, <1>11, <1>12 DEF AnswerInv, ServiceInv, AnswersAreSequential, AnswersTo, Tcp

LEMMA Regroup ==
  ASSUME NEW X, NEW s \in Seq(X), NEW a \in Seq(X), NEW b \in Seq(X)
  PROVE  (s \o a) \o b = s \o (a \o b)
BY ConcatAssociative

LEMMA RegroupCut ==
  ASSUME NEW X, NEW s \in Seq(X), NEW a \in Seq(X), NEW b \in Seq(X), NEW out, out = a \o b
  PROVE  (s \o a) \o b = s \o out
BY Regroup

CutIsWhole(X, s, out, l) ==
  /\ SubSeq(out, 1, l) \in Seq(X) /\ SubSeq(out, l + 1, Len(out)) \in Seq(X)
  /\ (s \o SubSeq(out, 1, l)) \o SubSeq(out, l + 1, Len(out)) = s \o out

LEMMA CutSequence ==
  ASSUME NEW X, NEW s \in Seq(X), NEW out \in Seq(X), NEW l \in 1..Len(out)
  PROVE  CutIsWhole(X, s, out, l)
<1>1. SubSeq(out, 1, l) \in Seq(X) /\ SubSeq(out, l + 1, Len(out)) \in Seq(X)
  OBVIOUS
<1>2. out = SubSeq(out, 1, l) \o SubSeq(out, l + 1, Len(out))
  OBVIOUS
<1>3. PICK a \in Seq(X), b \in Seq(X) : a = SubSeq(out, 1, l) /\ b = SubSeq(out, l + 1, Len(out))
  BY <1>1
<1>4. out = a \o b
  BY <1>2, <1>3, Zenon
<1>5. (s \o a) \o b = s \o out
  BY <1>4, RegroupCut
<1>6. QED
  BY <1>1, <1>3, <1>5, Zenon DEF CutIsWhole

\* However a stream is cut, it is the same stream.
LEMMA RecvKeepsAnswers ==
  ASSUME AnswerInv, NEW s \in TcpSockets, Recv(s)
  PROVE  AnswerInv'
<1>1. PICK t \in Tcp : QueueInv /\ t = linked[s]
  BY DEF AnswerInv, QueueInv, Recv, ReadReady
<1>2. PICK length \in 1..2 :
        /\ length <= Len(tcpOut[t])
        /\ tcpOut' = [tcpOut EXCEPT ![t] = SubSeq(tcpOut[t], length + 1, Len(tcpOut[t]))]
        /\ read' = [read EXCEPT ![t] = @ \o SubSeq(tcpOut[t], 1, length)]
  BY <1>1 DEF Recv
<1> DEFINE out == tcpOut[t]
           first == SubSeq(out, 1, length)
           rest == SubSeq(out, length + 1, Len(out))
<1>3. UNCHANGED <<linked, tcpIn, transactions, userFile, asked>>
  BY DEF Recv, socketVars, lobbyVars
<1>4. out \in Seq(Units) /\ read[t] \in Seq(Units) /\ {read, tcpOut} \subseteq [Tcp -> Seq(Units)]
  BY <1>1 DEF QueueInv
<1>5. length \in 1..Len(out)
  BY <1>2, <1>4
<1>6. first \in Seq(Units) /\ rest \in Seq(Units) /\ (read[t] \o first) \o rest = read[t] \o out
  <2>1. CutIsWhole(Units, read[t], out, length)
    BY <1>4, <1>5, CutSequence
  <2>2. QED
    BY <2>1 DEF CutIsWhole
<1> HIDE DEF first, rest
<1>7. read[t] \o first \in Seq(Units)
  BY <1>4, <1>6, ConcatProperties
<1>8. {read', tcpOut'} \subseteq [Tcp -> Seq(Units)]
  BY <1>1, <1>2, <1>4, <1>6, <1>7 DEF first, rest
<1>9. \A u \in Tcp : (read[u] \o tcpOut[u])' = read[u] \o tcpOut[u]
  BY <1>1, <1>2, <1>4, <1>6 DEF first, rest
<1>10. \A u : Taken(u)' = Taken(u)
  BY <1>3 DEF Taken
<1>11. QED
  BY <1>3, <1>8, <1>9, <1>10 DEF AnswerInv, QueueInv, ServiceInv, AnswersAreSequential

LEMMA ExpectedOf ==
  ASSUME NEW requests, NEW k
  PROVE  /\ requests[k] = "ticket" => Expected(requests, k) = <<Raw("ticket")>>
         /\ requests[k] = "header" => Expected(requests, k) = <<Raw("ack")>>
         /\ requests[k] = "auth" => Expected(requests, k) = <<Raw("done")>>
         /\ requests[k] = "zero" => Expected(requests, k) = <<Raw("zero")>>
         /\ requests[k] \in {"post", "junk"} => Expected(requests, k) = <<>>
         /\ requests[k] \in {"set_user_file", "set_refused_file"} =>
              Expected(requests, k) = <<Reply(TasksIn(requests, k), "info", 0)>>
         /\ requests[k] = "other" => Expected(requests, k) = <<Reply(TasksIn(requests, k), "done", 0)>>
         /\ requests[k] = "get_user_file" =>
              Expected(requests, k) =
                IF WritesIn(requests, k) = {} THEN <<Reply(TasksIn(requests, k), "no_file", 0)>>
                ELSE <<Reply(TasksIn(requests, k), "file", LastWrite(requests, k))>>
BY DEF Expected

\* The answers of the lobby to its next packet, as the services' state has it
LEMMA LobbyAnswers ==
  ASSUME NEW requests, NEW k \in Nat, NEW p, p = requests[k + 1],
         transactions = TasksIn(requests, k), userFile = LastWrite(requests, k),
         p \in PacketsOf("lobby"), LobbyHandle(p), tcpOut \in [Tcp -> Seq(Units)]
  PROVE  /\ tcpOut' = [tcpOut EXCEPT !["lobby"] = @ \o Stream(Expected(requests, k + 1))]
         /\ transactions' = TasksIn(requests, k + 1) /\ userFile' = LastWrite(requests, k + 1)
<1>1. /\ TasksIn(requests, k + 1) = IF p \in Tasks THEN transactions + 1 ELSE transactions
      /\ LastWrite(requests, k + 1) = IF p = "set_user_file" THEN TasksIn(requests, k + 1) ELSE userFile
  BY TasksNext, LastWriteNext
<1>2. CASE p = "junk"
  <2>1. Stream(<<>>) = <<>> /\ tcpOut["lobby"] \o <<>> = tcpOut["lobby"]
    <3>1. [i \in DOMAIN <<>> |-> Parts(<<>>[i])] = <<>>
      OBVIOUS
    <3>2. tcpOut["lobby"] \in Seq(Units)
      BY DEF Tcp
    <3>3. QED
      BY <3>1, <3>2, FlattenEmpty, ConcatEmptySeq DEF Stream
  <2>2. Expected(requests, k + 1) = <<>>
    BY <1>2, ExpectedOf
  <2>3. UNCHANGED <<tcpOut, transactions, userFile>>
    BY <1>2 DEF LobbyHandle, lobbyVars, Tasks
  <2>4. tcpOut = [tcpOut EXCEPT !["lobby"] = @ \o Stream(Expected(requests, k + 1))]
    <3>1. tcpOut["lobby"] \o Stream(Expected(requests, k + 1)) = tcpOut["lobby"]
      BY <2>1, <2>2
    <3>2. QED
      BY <3>1
  <2>5. QED
    BY <1>1, <1>2, <2>3, <2>4 DEF Tasks
<1>3. CASE p \in {"zero", "header", "auth"}
  <2>1. Answer("lobby", Expected(requests, k + 1)) /\ UNCHANGED <<transactions, userFile>>
    BY <1>3, ExpectedOf DEF LobbyHandle, ClientHeader, ClientAuth, lobbyVars, Tasks
  <2>2. QED
    BY <1>1, <1>3, <2>1 DEF Answer, Tasks
<1>4. CASE p \in {"set_user_file", "set_refused_file", "other"}
  <2>1. CallService(p)
    BY <1>4 DEF LobbyHandle, Tasks
  <2>2. transactions' = transactions + 1 /\ userFile' = IF p = "set_user_file" THEN transactions + 1 ELSE userFile
    BY <1>4, <2>1 DEF CallService, SetUserFile, ServiceReply
  <2>3. Answer("lobby", Expected(requests, k + 1))
    BY <1>1, <1>4, <2>1, ExpectedOf DEF CallService, SetUserFile, ServiceReply, Tasks
  <2>4. QED
    BY <1>1, <1>4, <2>2, <2>3 DEF Answer, Tasks
<1>5. CASE p = "get_user_file"
  <2>1. ServiceReply(IF userFile = 0 THEN "no_file" ELSE "file", userFile) /\ UNCHANGED userFile
    BY <1>5 DEF LobbyHandle, CallService, GetUserFile, Tasks
  <2>2. TasksIn(requests, k + 1) = transactions + 1 /\ LastWrite(requests, k + 1) = userFile
    BY <1>1, <1>5 DEF Tasks
  <2>3. userFile = 0 <=> WritesIn(requests, k + 1) = {}
    <3>1. k + 1 \in Nat
      OBVIOUS
    <3>2. QED
      BY <2>2, <3>1, LastWriteType
  <2>4. Expected(requests, k + 1) = <<Reply(transactions + 1, IF userFile = 0 THEN "no_file" ELSE "file", userFile)>>
    BY <1>5, <2>2, <2>3, ExpectedOf
  <2>5. QED
    BY <2>1, <2>2, <2>4 DEF ServiceReply, Answer
<1>6. QED
  BY <1>2, <1>3, <1>4, <1>5 DEF PacketsOf, Tasks

LEMMA AuthAnswers ==
  ASSUME NEW requests, NEW k, NEW p, p = requests[k], p \in {"post", "ticket"}, AuthHandle(p)
  PROVE  /\ tcpOut' = [tcpOut EXCEPT !["auth"] = @ \o Stream(Expected(requests, k))]
         /\ UNCHANGED <<transactions, userFile>>
<1>1. Expected(requests, k) = IF p = "ticket" THEN <<Raw("ticket")>> ELSE <<>>
  BY ExpectedOf
<1>2. QED
  BY <1>1 DEF AuthHandle, Answer

\* What the frame does with the packet it takes
LEMMA FrameAnswers ==
  ASSUME AnswerInv, NEW t \in Tcp, TcpFrame(t)
  PROVE  /\ UNCHANGED <<linked, asked, read>>
         /\ tcpIn' = [tcpIn EXCEPT ![t] = Tail(@)] /\ tcpIn[t] # <<>>
         /\ Taken(t) \in Nat /\ Taken(t) + 1 \in 1..Len(asked[t])
         /\ Taken(t)' = Taken(t) + 1 /\ \A u \in Tcp \ {t} : Taken(u)' = Taken(u)
         /\ Head(tcpIn[t]) = asked[t][Taken(t) + 1]
         /\ tcpOut' = [tcpOut EXCEPT ![t] = @ \o Stream(Expected(asked[t], Taken(t) + 1))]
         /\ ServiceInv'
<1>1. QueueInv /\ DOMAIN tcpIn = Tcp /\ DOMAIN tcpOut = Tcp
  BY DEF AnswerInv, QueueInv
<1>2. UNCHANGED <<linked, asked, read>> /\ tcpIn' = [tcpIn EXCEPT ![t] = Tail(@)] /\ tcpIn[t] # <<>>
  BY DEF TcpFrame, socketVars, gameVars
<1>3. tcpIn'[t] = Tail(tcpIn[t]) /\ \A u \in Tcp \ {t} : tcpIn'[u] = tcpIn[u]
  BY <1>1, <1>2
<1>4. asked[t] \in Seq(PacketsOf(t)) /\ tcpIn[t] \in Seq(PacketsOf(t)) /\ Ends(tcpIn[t], asked[t])
  BY <1>1 DEF QueueInv
<1>5. PICK a \in Seq(PacketsOf(t)), b \in Seq(PacketsOf(t)) : a = asked[t] /\ b = tcpIn[t]
  BY <1>4
<1>6. Ends(b, a) /\ b # <<>>
  BY <1>2, <1>4, <1>5, Zenon
<1>7. /\ Len(a) - Len(Tail(b)) = Len(a) - Len(b) + 1 /\ Len(a) - Len(b) + 1 \in 1..Len(a)
      /\ Head(b) = a[Len(a) - Len(b) + 1]
  BY <1>6, EndsTail
<1>8. Taken(t) = Len(a) - Len(b) /\ Taken(t)' = Len(a) - Len(Tail(b))
  BY <1>2, <1>3, <1>5, Zenon DEF Taken
<1>9. /\ Taken(t)' = Taken(t) + 1 /\ Taken(t) + 1 \in 1..Len(asked[t])
      /\ Head(tcpIn[t]) = asked[t][Taken(t) + 1]
  BY <1>5, <1>7, <1>8, Zenon
<1>10. Taken(t) \in Nat
  BY <1>1, QueueTypes
<1>11. ASSUME NEW u \in Tcp \ {t} PROVE Taken(u)' = Taken(u)
  BY <1>2, <1>3, <1>11, Zenon DEF Taken
<1>12. Head(tcpIn[t]) \in PacketsOf(t)
  <2>1. Head(b) \in PacketsOf(t)
    BY <1>6
  <2>2. QED
    BY <1>5, <2>1, Zenon
<1>13. /\ tcpOut' = [tcpOut EXCEPT ![t] = @ \o Stream(Expected(asked[t], Taken(t) + 1))]
       /\ ServiceInv'
  <2>1. CASE t = "auth"
    <3>1. /\ AuthHandle(Head(tcpIn["auth"])) /\ Head(tcpIn["auth"]) = asked["auth"][Taken("auth") + 1]
          /\ Head(tcpIn["auth"]) \in {"post", "ticket"}
      BY <1>9, <1>12, <2>1 DEF TcpFrame, PacketsOf
    <3>2. /\ tcpOut' = [tcpOut EXCEPT !["auth"] = @ \o Stream(Expected(asked["auth"], Taken("auth") + 1))]
          /\ UNCHANGED <<transactions, userFile>>
      BY <3>1, AuthAnswers
    <3>3. Taken("lobby")' = Taken("lobby")
      BY <1>11, <2>1 DEF Tcp
    <3>4. ServiceInv'
      BY <1>2, <3>2, <3>3 DEF AnswerInv, ServiceInv
    <3>5. QED
      BY <2>1, <3>2, <3>4
  <2>2. CASE t = "lobby"
    <3> DEFINE k == Taken("lobby")
    <3>1. /\ LobbyHandle(Head(tcpIn["lobby"])) /\ Head(tcpIn["lobby"]) = asked["lobby"][k + 1]
          /\ Head(tcpIn["lobby"]) \in PacketsOf("lobby") /\ k \in Nat
      BY <1>9, <1>10, <1>12, <2>2 DEF TcpFrame
    <3>2. transactions = TasksIn(asked["lobby"], k) /\ userFile = LastWrite(asked["lobby"], k)
      BY DEF AnswerInv, ServiceInv
    <3>3. tcpOut \in [Tcp -> Seq(Units)]
      BY <1>1 DEF QueueInv
    <3> HIDE DEF k
    <3>4. /\ tcpOut' = [tcpOut EXCEPT !["lobby"] = @ \o Stream(Expected(asked["lobby"], k + 1))]
          /\ transactions' = TasksIn(asked["lobby"], k + 1) /\ userFile' = LastWrite(asked["lobby"], k + 1)
      BY <1>1, <3>1, <3>2, <3>3, LobbyAnswers
    <3>5. QED
      BY <1>2, <1>9, <2>2, <3>4 DEF k, ServiceInv
  <2>3. QED
    BY <2>1, <2>2 DEF Tcp
<1>14. QED
  BY <1>2, <1>9, <1>10, <1>11, <1>13

LEMMA FrameKeepsAnswers ==
  ASSUME AnswerInv, NEW t \in Tcp, TcpFrame(t)
  PROVE  AnswerInv'
<1> DEFINE k == Taken(t)
           e == Stream(Expected(asked[t], k + 1))
<1>1. /\ UNCHANGED <<linked, asked, read>>
      /\ tcpIn' = [tcpIn EXCEPT ![t] = Tail(@)] /\ tcpIn[t] # <<>>
      /\ k \in Nat /\ k + 1 \in 1..Len(asked[t])
      /\ Taken(t)' = k + 1 /\ \A u \in Tcp \ {t} : Taken(u)' = Taken(u)
      /\ tcpOut' = [tcpOut EXCEPT ![t] = @ \o e]
      /\ ServiceInv'
  BY FrameAnswers
<1>2. QueueInv
  BY DEF AnswerInv
<1>3. /\ asked[t] \in Requests /\ Len(asked[t]) \in Nat
      /\ read[t] \in Seq(Units) /\ tcpOut[t] \in Seq(Units)
  BY <1>2, QueueTypes
<1> HIDE DEF k
<1>4. k + 1 <= Len(asked[t])
  BY <1>1, <1>3
<1>5. /\ Stream(AnswersTo(asked[t], k)) \in Seq(Units) /\ e \in Seq(Units)
      /\ Stream(AnswersTo(asked[t], k + 1)) = Stream(AnswersTo(asked[t], k)) \o e
  BY <1>1, <1>3, <1>4, StreamNext
<1> HIDE DEF e
<1>6. tcpOut'[t] = tcpOut[t] \o e /\ \A u \in Tcp \ {t} : tcpOut'[u] = tcpOut[u]
  BY <1>1, <1>2 DEF QueueInv
<1>7. read[t] \o tcpOut[t] = Stream(AnswersTo(asked[t], k))
  BY DEF AnswerInv, AnswersAreSequential, AnswersTo, k
<1>8. read[t] \o tcpOut'[t] = Stream(AnswersTo(asked[t], k + 1))
  <2>1. PICK a \in Seq(Units), b \in Seq(Units), c \in Seq(Units) : a = read[t] /\ b = tcpOut[t] /\ c = e
    BY <1>3, <1>5
  <2>2. (a \o b) \o c = a \o (b \o c)
    BY Regroup
  <2>3. QED
    BY <1>5, <1>6, <1>7, <2>1, <2>2, Zenon
<1>9. AnswersAreSequential'
  <2>1. ASSUME NEW u \in Tcp
        PROVE  read'[u] \o tcpOut'[u] = Stream(AnswersTo(asked'[u], Taken(u)'))
    <3>1. CASE u = t
      BY <1>1, <1>8, <3>1, Zenon
    <3>2. CASE u # t
      <4>1. read[u] \o tcpOut[u] = Stream(AnswersTo(asked[u], Taken(u)))
        BY DEF AnswerInv, AnswersAreSequential, AnswersTo
      <4>2. Taken(u)' = Taken(u) /\ tcpOut'[u] = tcpOut[u] /\ asked' = asked /\ read' = read
        BY <1>1, <1>6, <3>2
      <4>3. QED
        BY <4>1, <4>2, Zenon
    <3>3. QED
      BY <3>1, <3>2
  <2>2. QED
    BY <2>1 DEF AnswersAreSequential, AnswersTo
<1>10. QueueInv'
  <2>1. tcpOut' \in [Tcp -> Seq(Units)]
    <3>1. tcpOut[t] \o e \in Seq(Units)
      BY <1>3, <1>5, ConcatProperties
    <3>2. QED
      BY <1>1, <1>2, <3>1 DEF QueueInv
  <2>2. tcpIn'[t] = Tail(tcpIn[t]) /\ \A u \in Tcp \ {t} : tcpIn'[u] = tcpIn[u]
    BY <1>1, <1>2 DEF QueueInv
  <2>3. Tail(tcpIn[t]) \in Seq(PacketsOf(t)) /\ Ends(Tail(tcpIn[t]), asked[t])
    <3>1. PICK a \in Seq(PacketsOf(t)), b \in Seq(PacketsOf(t)) : a = asked[t] /\ b = tcpIn[t] /\ Ends(b, a)
      BY <1>2 DEF QueueInv
    <3>2. b # <<>>
      BY <1>1, <3>1, Zenon
    <3>3. Ends(Tail(b), a) /\ Tail(b) \in Seq(PacketsOf(t))
      BY <3>1, <3>2, EndsTail
    <3>4. QED
      BY <3>1, <3>3, Zenon
  <2>4. \A u \in Tcp : tcpIn'[u] \in Seq(PacketsOf(u)) /\ asked[u] \in Seq(PacketsOf(u))
                        /\ Ends(tcpIn'[u], asked[u])
    BY <1>2, <2>2, <2>3 DEF QueueInv
  <2>5. transactions' \in Nat /\ userFile' \in Nat
    <3>1. Taken("lobby")' \in Nat
      BY <1>1, <1>2, QueueTypes DEF Tcp
    <3>2. QED
      BY <1>1, <3>1, TasksFinite, LastWriteType DEF ServiceInv
  <2>6. DOMAIN tcpIn' = Tcp
    BY <1>1, <1>2 DEF QueueInv
  <2>7. QED
    BY <1>1, <1>2, <2>1, <2>4, <2>5, <2>6 DEF QueueInv
<1>11. QED
  BY <1>1, <1>9, <1>10 DEF AnswerInv

LEMMA AnswerStep == AnswerInv /\ [Next]_vars => AnswerInv'
<1> SUFFICES ASSUME AnswerInv, [Next]_vars PROVE AnswerInv'
  OBVIOUS
<1>1. linked \in [TcpSockets -> Tcp \cup {"none"}]
  BY DEF AnswerInv, QueueInv
<1>2. CASE Game
  <2>1. CASE \E s \in TcpSockets : Connect(s) \/ CloseSocket(s)
    <3>1. linked' \in [TcpSockets -> Tcp \cup {"none"}]
      BY <1>1, <2>1 DEF Connect, CloseSocket
    <3>2. UNCHANGED <<tcpIn, tcpOut, transactions, userFile, asked, read>>
      BY <2>1 DEF Connect, CloseSocket, queueVars, lobbyVars, gameVars
    <3>3. QED
      BY <3>1, <3>2, AnswersUnchanged
  <2>2. CASE \E s \in TcpSockets : Send(s)
    BY <2>2, SendKeepsAnswers
  <2>3. CASE \E s \in TcpSockets : Recv(s)
    BY <2>3, RecvKeepsAnswers
  <2>4. CASE \E s \in UdpSockets : IoctlSocket(s) \/ SendTo(s) \/ RecvFrom(s)
    BY <1>1, <2>4, AnswersUnchanged
       DEF IoctlSocket, SendTo, RecvFrom, socketVars, queueVars, lobbyVars, gameVars
  <2>5. QED
    BY <1>2, <2>1, <2>2, <2>3, <2>4 DEF Game
<1>3. CASE \E t \in Tcp : TcpFrame(t)
  BY <1>3, FrameKeepsAnswers
<1>4. CASE ServerMain \/ TestExit \/ PreDestroy \/ Join \/ UNCHANGED vars
           \/ (\E t \in Tcp \cup Stuns : FrameDone(t)) \/ \E t \in Stuns : UdpFrame(t)
  BY <1>1, <1>4, AnswersUnchanged
     DEF ServerMain, TestExit, PreDestroy, Join, FrameDone, UdpFrame,
         vars, socketVars, queueVars, lobbyVars, gameVars
<1>5. QED
  BY <1>2, <1>3, <1>4 DEF Next, ServerThread, Frame

\* Whatever sockets the game opens, closes and reads from, and however its reads
\* cut the stream, what a server gives out are the whole replies to the packets
\* it took, in their order, each computed from the state its predecessors left
\* (demonware.cpp:174-205, tcp_server.cpp:14-83, reply.hpp:106-163, bdStorage.cpp:148-203).
THEOREM AnswersSequential == Spec => []AnswersAreSequential
<1>1. AnswerInv => AnswersAreSequential
  BY DEF AnswerInv
<1>2. QED
  BY <1>1, AnswersInitially, AnswerStep, PTL DEF Spec

----------------------------------------------------------------------------
(* FirstHandshakeAgrees *)

\* One handshake: the header is the first of the lobby's packets, the client's own
\* message the second.
OneHeader == \A i \in DOMAIN asked["lobby"] : asked["lobby"][i] = "header" => i = 1
FirstHandshake ==
  LET sent == asked["lobby"] IN
  /\ \A i \in DOMAIN sent : sent[i] = "auth" <=> i = 2
  /\ stage \in {"waiting_header", "acked"} => Len(sent) = 1
  /\ stage \in {"waiting_auth", "done"} => Len(sent) >= 2
  /\ Taken("lobby") = 0 => transcript = <<>> /\ keys = <<>>
  /\ Taken("lobby") = 1 => transcript = <<"header", "ack">> /\ keys = <<>>
  /\ Taken("lobby") >= 2 => keys = <<TRUE, <<"header", "ack", "auth">>>>

HandshakeInv ==
  /\ AnswerInv
  /\ stage \in {"start", "ticket", "waiting_header", "acked", "waiting_auth", "done", "failed"}
  /\ stage = "start" => asked["lobby"] = <<>>
  /\ stage \notin {"start", "ticket", "failed"} => asked["lobby"] # <<>>
  /\ asked["lobby"] # <<>> => asked["lobby"][1] = "header"
  /\ stage # "start" => sessionKey
  /\ sessionKey \in BOOLEAN
  /\ \A t \in Tcp : \A i \in DOMAIN tcpOut[t] : tcpOut[t][i].reply = Raw("ticket") => sessionKey
  /\ OneHeader => FirstHandshake

LEMMA HandshakeInitially == Init => HandshakeInv
<1> SUFFICES ASSUME Init PROVE HandshakeInv
  OBVIOUS
<1>1. /\ asked["lobby"] = <<>> /\ tcpOut = [t \in Tcp |-> <<>>] /\ Taken("lobby") = 0
      /\ stage = "start" /\ sessionKey = FALSE /\ transcript = <<>> /\ keys = <<>>
  BY DEF Init, Taken, Tcp
<1>2. FirstHandshake
  BY <1>1 DEF FirstHandshake
<1>3. \A t \in Tcp : DOMAIN tcpOut[t] = {}
  BY <1>1
<1>4. QED
  BY <1>1, <1>2, <1>3, AnswersInitially DEF HandshakeInv

LEMMA AppendFacts ==
  ASSUME NEW X, NEW sent \in Seq(X), NEW p
  PROVE  /\ Len(Append(sent, p)) = Len(sent) + 1 /\ Append(sent, p)[Len(sent) + 1] = p
         /\ \A i \in 1..Len(sent) : Append(sent, p)[i] = sent[i]
         /\ DOMAIN sent = 1..Len(sent) /\ DOMAIN Append(sent, p) = 1..Len(sent)+1
         /\ Append(sent, p) # <<>> /\ (sent = <<>> <=> Len(sent) = 0)
OBVIOUS

\* A session key was agreed on before anything was sent to the lobby.
LEMMA SendKeepsHandshake ==
  ASSUME HandshakeInv, NEW s \in TcpSockets, Send(s)
  PROVE  HandshakeInv'
<1>1. AnswerInv'
  BY SendKeepsAnswers DEF HandshakeInv
<1>2. PICK t \in Tcp : QueueInv /\ t = linked[s]
  BY DEF HandshakeInv, AnswerInv, QueueInv, Send
<1>3. PICK p \in Packets(t) :
        /\ tcpIn' = [tcpIn EXCEPT ![t] = Append(@, p)]
        /\ asked' = [asked EXCEPT ![t] = Append(@, p)]
        /\ stage' = IF p \in {"header", "auth"} THEN Waiting(p) ELSE stage
  BY <1>2 DEF Send
<1>4. UNCHANGED <<tcpOut, sessionKey, transcript, keys>>
  BY DEF Send, lobbyVars
<1>5. CASE t = "auth"
  <2>1. p \in {"post", "ticket"}
    BY <1>5 DEF Packets
  <2>2. stage' = stage /\ asked'["lobby"] = asked["lobby"] /\ tcpIn'["lobby"] = tcpIn["lobby"]
    BY <1>2, <1>3, <1>5, <2>1 DEF QueueInv
  <2>3. Taken("lobby")' = Taken("lobby")
    BY <2>2, Zenon DEF Taken
  <2>4. FirstHandshake' = FirstHandshake /\ OneHeader' = OneHeader
    BY <1>4, <2>2, <2>3 DEF FirstHandshake, OneHeader
  <2>5. QED
    BY <1>1, <1>4, <2>2, <2>4 DEF HandshakeInv
<1>6. CASE t = "lobby"
  <2> DEFINE sent == asked["lobby"]
             n == Len(sent)
             k == Taken("lobby")
  <2>1. sent \in Requests /\ n \in Nat /\ k \in 0..n
    BY <1>2, QueueTypes DEF Tcp
  <2>2. asked'["lobby"] = Append(sent, p) /\ tcpIn'["lobby"] = Append(tcpIn["lobby"], p)
    BY <1>2, <1>3, <1>6 DEF QueueInv
  <2>3. /\ Len(Append(sent, p)) = n + 1 /\ Append(sent, p)[n + 1] = p
        /\ \A i \in 1..n : Append(sent, p)[i] = sent[i]
        /\ DOMAIN sent = 1..n /\ DOMAIN Append(sent, p) = 1..n+1
        /\ Append(sent, p) # <<>> /\ (sent = <<>> <=> n = 0)
    BY <2>1, AppendFacts DEF Requests
  <2>4. Taken("lobby")' = k
    <3>1. tcpIn["lobby"] \in Requests
      BY <1>2, QueueTypes DEF Tcp
    <3>2. Len(Append(tcpIn["lobby"], p)) = Len(tcpIn["lobby"]) + 1 /\ Len(tcpIn["lobby"]) \in Nat
      BY <3>1 DEF Requests
    <3>3. PICK m \in Nat : m = Len(tcpIn["lobby"])
      BY <3>2
    <3>4. Taken("lobby")' = (n + 1) - (m + 1) /\ k = n - m
      BY <2>2, <2>3, <3>2, <3>3, Zenon DEF Taken
    <3>5. QED
      BY <2>1, <3>4
  <2> HIDE DEF sent, n, k
  <2>5. OneHeader' => OneHeader
    BY <2>1, <2>2, <2>3 DEF OneHeader, sent
  <2>6. CASE stage = "ticket" /\ p = "header" /\ stage' = "waiting_header"
    <3>1. CASE n = 0
      <4>1. k = 0 /\ OneHeader /\ sent = <<>>
        BY <2>1, <2>3, <3>1 DEF OneHeader, sent
      <4>2. transcript = <<>> /\ keys = <<>>
        BY <4>1 DEF HandshakeInv, FirstHandshake, k
      <4>3. FirstHandshake'
        BY <1>4, <2>2, <2>3, <2>4, <2>6, <3>1, <4>1, <4>2 DEF FirstHandshake
      <4>4. asked'["lobby"] # <<>> /\ asked'["lobby"][1] = "header"
        BY <2>2, <2>3, <2>6, <3>1
      <4>5. QED
        BY <1>1, <1>4, <2>6, <4>3, <4>4 DEF HandshakeInv
    <3>2. CASE n # 0
      <4>1. ~OneHeader'
        BY <2>1, <2>2, <2>3, <2>6, <3>2 DEF OneHeader
      <4>2. asked'["lobby"] # <<>> /\ asked'["lobby"][1] = "header"
        <5>1. 1 \in 1..n /\ sent[1] = "header"
          BY <2>1, <2>3, <3>2 DEF HandshakeInv, sent
        <5>2. QED
          BY <2>2, <2>3, <5>1
      <4>3. QED
        BY <1>1, <1>4, <2>6, <4>1, <4>2 DEF HandshakeInv
    <3>3. QED
      BY <3>1, <3>2
  <2>7. CASE \/ stage = "acked" /\ p = "auth" /\ stage' = "waiting_auth"
             \/ stage = "done" /\ p \in Tasks \cup {"zero", "junk"} /\ stage' = stage
    <3>1. n # 0 /\ sent[1] = "header"
      BY <2>3, <2>7 DEF HandshakeInv, sent
    <3>2. asked'["lobby"] # <<>> /\ asked'["lobby"][1] = "header"
      <4>1. 1 \in 1..n
        BY <2>1, <3>1
      <4>2. QED
        BY <2>2, <2>3, <3>1, <4>1
    <3>3. ASSUME OneHeader' PROVE FirstHandshake'
      <4>1. FirstHandshake
        BY <2>5, <3>3 DEF HandshakeInv
      <4>2. IF stage = "acked" THEN n = 1 ELSE n >= 2
        BY <2>7, <4>1 DEF FirstHandshake, n, sent
      <4>3. \A i \in 1..n+1 : Append(sent, p)[i] = "auth" <=> i = 2
        <5>1. \A i \in 1..n : sent[i] = "auth" <=> i = 2
          BY <2>3, <4>1 DEF FirstHandshake, sent
        <5>2. p = "auth" <=> n + 1 = 2
          BY <2>1, <2>7, <4>2 DEF Tasks
        <5>3. \A i \in 1..n+1 : i \in 1..n \/ i = n + 1
          BY <2>1
        <5>4. QED
          BY <2>3, <5>1, <5>2, <5>3
      <4>4. /\ stage' \notin {"waiting_header", "acked"} /\ n + 1 >= 2
        BY <2>1, <2>7, <4>2
      <4>5. /\ k = 0 => transcript = <<>> /\ keys = <<>>
            /\ k = 1 => transcript = <<"header", "ack">> /\ keys = <<>>
            /\ k >= 2 => keys = <<TRUE, <<"header", "ack", "auth">>>>
        BY <4>1 DEF FirstHandshake, k
      <4>6. QED
        BY <1>4, <2>2, <2>3, <2>4, <4>3, <4>4, <4>5 DEF FirstHandshake
    <3>4. stage # "start" /\ stage' # "start"
          /\ stage' \in {"start", "ticket", "waiting_header", "acked", "waiting_auth", "done", "failed"}
      BY <2>7
    <3>5. QED
      BY <1>1, <1>4, <3>2, <3>3, <3>4 DEF HandshakeInv
  <2>8. QED
    <3>1. \/ stage = "ticket" /\ p = "header"
          \/ stage = "acked" /\ p = "auth"
          \/ stage = "done" /\ p \in Tasks \cup {"zero", "junk"}
      BY <1>3, <1>6 DEF Packets
    <3>2. QED
      BY <1>3, <2>6, <2>7, <3>1 DEF Waiting, Tasks
<1>7. QED
  BY <1>5, <1>6 DEF Tcp

NoTicket(out) == \A i \in DOMAIN out : out[i].reply # Raw("ticket")

LEMMA CutElements ==
  ASSUME NEW X, NEW out \in Seq(X), NEW l \in 1..Len(out)
  PROVE  /\ \A i \in DOMAIN SubSeq(out, 1, l) : i \in DOMAIN out /\ SubSeq(out, 1, l)[i] = out[i]
         /\ \A i \in DOMAIN SubSeq(out, l + 1, Len(out)) :
              l + i \in DOMAIN out /\ SubSeq(out, l + 1, Len(out))[i] = out[l + i]
OBVIOUS

\* The stage a game that received part of a queue is in afterwards
LEMMA AdvanceIs ==
  ASSUME NEW t, NEW units
  PROVE  \/ Advance(t, units) = stage
         \/ /\ stage = "start" /\ Advance(t, units) = "ticket"
            /\ units[1].reply = Raw("ticket") \/ (Len(units) # 1 /\ units[2].reply = Raw("ticket"))
         \/ stage # "start" /\ Advance(t, units) = "failed"
         \/ stage = "waiting_header" /\ Advance(t, units) = "acked"
         \/ stage = "waiting_auth" /\ Advance(t, units) = "done"
BY DEF Advance, After

LEMMA RecvKeepsHandshake ==
  ASSUME HandshakeInv, NEW s \in TcpSockets, Recv(s)
  PROVE  HandshakeInv'
<1>1. AnswerInv'
  BY RecvKeepsAnswers DEF HandshakeInv
<1>2. PICK t \in Tcp : QueueInv /\ t = linked[s]
  BY DEF HandshakeInv, AnswerInv, QueueInv, Recv, ReadReady
<1>3. PICK out \in Seq(Units), l \in 1..2 :
        /\ out = tcpOut[t] /\ l <= Len(out)
        /\ tcpOut' = [tcpOut EXCEPT ![t] = SubSeq(out, l + 1, Len(out))]
        /\ stage' = Advance(t, SubSeq(out, 1, l))
  <2>1. tcpOut[t] \in Seq(Units)
    BY <1>2 DEF QueueInv
  <2>2. QED
    BY <1>2, <2>1 DEF Recv
<1>4. UNCHANGED <<tcpIn, sessionKey, transcript, keys, asked>>
  BY DEF Recv, lobbyVars
<1>5. l \in 1..Len(out)
  BY <1>3
<1>6. /\ \A i \in DOMAIN SubSeq(out, 1, l) : i \in DOMAIN out /\ SubSeq(out, 1, l)[i] = out[i]
      /\ \A i \in DOMAIN SubSeq(out, l + 1, Len(out)) :
           l + i \in DOMAIN out /\ SubSeq(out, l + 1, Len(out))[i] = out[l + i]
  BY <1>5, CutElements
<1>7. \A u \in Tcp : \A i \in DOMAIN tcpOut'[u] : tcpOut'[u][i].reply = Raw("ticket") => sessionKey'
  <2>1. ASSUME NEW u \in Tcp, u # t PROVE tcpOut'[u] = tcpOut[u]
    BY <1>2, <1>3, <2>1 DEF QueueInv
  <2>2. tcpOut'[t] = SubSeq(out, l + 1, Len(out))
    BY <1>2, <1>3 DEF QueueInv
  <2>3. \A i \in DOMAIN out : out[i].reply = Raw("ticket") => sessionKey
    BY <1>3 DEF HandshakeInv
  <2>4. ASSUME NEW i \in DOMAIN SubSeq(out, l + 1, Len(out)), SubSeq(out, l + 1, Len(out))[i].reply = Raw("ticket")
        PROVE  sessionKey
    BY <1>6, <2>3, <2>4
  <2>5. QED
    BY <1>4, <2>1, <2>2, <2>4 DEF HandshakeInv
<1>8. Taken("lobby")' = Taken("lobby")
  BY <1>4 DEF Taken
<1>9. OneHeader' = OneHeader
  BY <1>4 DEF OneHeader
<1>10. CASE stage' = stage
  <2>1. FirstHandshake' = FirstHandshake
    BY <1>4, <1>8, <1>10 DEF FirstHandshake
  <2>2. QED
    BY <1>1, <1>4, <1>7, <1>9, <1>10, <2>1 DEF HandshakeInv
<1>11. CASE /\ stage = "start" /\ stage' = "ticket"
            /\ \E i \in DOMAIN SubSeq(out, 1, l) : SubSeq(out, 1, l)[i].reply = Raw("ticket")
  <2>1. PICK i \in DOMAIN SubSeq(out, 1, l) : SubSeq(out, 1, l)[i].reply = Raw("ticket")
    BY <1>11
  <2>2. sessionKey
    <3>1. i \in DOMAIN tcpOut[t] /\ tcpOut[t][i].reply = Raw("ticket")
      BY <1>3, <1>6, <2>1
    <3>2. QED
      BY <3>1 DEF HandshakeInv
  <2>3. OneHeader => FirstHandshake'
    BY <1>4, <1>8, <1>11 DEF FirstHandshake, HandshakeInv
  <2>4. QED
    BY <1>1, <1>4, <1>7, <1>9, <1>11, <2>2, <2>3 DEF HandshakeInv
<1>12. CASE \/ stage = "waiting_header" /\ stage' = "acked"
            \/ stage = "waiting_auth" /\ stage' = "done"
            \/ stage # "start" /\ stage' = "failed"
  <2>1. OneHeader => FirstHandshake'
    BY <1>4, <1>8, <1>12 DEF FirstHandshake, HandshakeInv
  <2>2. QED
    BY <1>1, <1>4, <1>7, <1>9, <1>12, <2>1 DEF HandshakeInv
<1>13. \/ stage' = stage
       \/ /\ stage = "start" /\ stage' = "ticket"
          /\ \E i \in DOMAIN SubSeq(out, 1, l) : SubSeq(out, 1, l)[i].reply = Raw("ticket")
       \/ stage # "start" /\ stage' = "failed"
       \/ stage = "waiting_header" /\ stage' = "acked"
       \/ stage = "waiting_auth" /\ stage' = "done"
  <2> DEFINE first == SubSeq(out, 1, l)
  <2>1. stage' = Advance(t, first)
    BY <1>3
  <2>2. DOMAIN first = 1..l /\ Len(first) = l /\ (l = 1 \/ l = 2)
    BY <1>3, <1>5
  <2> HIDE DEF first
  <2>3. \/ stage' = stage
        \/ /\ stage = "start" /\ stage' = "ticket"
           /\ first[1].reply = Raw("ticket") \/ (Len(first) # 1 /\ first[2].reply = Raw("ticket"))
        \/ stage # "start" /\ stage' = "failed"
        \/ stage = "waiting_header" /\ stage' = "acked"
        \/ stage = "waiting_auth" /\ stage' = "done"
    BY <2>1, AdvanceIs
  <2>4. 1 \in DOMAIN first /\ (Len(first) # 1 => 2 \in DOMAIN first)
    BY <2>2
  <2>5. QED
    BY <2>3, <2>4, Zenon DEF first
<1>14. QED
  BY <1>10, <1>11, <1>12, <1>13, Zenon

LEMMA CloseKeepsHandshake ==
  ASSUME HandshakeInv, NEW s \in TcpSockets, CloseSocket(s)
  PROVE  HandshakeInv'
<1>1. /\ UNCHANGED <<tcpIn, tcpOut, transactions, userFile, asked, read, sessionKey, transcript, keys>>
      /\ stage' = stage \/ (stage # "start" /\ stage' = "ticket")
  <2>1. UNCHANGED <<tcpIn, tcpOut, transactions, userFile, asked, read, sessionKey, transcript, keys>>
    BY DEF CloseSocket, queueVars, lobbyVars
  <2>2. stage' = IF linked[s] = "lobby" /\ stage # "start" THEN "ticket" ELSE stage
    BY DEF CloseSocket
  <2>3. QED
    BY <2>1, <2>2
<1>2. AnswerInv'
  <2>1. linked' \in [TcpSockets -> Tcp \cup {"none"}]
    BY DEF HandshakeInv, AnswerInv, QueueInv, CloseSocket
  <2>2. QED
    BY <1>1, <2>1, AnswersUnchanged DEF HandshakeInv
<1>3. Taken("lobby")' = Taken("lobby")
  BY <1>1 DEF Taken
<1>4. OneHeader' = OneHeader
  BY <1>1 DEF OneHeader
<1>5. OneHeader => FirstHandshake'
  BY <1>1, <1>3 DEF FirstHandshake, HandshakeInv
<1>6. QED
  BY <1>1, <1>2, <1>4, <1>5 DEF HandshakeInv

LEMMA HandshakeUnchanged ==
  ASSUME HandshakeInv, AnswerInv',
         UNCHANGED <<tcpIn, tcpOut, sessionKey, transcript, keys, stage, asked>>
  PROVE  HandshakeInv'
<1>1. Taken("lobby")' = Taken("lobby")
  BY DEF Taken
<1>2. FirstHandshake' = FirstHandshake /\ OneHeader' = OneHeader
  BY <1>1 DEF FirstHandshake, OneHeader
<1>3. QED
  BY <1>2 DEF HandshakeInv

LEMMA StreamElements ==
  ASSUME NEW r \in Replies
  PROVE  /\ Stream(<<>>) = <<>>
         /\ \A i \in DOMAIN Stream(<<r>>) : Stream(<<r>>)[i].reply = r
<1>1. Stream(<<>>) = <<>>
  <2>1. [i \in DOMAIN <<>> |-> Parts(<<>>[i])] = <<>>
    OBVIOUS
  <2>2. QED
    BY <2>1, FlattenEmpty DEF Stream
<1>2. Stream(<<r>>) = Parts(r)
  <2>1. <<r>> = Append(<<>>, r) /\ <<>> \in Seq(Replies)
    OBVIOUS
  <2>2. Stream(<<r>>) = <<>> \o Parts(r)
    BY <1>1, <2>1, StreamAppend
  <2>3. QED
    BY <2>2, PartsType, ConcatEmptySeq
<1>3. \A i \in DOMAIN Parts(r) : Parts(r)[i].reply = r
  BY DEF Parts
<1>4. QED
  BY <1>1, <1>2, <1>3

LEMMA NoTicketAnswered ==
  ASSUME NEW requests \in Requests, NEW k \in 1..Len(requests), requests[k] # "ticket"
  PROVE  NoTicket(Stream(Expected(requests, k)))
<1>1. requests[k] \in {"post", "header", "auth", "zero", "junk"} \cup Tasks /\ k \in Nat
  BY DEF Requests
<1>2. TasksIn(requests, k) \in Nat /\ LastWrite(requests, k) \in Nat
  BY <1>1, TasksFinite, LastWriteType
<1>3. \/ Expected(requests, k) = <<>>
      \/ \E r \in Replies : Expected(requests, k) = <<r>> /\ r # Raw("ticket")
  BY <1>1, <1>2 DEF Expected, Replies, Reply, Raw, Tasks
<1>4. CASE Expected(requests, k) = <<>>
  <2>1. Raw("ack") \in Replies
    BY DEF Raw, Reply, Replies
  <2>2. Stream(<<>>) = <<>>
    BY <2>1, StreamElements
  <2>3. QED
    BY <1>4, <2>2 DEF NoTicket
<1>5. ASSUME NEW r \in Replies, Expected(requests, k) = <<r>>, r # Raw("ticket")
      PROVE  NoTicket(Stream(Expected(requests, k)))
  BY <1>5, StreamElements DEF NoTicket
<1>6. QED
  BY <1>3, <1>4, <1>5

LEMMA ConcatElements ==
  ASSUME NEW X, NEW a \in Seq(X), NEW b \in Seq(X)
  PROVE  \A i \in DOMAIN (a \o b) :
           \/ i \in DOMAIN a /\ (a \o b)[i] = a[i]
           \/ i - Len(a) \in DOMAIN b /\ (a \o b)[i] = b[i - Len(a)]
OBVIOUS

LEMMA AppendThird ==
  ASSUME NEW a, NEW b, NEW c
  PROVE  Append(<<a, b>>, c) = <<a, b, c>>
<1> DEFINE X == {a, b, c}
<1>1. <<a, b>> \in Seq(X) /\ c \in X /\ Len(<<a, b>>) = 2 /\ <<a, b, c>> \in Seq(X) /\ Len(<<a, b, c>>) = 3
  OBVIOUS
<1> HIDE DEF X
<1>2. Append(<<a, b>>, c) \in Seq(X) /\ Len(Append(<<a, b>>, c)) = 3
  BY <1>1, AppendProperties
<1>3. \A i \in 1..3 : Append(<<a, b>>, c)[i] = <<a, b, c>>[i]
  <2>1. Append(<<a, b>>, c)[1] = a /\ Append(<<a, b>>, c)[2] = b /\ Append(<<a, b>>, c)[3] = c
    BY <1>1, AppendProperties
  <2>2. QED
    BY <2>1
<1>4. QED
  BY <1>1, <1>2, <1>3, SeqEqual

\* What a packet of the lobby changes in the data the keys are derived from
LEMMA LobbyHashes ==
  ASSUME NEW p \in PacketsOf("lobby"), LobbyHandle(p)
  PROVE  /\ sessionKey' = sessionKey
         /\ p = "header" => transcript' = transcript \o <<"header", "ack">> /\ keys' = keys
         /\ p = "auth" => transcript' = Append(transcript, "auth") /\ keys' = <<sessionKey, transcript'>>
         /\ p \notin {"header", "auth"} => transcript' = transcript /\ keys' = keys
<1>1. CASE p = "header"
  BY <1>1 DEF LobbyHandle, ClientHeader, Tasks
<1>2. CASE p = "auth"
  BY <1>2 DEF LobbyHandle, ClientAuth, Tasks
<1>3. CASE p \notin {"header", "auth"}
  BY <1>3 DEF LobbyHandle, CallService, lobbyVars
<1>4. QED
  BY <1>1, <1>2, <1>3

LEMMA FrameKeepsHandshake ==
  ASSUME HandshakeInv, NEW t \in Tcp, TcpFrame(t)
  PROVE  HandshakeInv'
<1> DEFINE k == Taken(t)
           p == Head(tcpIn[t])
<1>1. /\ UNCHANGED <<stage, asked>>
      /\ tcpIn[t] # <<>>
      /\ k \in Nat /\ k + 1 \in 1..Len(asked[t])
      /\ Taken(t)' = k + 1 /\ \A u \in Tcp \ {t} : Taken(u)' = Taken(u)
      /\ p = asked[t][k + 1]
      /\ tcpOut' = [tcpOut EXCEPT ![t] = @ \o Stream(Expected(asked[t], k + 1))]
  BY FrameAnswers DEF HandshakeInv, TcpFrame, gameVars
<1>2. AnswerInv' /\ QueueInv
  BY FrameKeepsAnswers DEF HandshakeInv, AnswerInv
<1>3. asked[t] \in Requests /\ p \in PacketsOf(t)
  <2>1. asked[t] \in Seq(PacketsOf(t))
    BY <1>2 DEF QueueInv
  <2>2. QED
    BY <1>1, <1>2, <2>1, QueueTypes
<1> HIDE DEF k, p
<1>4. p # "ticket" => NoTicket(Stream(Expected(asked[t], k + 1)))
  BY <1>1, <1>3, NoTicketAnswered
<1>5. ASSUME sessionKey => sessionKey', p = "ticket" => sessionKey'
      PROVE  \A u \in Tcp : \A i \in DOMAIN tcpOut'[u] : tcpOut'[u][i].reply = Raw("ticket") => sessionKey'
  <2>1. ASSUME NEW u \in Tcp, u # t PROVE tcpOut'[u] = tcpOut[u]
    BY <1>1, <1>2, <2>1 DEF QueueInv
  <2>2. PICK a \in Seq(Units), b \in Seq(Units) : a = tcpOut[t] /\ b = Stream(Expected(asked[t], k + 1))
    <3>1. k + 1 <= Len(asked[t])
      BY <1>1, <1>3 DEF Requests
    <3>2. QED
      BY <1>1, <1>2, <1>3, <3>1, StreamNext DEF QueueInv
  <2>3. tcpOut'[t] = a \o b
    BY <1>1, <1>2, <2>2 DEF QueueInv
  <2>4. ASSUME NEW i \in DOMAIN (a \o b), (a \o b)[i].reply = Raw("ticket"), p # "ticket" PROVE sessionKey
    <3>1. NoTicket(b)
      BY <1>4, <2>2, <2>4
    <3>2. \A j \in DOMAIN a : a[j].reply = Raw("ticket") => sessionKey
      BY <2>2 DEF HandshakeInv
    <3>3. QED
      BY <2>4, <3>1, <3>2, ConcatElements DEF NoTicket
  <2>5. QED
    BY <1>5, <2>1, <2>3, <2>4 DEF HandshakeInv
<1>6. OneHeader' = OneHeader
  BY <1>1 DEF OneHeader
<1>7. CASE t = "auth"
  <2>1. /\ sessionKey' = (sessionKey \/ p = "ticket")
        /\ UNCHANGED <<transcript, keys>>
    BY <1>7 DEF TcpFrame, AuthHandle, p
  <2>2. Taken("lobby")' = Taken("lobby")
    BY <1>1, <1>7 DEF Tcp
  <2>3. FirstHandshake' = FirstHandshake
    BY <1>1, <2>1, <2>2 DEF FirstHandshake
  <2>4. sessionKey' \in BOOLEAN /\ (sessionKey => sessionKey') /\ (p = "ticket" => sessionKey')
    BY <2>1
  <2>5. QED
    BY <1>1, <1>2, <1>5, <1>6, <2>3, <2>4 DEF HandshakeInv
<1>8. CASE t = "lobby"
  <2> DEFINE sent == asked["lobby"]
  <2>1. LobbyHandle(p) /\ p \in PacketsOf("lobby") /\ p = sent[k + 1] /\ k + 1 \in 1..Len(sent)
        /\ Taken("lobby") = k /\ Taken("lobby")' = k + 1
    BY <1>1, <1>3, <1>8 DEF TcpFrame, p, k
  <2>2. /\ sessionKey' = sessionKey
        /\ p = "header" => transcript' = transcript \o <<"header", "ack">> /\ keys' = keys
        /\ p = "auth" => transcript' = Append(transcript, "auth") /\ keys' = <<sessionKey, transcript'>>
        /\ p \notin {"header", "auth"} => transcript' = transcript /\ keys' = keys
    BY <2>1, LobbyHashes
  <2>3. p # "ticket"
    BY <2>1 DEF PacketsOf, Tasks
  <2>4. sent \in Requests /\ DOMAIN sent = 1..Len(sent) /\ Len(sent) \in Nat
    BY <1>3, <1>8 DEF Requests
  <2>5. sent # <<>> /\ sent[1] = "header" /\ sessionKey
    <3>1. sent # <<>>
      BY <2>1, <2>4
    <3>2. QED
      BY <3>1 DEF HandshakeInv
  <2> HIDE DEF sent
  <2>6. ASSUME OneHeader PROVE FirstHandshake'
    <3>1. /\ \A i \in DOMAIN sent : sent[i] = "auth" <=> i = 2
          /\ stage \in {"waiting_header", "acked"} => Len(sent) = 1
          /\ stage \in {"waiting_auth", "done"} => Len(sent) >= 2
          /\ k = 0 => transcript = <<>> /\ keys = <<>>
          /\ k = 1 => transcript = <<"header", "ack">> /\ keys = <<>>
          /\ k >= 2 => keys = <<TRUE, <<"header", "ack", "auth">>>>
      BY <2>1, <2>6 DEF HandshakeInv, FirstHandshake, sent
    <3>2. \A i \in DOMAIN sent : sent[i] = "header" => i = 1
      BY <2>6 DEF OneHeader, sent
    <3>3. CASE k = 0
      <4>1. p = "header"
        BY <2>1, <2>5, <3>3
      <4>2. transcript' = <<"header", "ack">> /\ keys' = <<>>
        BY <2>2, <3>1, <3>3, <4>1
      <4>3. QED
        BY <1>1, <2>1, <3>1, <3>3, <4>2 DEF FirstHandshake, sent
    <3>4. CASE k = 1
      <4>1. p = "auth"
        BY <2>1, <2>4, <3>1, <3>4
      <4>2. transcript' = <<"header", "ack", "auth">> /\ keys' = <<sessionKey, <<"header", "ack", "auth">>>>
        <5>1. Append(<<"header", "ack">>, "auth") = <<"header", "ack", "auth">>
          BY AppendThird
        <5>2. transcript = <<"header", "ack">>
          BY <3>1, <3>4
        <5>3. transcript' = Append(transcript, "auth") /\ keys' = <<sessionKey, transcript'>>
          BY <2>2, <4>1, Zenon
        <5>4. transcript' = <<"header", "ack", "auth">>
          BY <5>1, <5>2, <5>3, Zenon
        <5>5. QED
          BY <5>3, <5>4, Zenon
      <4>3. sessionKey = TRUE
        <5>1. sessionKey \in BOOLEAN
          BY DEF HandshakeInv
        <5>2. QED
          BY <2>5, <5>1, Zenon
      <4>4. QED
        BY <1>1, <2>1, <3>1, <3>4, <4>2, <4>3 DEF FirstHandshake, sent
    <3>5. CASE k >= 2
      <4>1. p \notin {"header", "auth"}
        BY <1>1, <2>1, <2>4, <3>1, <3>2, <3>5
      <4>2. keys' = <<TRUE, <<"header", "ack", "auth">>>>
        BY <2>2, <3>1, <3>5, <4>1
      <4>3. k + 1 # 0 /\ k + 1 # 1
        BY <1>1, <3>5
      <4>4. QED
        BY <1>1, <2>1, <3>1, <3>5, <4>2, <4>3 DEF FirstHandshake, sent
    <3>6. QED
      BY <1>1, <3>3, <3>4, <3>5
  <2>7. QED
    BY <1>1, <1>2, <1>5, <1>6, <2>2, <2>3, <2>6 DEF HandshakeInv
<1>9. QED
  BY <1>7, <1>8 DEF Tcp

LEMMA HandshakeStep == HandshakeInv /\ [Next]_vars => HandshakeInv'
<1> SUFFICES ASSUME HandshakeInv, [Next]_vars PROVE HandshakeInv'
  OBVIOUS
<1>1. AnswerInv'
  BY AnswerStep DEF HandshakeInv
<1>2. CASE \E s \in TcpSockets : CloseSocket(s)
  BY <1>2, CloseKeepsHandshake
<1>3. CASE \E s \in TcpSockets : Send(s)
  BY <1>3, SendKeepsHandshake
<1>4. CASE \E s \in TcpSockets : Recv(s)
  BY <1>4, RecvKeepsHandshake
<1>5. CASE \E t \in Tcp : TcpFrame(t)
  BY <1>5, FrameKeepsHandshake
<1>6. CASE \/ \E s \in TcpSockets : Connect(s)
           \/ \E s \in UdpSockets : IoctlSocket(s) \/ SendTo(s) \/ RecvFrom(s)
  BY <1>1, <1>6, HandshakeUnchanged
     DEF Connect, IoctlSocket, SendTo, RecvFrom, socketVars, queueVars, lobbyVars, gameVars
<1>7. CASE ServerMain \/ TestExit \/ PreDestroy \/ Join \/ UNCHANGED vars
           \/ (\E t \in Tcp \cup Stuns : FrameDone(t)) \/ \E t \in Stuns : UdpFrame(t)
  BY <1>1, <1>7, HandshakeUnchanged
     DEF ServerMain, TestExit, PreDestroy, Join, FrameDone, UdpFrame,
         vars, socketVars, queueVars, lobbyVars, gameVars
<1>8. QED
  BY <1>2, <1>3, <1>4, <1>5, <1>6, <1>7 DEF Next, Game, ServerThread, Frame

\* In the only handshake of a session the header is the first packet of the lobby.
LEMMA SingleHeader ==
  ASSUME NEW sent \in Requests, sent # <<>> => sent[1] = "header",
         Cardinality({i \in DOMAIN sent : sent[i] = "header"}) = 1
  PROVE  \A i \in DOMAIN sent : sent[i] = "header" => i = 1
<1> DEFINE S == {i \in DOMAIN sent : sent[i] = "header"}
<1>1. IsFiniteSet(S)
  <2>1. DOMAIN sent = 1..Len(sent) /\ 1 \in Int /\ Len(sent) \in Int
    BY DEF Requests
  <2>2. IsFiniteSet(1..Len(sent))
    BY <2>1, FS_Interval
  <2>3. S \in SUBSET (1..Len(sent))
    BY <2>1
  <2>4. QED
    BY <2>2, <2>3, FS_Subset
<1>2. \E x : S = {x}
  BY <1>1, FS_Singleton
<1>3. ASSUME NEW i \in S PROVE i = 1
  <2>1. sent # <<>> /\ 1 \in DOMAIN sent
    BY DEF Requests
  <2>2. 1 \in S
    BY <2>1
  <2>3. QED
    BY <1>2, <2>2
<1>4. QED
  BY <1>3

\* Whatever else is sent, however often the connection to the lobby is lost and
\* whatever the thread has taken yet: the lobby derives the keys of a session's only
\* handshake from a session key the client was given and from both headers and the
\* client's message, in this order, as the client does (auth3_server.cpp:117,
\* lobby_server.cpp:57-98, keys.cpp:75-104).
THEOREM HandshakeAgrees == Spec => []FirstHandshakeAgrees
<1>1. HandshakeInv => FirstHandshakeAgrees
  <2> SUFFICES ASSUME HandshakeInv, keys # <<>>,
                      Cardinality({i \in DOMAIN asked["lobby"] : asked["lobby"][i] = "header"}) = 1
               PROVE  keys = <<TRUE, <<"header", "ack", "auth">>>>
    BY DEF FirstHandshakeAgrees
  <2>1. asked["lobby"] \in Requests /\ Taken("lobby") \in Nat
    BY QueueTypes DEF HandshakeInv, AnswerInv, Tcp
  <2>2. asked["lobby"] # <<>> => asked["lobby"][1] = "header"
    BY DEF HandshakeInv
  <2>3. OneHeader
    BY <2>1, <2>2, SingleHeader DEF OneHeader
  <2>4. FirstHandshake
    BY <2>3 DEF HandshakeInv
  <2>5. Taken("lobby") >= 2
    <3>1. /\ Taken("lobby") = 0 => keys = <<>>
          /\ Taken("lobby") = 1 => keys = <<>>
      BY <2>4 DEF FirstHandshake
    <3>2. PICK k \in Nat : k = Taken("lobby")
      BY <2>1
    <3>3. k # 0 /\ k # 1
      BY <3>1, <3>2
    <3>4. k >= 2
      BY <3>3
    <3>5. QED
      BY <3>2, <3>4, Zenon
  <2>6. QED
    BY <2>4, <2>5, Zenon DEF FirstHandshake
<1>2. QED
  BY <1>1, HandshakeInitially, HandshakeStep, PTL DEF Spec
=============================================================================
