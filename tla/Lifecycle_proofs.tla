--------------------------- MODULE Lifecycle_proofs ---------------------------
(***************************************************************************)
(* Where the messages of the console go, for any number of threads,        *)
(* admins, messages and requests.                                          *)
(***************************************************************************)
EXTENDS Lifecycle, SequenceTheorems, TLAPS

----------------------------------------------------------------------------
(* The replies to admins *)

\* What is in the buffer was written since it was last emptied for an admin.
ReplyInv ==
  /\ count \in Nat /\ since \in Nat /\ since <= count
  /\ redirectBuffer \in Seq([by : Threads, no : Nat])
  /\ \A i \in DOMAIN redirectBuffer : redirectBuffer[i].no > since
  /\ ReplyIsOfRequest

LEMMA ReplyInitially == LifeInit => ReplyInv
BY DEF LifeInit, ReplyInv, ReplyIsOfRequest

LEMMA ReplyStep == ReplyInv /\ [LifeNext]_lifeVars => ReplyInv'
<1> SUFFICES ASSUME ReplyInv, [LifeNext]_lifeVars PROVE ReplyInv'
  OBVIOUS
<1> USE DEF ReplyInv, ReplyIsOfRequest, Numbers
<1>1. CASE StartUp \/ PostUnpack \/ MainFrame
  BY <1>1 DEF StartUp, PostUnpack, MainFrame, messageVars, rconVars
<1>2. CASE GiveUp \/ \E t \in Threads : ExitHook(t)
  BY <1>2 DEF GiveUp, ExitHook, Leave, messageVars, rconVars
<1>3. CASE RunnerStarts \/ RunnerTakes \/ RunnerPrints \/ RunnerEnds
  BY <1>3 DEF RunnerStarts, RunnerTakes, RunnerPrints, RunnerEnds, messageVars, rconVars
<1>4. CASE WindowEnds \/ WindowClosed
  BY <1>4 DEF WindowEnds, WindowClosed, messageVars, rconVars
<1>5. CASE \E admin \in Admins : RconRequest(admin)
  BY <1>5 DEF RconRequest, SetupRedirect, messageVars
<1>6. CASE RconReply
  BY <1>6 DEF RconReply, ClearRedirect, messageVars
<1>7. CASE RconError
  BY <1>7 DEF RconError, messageVars
<1>8. ASSUME NEW t \in Threads, DispatchMessage(t) PROVE ReplyInv'
  <2> DEFINE message == [by |-> t, no |-> count + 1]
  <2>1. count' = count + 1 /\ since' = since /\ replies' = replies
    BY <1>8 DEF DispatchMessage
  <2>2. CASE redirectBuffer' = redirectBuffer
    BY <2>1, <2>2
  <2>3. CASE redirectBuffer' = redirectBuffer \o <<message>>
    BY <2>1, <2>3
  <2>4. QED
    BY <1>8, <2>2, <2>3 DEF DispatchMessage
<1>9. CASE \E t \in Threads : Joined(t) \/ Exit(t) \/ Enqueue(t)
  BY <1>9 DEF Joined, Exit, Enqueue, messageVars, rconVars
<1>10. CASE UNCHANGED lifeVars
  BY <1>10 DEF lifeVars, messageVars, rconVars
<1>11. QED
  BY <1>1, <1>2, <1>3, <1>4, <1>5, <1>6, <1>7, <1>8, <1>9, <1>10 DEF LifeNext

\* No admin reads what an earlier command left in the buffer, though an error
\* skips clear_redirect (rcon.cpp:22-40, 175-205).
THEOREM RepliesAreOfTheirRequest == LifeSpec => []ReplyIsOfRequest
<1>1. ReplyInv => ReplyIsOfRequest
  BY DEF ReplyInv
<1>2. QED
  BY <1>1, ReplyInitially, ReplyStep, PTL DEF LifeSpec

----------------------------------------------------------------------------
(* The messages of the console *)

Message == [by : Threads, no : Nat]

\* Types, and that the runner holds a batch only while it prints it.
HeldInv ==
  /\ count \in Nat
  /\ headless \in BOOLEAN
  /\ shown \in Seq(Message) /\ batch \in Seq(Message) /\ queue \in Seq(Message)
  /\ redirectBuffer \in Seq(Message)
  /\ writing \in [Threads -> Seq(Message)]
  /\ runner # "printing" => batch = <<>>
  /\ stage # "game" => runner = "none"
  /\ headless => runner = "none" /\ queue = <<>> /\ \A t \in Threads : writing[t] = Silence

LEMMA HeldInitially == LifeInit => HeldInv
BY DEF LifeInit, HeldInv, Message, Silence

LEMMA HeldStep == HeldInv /\ [LifeNext]_lifeVars => HeldInv'
<1> SUFFICES ASSUME HeldInv, [LifeNext]_lifeVars PROVE HeldInv'
  OBVIOUS
<1> USE DEF HeldInv
<1>1. CASE StartUp
  <2>1. stage # "game" /\ UNCHANGED <<headless, runner>>
    <3>1. PICK i \in 1 .. 4 : stage = Stages[i]
      BY <1>1 DEF StartUp, Stages
    <3>2. stage # "game"
      BY <3>1 DEF Stages
    <3>3. QED
      BY <1>1, <3>2 DEF StartUp, consoleVars
  <2>2. QED
    BY <1>1, <2>1 DEF StartUp, messageVars, rconVars
<1>2. CASE PostUnpack
  BY <1>2 DEF PostUnpack, messageVars, rconVars
<1>3. CASE MainFrame
  BY <1>3 DEF MainFrame, messageVars, rconVars, processVars
<1>4. CASE GiveUp \/ \E t \in Threads : ExitHook(t)
  BY <1>4 DEF GiveUp, ExitHook, Leave, messageVars, rconVars, processVars
<1>5. CASE RunnerStarts \/ RunnerEnds
  BY <1>5 DEF RunnerStarts, RunnerEnds, RunnerGoto, messageVars, rconVars, processVars
<1>6. CASE RunnerTakes
  BY <1>6 DEF RunnerTakes, RunnerGoto, EmptyMessageQueue, rconVars, processVars
<1>7. CASE RunnerPrints
  BY <1>7 DEF RunnerPrints, RunnerGoto, rconVars, processVars
<1>8. CASE WindowEnds \/ WindowClosed
  BY <1>8 DEF WindowEnds, WindowClosed, messageVars, rconVars, processVars
<1>9. CASE RconReply \/ RconError \/ \E admin \in Admins : RconRequest(admin)
  <2>1. redirectBuffer' \in {redirectBuffer, <<>>} /\ UNCHANGED <<processVars, consoleVars, messageVars>>
    BY <1>9 DEF RconReply, ClearRedirect, RconError, RconRequest, SetupRedirect
  <2>2. <<>> \in Seq(Message)
    OBVIOUS
  <2>3. QED
    BY <2>1, <2>2 DEF messageVars, processVars, consoleVars
<1>10. ASSUME NEW t \in Threads, DispatchMessage(t) PROVE HeldInv'
  <2> DEFINE message == [by |-> t, no |-> count + 1]
  <2>1. message \in Message
    BY DEF Message
  <2>2. count' = count + 1 /\ UNCHANGED <<headless, stage, runner, queue, batch>>
    BY <1>10 DEF DispatchMessage, processVars, consoleVars
  <2> HIDE DEF message
  <2>3. CASE redirectBuffer' = redirectBuffer \o <<message>> /\ UNCHANGED <<writing, shown>>
    BY <2>1, <2>2, <2>3
  <2>4. CASE headless /\ shown' = shown \o <<message>> /\ UNCHANGED <<writing, redirectBuffer>>
    BY <2>1, <2>2, <2>4
  <2>5. CASE ~headless /\ writing' = [writing EXCEPT ![t] = <<message>>] /\ UNCHANGED <<shown, redirectBuffer>>
    BY <2>1, <2>2, <2>5
  <2>6. QED
    BY <1>10, <2>3, <2>4, <2>5 DEF DispatchMessage, message
<1>11. ASSUME NEW t \in Threads, Enqueue(t) PROVE HeldInv'
  <2>1. ~headless /\ queue' \in Seq(Message)
    BY <1>11 DEF Enqueue
  <2>2. writing' \in [Threads -> Seq(Message)]
    BY <1>11 DEF Enqueue, Silence
  <2>3. QED
    BY <1>11, <2>1, <2>2 DEF Enqueue, rconVars, processVars, consoleVars
<1>12. CASE \E t \in Threads : Joined(t) \/ Exit(t)
  BY <1>12 DEF Joined, Exit, messageVars, rconVars, processVars, consoleVars
<1>13. CASE UNCHANGED lifeVars
  BY <1>13 DEF lifeVars, messageVars, rconVars, processVars, consoleVars
<1>14. QED
  BY <1>1, <1>2, <1>3, <1>4, <1>5, <1>6, <1>7, <1>8, <1>9, <1>10, <1>11, <1>12, <1>13 DEF LifeNext

LEMMA Associative ==
  ASSUME NEW front \in Seq(Message), NEW middle \in Seq(Message), NEW end \in Seq(Message)
  PROVE  (front \o middle) \o end = front \o (middle \o end)
BY ConcatAssociative

LEMMA ConsoleIsSeq == HeldInv => OnConsole \in Seq(Message)
BY DEF HeldInv, OnConsole

\* What the steps do to the console's messages: nothing, or one more at the end.
LEMMA ConsoleKept == HeldInv /\ (RunnerTakes \/ RunnerPrints) => UNCHANGED <<OnConsole, count, writing>>
<1> SUFFICES ASSUME HeldInv, RunnerTakes \/ RunnerPrints PROVE UNCHANGED <<OnConsole, count, writing>>
  OBVIOUS
<1>1. CASE RunnerTakes
  <2>1. batch = <<>> /\ batch' = queue /\ queue' = <<>> /\ UNCHANGED <<shown, count, writing>>
    BY <1>1 DEF RunnerTakes, EmptyMessageQueue, HeldInv
  <2>2. OnConsole = shown \o queue /\ OnConsole' = shown \o queue
    BY <2>1, ConcatEmptySeq DEF OnConsole, HeldInv
  <2>3. QED
    BY <2>1, <2>2
<1>2. CASE RunnerPrints
  <2>1. shown' = shown \o batch /\ batch' = <<>> /\ UNCHANGED <<queue, count, writing>>
    BY <1>2 DEF RunnerPrints
  <2>2. OnConsole' = OnConsole
    BY <2>1, ConcatEmptySeq, ConcatProperties DEF OnConsole, HeldInv
  <2>3. QED
    BY <2>1, <2>2
<1>3. QED
  BY <1>1, <1>2

LEMMA ConsoleDispatch ==
  ASSUME HeldInv, NEW t \in Threads, DispatchMessage(t)
  PROVE  /\ UNCHANGED shown => OnConsole' = OnConsole
         /\ headless /\ shown' = shown \o <<[by |-> t, no |-> count + 1]>> =>
              OnConsole' = Append(OnConsole, [by |-> t, no |-> count + 1])
<1>1. UNCHANGED <<batch, queue>>
  BY DEF DispatchMessage
<1>2. CASE UNCHANGED shown
  BY <1>1, <1>2 DEF OnConsole
<1>3. CASE headless /\ shown' = shown \o <<[by |-> t, no |-> count + 1]>>
  <2>1. batch = <<>> /\ queue = <<>>
    BY <1>3 DEF HeldInv
  <2>2. OnConsole = shown /\ OnConsole' = shown'
    BY <1>1, <1>3, <2>1, ConcatEmptySeq DEF OnConsole, HeldInv
  <2>3. QED
    BY <1>2, <1>3, <2>2 DEF HeldInv
<1>4. QED
  BY <1>2, <1>3

LEMMA ConsoleEnqueue ==
  ASSUME HeldInv, NEW t \in Threads, Enqueue(t)
  PROVE  OnConsole' = OnConsole \o writing[t]
<1>1. queue' = queue \o writing[t] /\ UNCHANGED <<shown, batch>>
  BY DEF Enqueue
<1>2. shown \o batch \in Seq(Message) /\ queue \in Seq(Message) /\ writing[t] \in Seq(Message)
  BY DEF HeldInv
<1>3. ((shown \o batch) \o queue) \o writing[t] = (shown \o batch) \o (queue \o writing[t])
  BY <1>2, Associative
<1>4. OnConsole' = (shown' \o batch') \o queue'
  BY DEF OnConsole
<1>5. QED
  BY <1>1, <1>3, <1>4, Zenon DEF OnConsole

\* The three facts about a sequence of messages that the invariant is made of.
Ordered(messages) ==
  \A i, j \in DOMAIN messages :
    i < j => /\ messages[i].no # messages[j].no
             /\ messages[i].by = messages[j].by => messages[i].no < messages[j].no
Newer(t, n, messages) ==
  \A i \in DOMAIN messages :
    messages[i].no # n /\ (messages[i].by = t => messages[i].no < n)

LEMMA NumbersAppend ==
  ASSUME NEW messages \in Seq(Message), NEW m \in Message
  PROVE  Numbers(Append(messages, m)) = Numbers(messages) \cup {m.no}
<1> DEFINE more == Append(messages, m)
<1>1. /\ DOMAIN messages = 1 .. Len(messages) /\ DOMAIN more = 1 .. Len(messages) + 1
      /\ \A i \in 1 .. Len(messages) : more[i] = messages[i]
      /\ more[Len(messages) + 1] = m /\ Len(messages) \in Nat
  OBVIOUS
<1> HIDE DEF more
<1>2. \A i \in DOMAIN more : i \in DOMAIN messages \/ i = Len(messages) + 1
  BY <1>1
<1>3. DOMAIN messages \subseteq DOMAIN more /\ Len(messages) + 1 \in DOMAIN more
  BY <1>1
<1>4. QED
  BY <1>1, <1>2, <1>3 DEF Numbers, more

LEMMA NumbersNone == Numbers(<<>>) = {}
BY DEF Numbers

LEMMA OrderedAppend ==
  ASSUME NEW messages \in Seq(Message), NEW t \in Threads, NEW n \in Nat,
         Ordered(messages), Newer(t, n, messages)
  PROVE  Ordered(Append(messages, [by |-> t, no |-> n]))
BY DEF Ordered, Newer

LEMMA NewerAppend ==
  ASSUME NEW messages \in Seq(Message), NEW t \in Threads, NEW n \in Nat, NEW u, NEW k \in Nat,
         Newer(u, k, messages), n # k, u = t => n < k
  PROVE  Newer(u, k, Append(messages, [by |-> t, no |-> n]))
BY DEF Newer

LEMMA NewerThanAll ==
  ASSUME NEW messages \in Seq(Message), NEW c \in Nat, Numbers(messages) \subseteq 0 .. c, NEW t
  PROVE  Newer(t, c + 1, messages)
<1>1. ASSUME NEW i \in DOMAIN messages PROVE messages[i].no \in 0 .. c
  BY DEF Numbers
<1>2. QED
  BY <1>1 DEF Newer

\* A message past the test of redirect is newer than its thread's others and
\* is nowhere else.
Writes(t, n) == writing[t] = <<[by |-> t, no |-> n]>>

OrderInv ==
  /\ HeldInv
  /\ Numbers(OnConsole) \subseteq 0 .. count
  /\ Numbers(redirectBuffer) \subseteq 0 .. count
  /\ \A r \in replies : Numbers(r.text) \subseteq 0 .. count
  /\ \A t \in Threads : writing[t] = Silence \/ \E n \in 1 .. count : Writes(t, n)
  /\ \A t, u \in Threads, n \in Nat : Writes(t, n) /\ Writes(u, n) => t = u
  /\ \A t \in Threads, n \in Nat : Writes(t, n) =>
       /\ n \notin Numbers(redirectBuffer)
       /\ \A r \in replies : n \notin Numbers(r.text)
       /\ Newer(t, n, OnConsole)
  /\ Ordered(OnConsole)
  /\ \A r \in replies : Numbers(r.text) \cap Numbers(OnConsole) = {}
  /\ Numbers(redirectBuffer) \cap Numbers(OnConsole) = {}

LEMMA WritesOld ==
  ASSUME OrderInv, NEW t \in Threads, NEW n \in Nat, Writes(t, n)
  PROVE  n \in 1 .. count
<1>1. writing[t] # Silence
  BY DEF Writes, Silence
<1>2. PICK k \in 1 .. count : Writes(t, k)
  BY <1>1 DEF OrderInv
<1>3. QED
  BY <1>2 DEF Writes

LEMMA OrderInitially == LifeInit => OrderInv
<1> SUFFICES ASSUME LifeInit PROVE OrderInv
  OBVIOUS
<1>1. OnConsole = <<>>
  BY DEF LifeInit, OnConsole
<1>2. Ordered(<<>>)
  BY DEF Ordered
<1>3. QED
  BY <1>1, <1>2, HeldInitially, NumbersNone DEF LifeInit, OrderInv, Writes, Silence

LEMMA OrderStep == OrderInv /\ [LifeNext]_lifeVars => OrderInv'
<1> SUFFICES ASSUME OrderInv, [LifeNext]_lifeVars PROVE OrderInv'
  OBVIOUS
<1>1. HeldInv' /\ OnConsole \in Seq(Message) /\ count \in Nat
  BY HeldStep, ConsoleIsSeq DEF OrderInv, HeldInv
<1>2. CASE UNCHANGED <<OnConsole, count, writing, redirectBuffer, replies>>
  BY <1>1, <1>2 DEF OrderInv, Writes
<1>3. CASE RconReply
  <2>1. /\ redirectBuffer' = <<>>
        /\ replies' = replies \cup {[to |-> target, since |-> since, text |-> redirectBuffer]}
        /\ UNCHANGED <<OnConsole, count, writing>>
    BY <1>3 DEF RconReply, ClearRedirect, messageVars, OnConsole
  <2>2. \A r \in replies' : r \in replies \/ r.text = redirectBuffer
    BY <2>1
  <2>3. QED
    BY <1>1, <2>1, <2>2, NumbersNone DEF OrderInv, Writes
<1>4. CASE \E admin \in Admins : RconRequest(admin)
  <2>1. redirectBuffer' = <<>> /\ UNCHANGED <<OnConsole, count, writing, replies>>
    BY <1>4 DEF RconRequest, SetupRedirect, messageVars, OnConsole
  <2>2. QED
    BY <1>1, <2>1, NumbersNone DEF OrderInv, Writes
<1>5. ASSUME NEW t \in Threads, DispatchMessage(t) PROVE OrderInv'
  <2> DEFINE n == count + 1
             message == [by |-> t, no |-> n]
  <2>1. count' = n /\ writing[t] = Silence /\ replies' = replies /\ message \in Message
    BY <1>1, <1>5 DEF DispatchMessage, Runs, Message
  <2>2. /\ n \in Nat /\ n \notin 0 .. count /\ 0 .. count \subseteq 0 .. n
        /\ 1 .. count \subseteq 1 .. n /\ n \in 0 .. n /\ n \in 1 .. n
    BY <1>1
  <2>3. Newer(t, n, OnConsole)
    BY <1>1, NewerThanAll DEF OrderInv
  <2>4. CASE redirectBuffer' = Append(redirectBuffer, message) /\ UNCHANGED <<writing, OnConsole>>
    <3>1. Numbers(redirectBuffer') = Numbers(redirectBuffer) \cup {n}
      BY <2>1, <2>4, NumbersAppend DEF OrderInv, HeldInv
    <3>2. /\ Numbers(OnConsole) \subseteq 0 .. n /\ Numbers(redirectBuffer') \subseteq 0 .. n
          /\ \A r \in replies : Numbers(r.text) \subseteq 0 .. n
          /\ Numbers(redirectBuffer') \cap Numbers(OnConsole) = {}
      BY <1>1, <2>2, <3>1 DEF OrderInv
    <3>3. \A u \in Threads : writing[u] = Silence \/ \E k \in 1 .. n : Writes(u, k)
      BY <2>2 DEF OrderInv
    <3>4. ASSUME NEW u \in Threads, NEW k \in Nat, Writes(u, k)
          PROVE  k \notin Numbers(redirectBuffer')
      BY <1>1, <2>2, <3>1, <3>4, WritesOld DEF OrderInv
    <3>5. \A u \in Threads, k \in Nat : Writes(u, k)' <=> Writes(u, k)
      BY <2>4 DEF Writes
    <3>6. \A r \in replies : Numbers(r.text) \cap Numbers(OnConsole) = {}
      BY DEF OrderInv
    <3>7. QED
      BY <1>1, <2>1, <2>4, <3>2, <3>3, <3>4, <3>5, <3>6 DEF OrderInv
  <2>5. CASE headless /\ OnConsole' = Append(OnConsole, message) /\ UNCHANGED <<writing, redirectBuffer>>
    <3>1. Numbers(OnConsole') = Numbers(OnConsole) \cup {n}
      BY <1>1, <2>1, <2>5, NumbersAppend
    <3>2. Ordered(OnConsole')
      BY <1>1, <2>2, <2>3, <2>5, OrderedAppend DEF OrderInv
    <3>3. /\ Numbers(OnConsole') \subseteq 0 .. n /\ Numbers(redirectBuffer) \subseteq 0 .. n
          /\ \A r \in replies : Numbers(r.text) \subseteq 0 .. n
          /\ Numbers(redirectBuffer) \cap Numbers(OnConsole') = {}
          /\ \A r \in replies : Numbers(r.text) \cap Numbers(OnConsole') = {}
      <4>1. n \in 0 .. n /\ \A m \in 0 .. count : m \in 0 .. n /\ m # n
        BY <1>1, <2>2
      <4>2. /\ Numbers(OnConsole) \subseteq 0 .. count /\ Numbers(redirectBuffer) \subseteq 0 .. count
            /\ \A r \in replies : Numbers(r.text) \subseteq 0 .. count
        BY DEF OrderInv
      <4>3. /\ Numbers(redirectBuffer) \cap Numbers(OnConsole) = {}
            /\ \A r \in replies : Numbers(r.text) \cap Numbers(OnConsole) = {}
        BY DEF OrderInv
      <4>4. QED
        BY <3>1, <4>1, <4>2, <4>3, Zenon
    <3>4. \A u \in Threads : writing[u] = Silence \/ \E k \in 1 .. n : Writes(u, k)
      BY <2>2 DEF OrderInv
    <3>5. ASSUME NEW u \in Threads, NEW k \in Nat PROVE ~Writes(u, k)
      <4>1. writing[u] = Silence
        BY <2>5 DEF OrderInv, HeldInv
      <4>2. Writes(u, k) => writing[u] # Silence
        BY DEF Writes, Silence
      <4>3. QED
        BY <4>1, <4>2
    <3>6. \A u \in Threads, k \in Nat : Writes(u, k)' <=> Writes(u, k)
      BY <2>5 DEF Writes
    <3>7. QED
      BY <1>1, <2>1, <2>5, <3>2, <3>3, <3>4, <3>5, <3>6 DEF OrderInv
  <2>6. CASE writing' = [writing EXCEPT ![t] = <<message>>] /\ UNCHANGED <<OnConsole, redirectBuffer>>
    <3>1. \A u \in Threads, k \in Nat :
            Writes(u, k)' <=> IF u = t THEN k = n ELSE Writes(u, k)
      BY <2>2, <2>6 DEF OrderInv, HeldInv, Writes
    <3>2. /\ Numbers(OnConsole) \subseteq 0 .. n /\ Numbers(redirectBuffer) \subseteq 0 .. n
          /\ \A r \in replies : Numbers(r.text) \subseteq 0 .. n
      BY <2>2 DEF OrderInv
    <3>3. ASSUME NEW u \in Threads PROVE writing'[u] = Silence \/ \E k \in 1 .. n : Writes(u, k)'
      <4>1. CASE u = t
        BY <2>2, <3>1, <4>1
      <4>2. CASE u # t
        BY <2>2, <2>6, <3>1, <4>2 DEF OrderInv, HeldInv
      <4>3. QED
        BY <4>1, <4>2
    <3>4. ASSUME NEW u \in Threads, NEW v \in Threads, NEW k \in Nat, Writes(u, k)', Writes(v, k)'
          PROVE  u = v
      <4>1. \A w \in Threads : Writes(w, k) => k # n
        BY <2>2, WritesOld
      <4>2. QED
        BY <3>1, <3>4, <4>1 DEF OrderInv
    <3>5. ASSUME NEW u \in Threads, NEW k \in Nat, Writes(u, k)'
          PROVE  /\ k \notin Numbers(redirectBuffer)
                 /\ \A r \in replies : k \notin Numbers(r.text)
                 /\ Newer(u, k, OnConsole)
      BY <2>2, <2>3, <3>1, <3>5 DEF OrderInv
    <3>6. \A r \in replies : Numbers(r.text) \cap Numbers(OnConsole) = {}
      BY DEF OrderInv
    <3>7. QED
      BY <1>1, <2>1, <2>6, <3>2, <3>3, <3>4, <3>5, <3>6 DEF OrderInv
  <2>7. (UNCHANGED shown => OnConsole' = OnConsole)
        /\ (headless /\ shown' = shown \o <<message>> => OnConsole' = Append(OnConsole, message))
    BY <1>5, ConsoleDispatch DEF OrderInv
  <2>8. redirectBuffer \o <<message>> = Append(redirectBuffer, message)
    BY <2>1, AppendIsConcat DEF OrderInv, HeldInv
  <2>9. QED
    BY <1>5, <2>4, <2>5, <2>6, <2>7, <2>8 DEF DispatchMessage
<1>6. ASSUME NEW t \in Threads, Enqueue(t) PROVE OrderInv'
  <2>1. /\ writing[t] # Silence /\ writing' = [writing EXCEPT ![t] = Silence]
        /\ UNCHANGED <<count, redirectBuffer, replies>>
    BY <1>6 DEF Enqueue, rconVars
  <2>2. PICK n \in 1 .. count : Writes(t, n)
    BY <2>1 DEF OrderInv
  <2>3. n \in Nat /\ [by |-> t, no |-> n] \in Message /\ n \in 0 .. count
    BY <1>1, <2>2 DEF Message
  <2>4. OnConsole' = Append(OnConsole, [by |-> t, no |-> n])
    <3>1. OnConsole' = OnConsole \o <<[by |-> t, no |-> n]>>
      BY <1>6, <2>2, ConsoleEnqueue DEF OrderInv, Writes
    <3>2. QED
      BY <1>1, <2>3, <3>1, AppendIsConcat
  <2>5. Numbers(OnConsole') = Numbers(OnConsole) \cup {n}
    BY <1>1, <2>3, <2>4, NumbersAppend
  <2>6. Newer(t, n, OnConsole) /\ Ordered(OnConsole')
    BY <1>1, <2>2, <2>3, <2>4, OrderedAppend DEF OrderInv
  <2>7. \A u \in Threads, k \in Nat : Writes(u, k)' <=> u # t /\ Writes(u, k)
    BY <2>1 DEF OrderInv, HeldInv, Writes, Silence
  <2>8. ASSUME NEW u \in Threads, NEW k \in Nat, Writes(u, k)' PROVE Newer(u, k, OnConsole')
    <3>1. u # t /\ Writes(u, k) /\ n # k /\ Newer(u, k, OnConsole)
      BY <2>2, <2>3, <2>7, <2>8 DEF OrderInv
    <3>2. QED
      BY <1>1, <2>3, <2>4, <3>1, NewerAppend
  <2>9. \A u \in Threads : writing'[u] = Silence \/ \E k \in 1 .. count : Writes(u, k)'
    BY <1>1, <2>1, <2>7 DEF OrderInv, HeldInv
  <2>10. /\ Numbers(OnConsole') \subseteq 0 .. count
         /\ Numbers(redirectBuffer) \cap Numbers(OnConsole') = {}
         /\ \A r \in replies : Numbers(r.text) \cap Numbers(OnConsole') = {}
    BY <2>2, <2>3, <2>5 DEF OrderInv
  <2>11. QED
    BY <1>1, <2>1, <2>6, <2>7, <2>8, <2>9, <2>10 DEF OrderInv
<1>7. CASE RconError
  BY <1>2, <1>7 DEF RconError, messageVars, OnConsole
<1>8. CASE StartUp \/ PostUnpack \/ MainFrame \/ GiveUp \/ \E t \in Threads : ExitHook(t) \/ Joined(t) \/ Exit(t)
  BY <1>2, <1>8 DEF StartUp, PostUnpack, MainFrame, GiveUp, ExitHook, Leave, Joined, Exit, messageVars, rconVars, OnConsole
<1>9. CASE RunnerStarts \/ RunnerEnds \/ WindowEnds \/ WindowClosed \/ UNCHANGED lifeVars
  BY <1>2, <1>9 DEF RunnerStarts, RunnerEnds, WindowEnds, WindowClosed, lifeVars, messageVars, rconVars, OnConsole
<1>10. CASE RunnerTakes \/ RunnerPrints
  BY <1>2, <1>10, ConsoleKept DEF RunnerTakes, RunnerPrints, rconVars, OrderInv
<1>11. QED
  BY <1>3, <1>4, <1>5, <1>6, <1>7, <1>8, <1>9, <1>10 DEF LifeNext

\* Each message is on the console once, those of a thread in their order, and
\* none of an admin's (console.cpp:51-83, 141-155).
THEOREM ConsoleHasMessagesOnce == LifeSpec => []MessagesOnceInOrder
<1>1. OrderInv => MessagesOnceInOrder
  BY DEF OrderInv, MessagesOnceInOrder, Ordered
<1>2. QED
  BY <1>1, OrderInitially, OrderStep, PTL DEF LifeSpec
=============================================================================
