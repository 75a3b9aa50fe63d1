-------------------------- MODULE LauncherIpc_proofs --------------------------
(***************************************************************************)
(* The card, the invites and the pipe to the launcher, for any number of   *)
(* invites, presences and connections.                                     *)
(***************************************************************************)
EXTENDS LauncherIpc, TLAPS

----------------------------------------------------------------------------
(* discord.cpp under whatever calls another thread makes *)

\* What the ownership of the card is decided from: presence is silent as long
\* as the launcher's ownership is in effect, and a claim that a tick has seen
\* is still on the wire and in effect.
CardInv ==
  /\ {wireOwns, owns, silent, card, claimSeen} \subseteq BOOLEAN
  /\ release \in {"none", "pending", "due"}
  /\ silent <=> owns
  /\ silent => ~card
  /\ claimSeen => wireOwns /\ owns

LEMMA CardInitially == DiscordInit => CardInv
BY DEF DiscordInit, CardInv

LEMMA CardStep == CardInv /\ [DiscordNext \/ Calls]_discordVars => CardInv'
<1> SUFFICES ASSUME CardInv, [DiscordNext \/ Calls]_discordVars PROVE CardInv'
  OBVIOUS
<1> USE DEF CardInv
<1>1. CASE OwnershipTick
  <2>1. CASE Claim
    BY <1>1, <2>1 DEF OwnershipTick, Claim
  <2>2. CASE Release
    BY <1>1, <2>2 DEF OwnershipTick, Release
  <2>3. QED
    BY <1>1, <2>1, <2>2 DEF OwnershipTick
<1>2. CASE GraceEnds
  BY <1>2 DEF GraceEnds
<1>3. CASE UpdateDiscord
  BY <1>3 DEF UpdateDiscord
<1>4. CASE Ready
  BY <1>4 DEF Ready
<1>5. CASE NativeJoin \/ ProcessPendingRoute \/ GameInitialized \/ SyncChanges
  BY <1>5 DEF NativeJoin, ProcessPendingRoute, GameInitialized, SyncChanges, ownershipVars
<1>6. CASE Calls
  BY <1>6 DEF Calls, SetLauncherPresenceOwner, QueueJoin, ownershipVars
<1>7. CASE UNCHANGED discordVars
  BY <1>7 DEF discordVars, ownershipVars
<1>8. QED
  BY <1>1, <1>2, <1>3, <1>4, <1>5, <1>6, <1>7 DEF DiscordNext

\* However claims, releases, ticks, updates and reconnections interleave, from
\* the first tick after the launcher's claim until it is withdrawn the native
\* card is off (discord.cpp:243-280, 556).
THEOREM OneCard == DiscordSpec => []NoSecondCard
<1>1. CardInv => NoSecondCard
  BY DEF CardInv, NoSecondCard
<1>2. QED
  BY <1>1, CardInitially, CardStep, PTL DEF DiscordSpec

\* The invite in the slot is newer than all that were joined.
InvitesInv ==
  /\ arrived \in Nat /\ pendingRoute \in 0 .. arrived
  /\ joined \in Seq([source : {"native", "launcher"}, invite : Nat])
  /\ \A i \in DOMAIN joined :
       /\ joined[i].invite \in 0 .. arrived
       /\ joined[i].source = "launcher" /\ pendingRoute # 0 => joined[i].invite < pendingRoute
  /\ InvitesInOrder

LEMMA InvitesInitially == DiscordInit => InvitesInv
BY DEF DiscordInit, InvitesInv, InvitesInOrder

\* The two routes append a join; the launcher's takes what is in the slot.
LEMMA RouteKeepsInvites ==
  ASSUME InvitesInv, NEW source \in {"native", "launcher"}, NEW invite \in Nat,
         joined' = Append(joined, [source |-> source, invite |-> invite]),
         arrived' \in Nat, arrived <= arrived', invite <= arrived', pendingRoute' \in {0, pendingRoute},
         source = "launcher" => invite = pendingRoute /\ pendingRoute # 0 /\ pendingRoute' = 0
  PROVE  InvitesInv'
<1> DEFINE Joined == [source : {"native", "launcher"}, invite : Nat]
           entry == [source |-> source, invite |-> invite]
<1>1. /\ entry \in Joined /\ entry.source = source /\ entry.invite = invite
      /\ joined \in Seq(Joined) /\ arrived \in Nat /\ pendingRoute \in 0 .. arrived
  BY DEF InvitesInv
<1> HIDE DEF entry, Joined
<1>2. joined' = Append(joined, entry)
  BY DEF entry
<1>3. /\ joined' \in Seq(Joined) /\ DOMAIN joined' = 1 .. Len(joined) + 1 /\ joined'[Len(joined) + 1] = entry
      /\ \A i \in 1 .. Len(joined) : joined'[i] = joined[i]
  BY <1>1, <1>2
<1>4. \A i \in 1 .. Len(joined) :
        /\ joined[i].invite \in 0 .. arrived
        /\ joined[i].source = "launcher" /\ pendingRoute # 0 => joined[i].invite < pendingRoute
  BY <1>1 DEF InvitesInv
<1>5. ASSUME NEW i \in DOMAIN joined'
      PROVE  /\ joined'[i].invite \in 0 .. arrived'
             /\ joined'[i].source = "launcher" /\ pendingRoute' # 0 => joined'[i].invite < pendingRoute'
  <2>1. CASE i \in 1 .. Len(joined)
    BY <1>1, <1>3, <1>4, <2>1
  <2>2. CASE i = Len(joined) + 1
    BY <1>1, <1>3, <2>2
  <2>3. QED
    BY <1>1, <1>3, <2>1, <2>2
<1>6. ASSUME NEW i \in DOMAIN joined', NEW j \in DOMAIN joined', i < j,
             joined'[i].source = "launcher", joined'[j].source = "launcher"
      PROVE  joined'[i].invite < joined'[j].invite
  <2>1. i \in 1 .. Len(joined)
    BY <1>1, <1>3, <1>6
  <2>2. CASE j \in 1 .. Len(joined)
    BY <1>1, <1>3, <1>6, <2>1, <2>2 DEF InvitesInv, InvitesInOrder
  <2>3. CASE j = Len(joined) + 1
    BY <1>1, <1>3, <1>4, <1>6, <2>1, <2>3
  <2>4. QED
    BY <1>1, <1>3, <2>2, <2>3
<1>7. pendingRoute' \in 0 .. arrived'
  BY <1>1
<1>8. InvitesInOrder'
  BY <1>6 DEF InvitesInOrder
<1>9. QED
  BY <1>3, <1>5, <1>7, <1>8 DEF InvitesInv, Join

LEMMA InvitesStep == InvitesInv /\ [DiscordNext \/ Calls]_discordVars => InvitesInv'
<1> SUFFICES ASSUME InvitesInv, [DiscordNext \/ Calls]_discordVars PROVE InvitesInv'
  OBVIOUS
<1>0. arrived \in Nat /\ pendingRoute \in 0 .. arrived
  BY DEF InvitesInv
<1>1. CASE NativeJoin
  <2>1. arrived' = arrived + 1 /\ pendingRoute' = pendingRoute
    BY <1>1 DEF NativeJoin
  <2>2. CASE joined' = joined
    BY <2>1, <2>2 DEF InvitesInv, InvitesInOrder
  <2>3. CASE joined' = Append(joined, [source |-> "native", invite |-> arrived + 1])
    BY <1>0, <2>1, <2>3, RouteKeepsInvites
  <2>4. QED
    BY <1>1, <2>2, <2>3 DEF NativeJoin, RouteJoin
<1>2. CASE ProcessPendingRoute
  <2>1. /\ joined' = Append(joined, [source |-> "launcher", invite |-> pendingRoute])
        /\ pendingRoute # 0 /\ pendingRoute' = 0 /\ arrived' = arrived
    BY <1>2 DEF ProcessPendingRoute, RouteJoin, inviteVars
  <2>2. QED
    BY <1>0, <2>1, RouteKeepsInvites
<1> USE DEF InvitesInv, InvitesInOrder
<1>3. CASE OwnershipTick \/ GraceEnds \/ UpdateDiscord \/ Ready \/ GameInitialized \/ SyncChanges
  BY <1>3 DEF OwnershipTick, GraceEnds, UpdateDiscord, Ready, GameInitialized, SyncChanges, inviteVars
<1>4. CASE Calls
  BY <1>4 DEF Calls, SetLauncherPresenceOwner, QueueJoin, inviteVars, ownershipVars, gameVars
<1>5. CASE UNCHANGED discordVars
  BY <1>5 DEF discordVars, inviteVars
<1>6. QED
  BY <1>1, <1>2, <1>3, <1>4, <1>5 DEF DiscordNext

\* The launcher's invites are joined at most once and never after a newer one
\* (discord.cpp:194-221, 483-487).
THEOREM LauncherInvitesInOrder == DiscordSpec => []InvitesInOrder
<1>1. InvitesInv => InvitesInOrder
  BY DEF InvitesInv
<1>2. QED
  BY <1>1, InvitesInitially, InvitesStep, PTL DEF DiscordSpec

----------------------------------------------------------------------------
(* The pipe *)

\* The launcher owns the card only while the thread serves its pipe: every way
\* out of the loop disowns it (ipc.cpp:319-332).
THEOREM OwnerHasPipe == Spec => []NoOwnerWithoutPipe
<1>1. Init => NoOwnerWithoutPipe
  BY DEF Init, DiscordInit, NoOwnerWithoutPipe
<1>2. NoOwnerWithoutPipe /\ [Next]_vars => NoOwnerWithoutPipe'
  <2> SUFFICES ASSUME NoOwnerWithoutPipe, [Next]_vars PROVE NoOwnerWithoutPipe'
    OBVIOUS
  <2> USE DEF NoOwnerWithoutPipe, discordVars, ownershipVars
  <2>1. CASE PostLoad \/ PresenceChanges \/ SendPresence \/ PreDestroy \/ Join
    BY <2>1 DEF PostLoad, PresenceChanges, SendPresence, TakeForceResend, Compose, Enqueue,
                PreDestroy, Join, threadVars
  <2>2. CASE GiveUpConnecting \/ Connect \/ Hello \/ Swap \/ Write \/ Written \/ Peek \/ ReadDone \/ Clear
    BY <2>2 DEF GiveUpConnecting, Connect, Hello, Swap, Write, Written, Peek, ReadDone, Clear
  <2>3. CASE HandleIncomingLine
    BY <2>3 DEF HandleIncomingLine, threadVars
  <2>4. CASE Disown
    BY <2>4 DEF Disown, SetLauncherPresenceOwner
  <2>5. CASE DiscordNext /\ UNCHANGED <<threadVars, lineVars>>
    BY <2>5 DEF DiscordNext, threadVars, OwnershipTick, GraceEnds, UpdateDiscord, Ready,
                NativeJoin, ProcessPendingRoute, GameInitialized, SyncChanges
  <2>6. CASE UNCHANGED vars
    BY <2>6 DEF vars, threadVars
  <2>7. QED
    BY <2>1, <2>2, <2>3, <2>4, <2>5, <2>6 DEF Next, IpcNext, ThreadStep
<1>3. QED
  BY <1>1, <1>2, PTL DEF Spec

\* The thread holds lines only while it writes them, acknowledgements are of
\* this connection, and none is left when the next one is looked for.
Ack(line) == line.type = "connect-ack"
LinesInv ==
  /\ queue \in Seq([type : {"presence", "connect-ack"}, value : Presences \cup {NoPresence}, connection : Nat])
  /\ pending \in Seq([type : {"presence", "connect-ack"}, value : Presences \cup {NoPresence}, connection : Nat])
  /\ presence \in Presences /\ lastSent \in Presences \cup {NoPresence} /\ connection \in Nat
  /\ pc # "write" => pending = <<>>
  /\ \A i \in DOMAIN queue : Ack(queue[i]) =>
       queue[i].connection = connection /\ pc \notin {"none", "connect", "exited"}
  /\ \A i \in DOMAIN pending : Ack(pending[i]) => pending[i].connection = connection

LEMMA LinesInitially == Init => LinesInv
BY DEF Init, LinesInv

LEMMA LinesStep == LinesInv /\ [Next]_vars => LinesInv'
<1> SUFFICES ASSUME LinesInv, [Next]_vars PROVE LinesInv'
  OBVIOUS
<1> USE DEF LinesInv, Ack, tickVars
<1>1. CASE PostLoad \/ PreDestroy \/ Join
  BY <1>1 DEF PostLoad, PreDestroy, Join, lineVars
<1>2. CASE PresenceChanges
  BY <1>2 DEF PresenceChanges, threadVars
<1>3. CASE SendPresence
  <2>1. CASE TakeForceResend
    BY <2>1 DEF TakeForceResend, threadVars
  <2>2. CASE Compose
    BY <2>2 DEF Compose, threadVars
  <2>3. CASE Enqueue
    BY <2>3 DEF Enqueue, PresenceLine, threadVars
  <2>4. QED
    BY <1>3, <2>1, <2>2, <2>3 DEF SendPresence
<1>4. CASE GiveUpConnecting
  BY <1>4 DEF GiveUpConnecting, lineVars
<1>5. CASE Connect
  BY <1>5 DEF Connect
<1>6. CASE Hello
  BY <1>6 DEF Hello
<1>7. CASE Swap
  BY <1>7 DEF Swap
<1>8. CASE Write
  <2>1. pending # <<>> /\ pc = "write" /\ UNCHANGED <<queue, presence, lastSent, connection>>
    BY <1>8 DEF Write
  <2>2. CASE pending' = Tail(pending) /\ pc' = pc
    <3>1. \A i \in DOMAIN pending' : i + 1 \in DOMAIN pending /\ pending'[i] = pending[i + 1]
      BY <2>1, <2>2
    <3>2. QED
      BY <2>1, <2>2, <3>1
  <2>3. CASE pending' = <<>> /\ pc' = "peek"
    BY <2>1, <2>3
  <2>4. QED
    BY <1>8, <2>2, <2>3 DEF Write
<1>9. CASE Written
  BY <1>9 DEF Written, lineVars
<1>10. CASE Peek
  BY <1>10 DEF Peek, lineVars
<1>11. CASE HandleIncomingLine
  <2>1. CASE OwnerMessage
    BY <1>11, <2>1 DEF HandleIncomingLine, OwnerMessage, threadVars
  <2>2. CASE ConnectMessage
    BY <1>11, <2>2 DEF HandleIncomingLine, ConnectMessage, AckLine, threadVars
  <2>3. QED
    BY <1>11, <2>1, <2>2 DEF HandleIncomingLine
<1>12. CASE ReadDone
  BY <1>12 DEF ReadDone, lineVars
<1>13. CASE Disown
  BY <1>13 DEF Disown, lineVars
<1>14. CASE Clear
  BY <1>14 DEF Clear
<1>15. CASE UNCHANGED <<threadVars, lineVars>>
  BY <1>15 DEF threadVars, lineVars
<1>16. QED
  BY <1>1, <1>2, <1>3, <1>4, <1>5, <1>6, <1>7, <1>8, <1>9, <1>10, <1>11, <1>12, <1>13, <1>14, <1>15
     DEF Next, IpcNext, ThreadStep, vars

\* The acknowledgement of an invite is only ever written to the launcher that
\* sent it, though two threads share the queue (ipc.cpp:262-333).
THEOREM AcksReachTheirLauncher == Spec => []AcksStayInConnection
<1>1. LinesInv => AcksStayInConnection
  <2> SUFFICES ASSUME LinesInv, NEW line \in ToSet(queue) \cup ToSet(pending), line.type = "connect-ack"
               PROVE  line.connection = connection /\ pc # "connect"
    BY DEF AcksStayInConnection
  <2>1. CASE line \in ToSet(queue)
    BY <2>1 DEF LinesInv, Ack, ToSet
  <2>2. CASE line \in ToSet(pending)
    BY <2>2 DEF LinesInv, Ack, ToSet
  <2>3. QED
    BY <2>1, <2>2
<1>2. QED
  BY <1>1, LinesInitially, LinesStep, PTL DEF Spec
=============================================================================
