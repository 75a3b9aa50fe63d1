--------------------------- MODULE NatPunch_proofs ---------------------------
(***************************************************************************)
(* Machine-checked proofs about NatPunch.tla, for every set of peers and   *)
(* tokens, every private address and any number of joins: whatever         *)
(* datagrams are lost, late or doubled, a join connects at most once, and  *)
(* reaches the host of its token unless the joiner's network has the       *)
(* host's private address twice.                                           *)
(*                                                                         *)
(* The safety properties are not inductive alone. What makes them so is    *)
(* that an address is Credible wherever it stands beside a token, in a     *)
(* datagram (DatagramsNameHost) or an attempt (AttemptsOK): the peer that  *)
(* has it is the host itself, or it is the host's address, or a private    *)
(* one on a network where the host's private address is another machine's. *)
(* What is sent to a credible address is credible to whoever receives it   *)
(* (SendsAreCredible).                                                     *)
(***************************************************************************)
EXTENDS NatPunch, TLAPS

Datagrams == [kind : {"privRegister", "privJoin", "punch", "punchAck"},
              to : Peers \cup {Rendezvous}, peer : Addresses, token : Tokens]

\* An address p may know a peer of this token by.
Credible(p, address, token) ==
  /\ address \in Addresses
  /\ \/ p = Drawer[token]
     \/ address \in Candidates(Drawer[token])
     \/ address \notin Peers /\ Clash(p, Drawer[token])

NamesHost(m) ==
  /\ m.kind \in {"privRegister", "privJoin"} => m.peer \in Peers
  /\ m.kind = "privRegister" => m.peer = Drawer[m.token]
  /\ m.kind \in {"punch", "punchAck"} => m.to \in Peers /\ Credible(m.to, m.peer, m.token)

DatagramsNameHost == net \subseteq {m \in Datagrams : NamesHost(m)}

\* An attempt of p that may stand in punch[p].
AttemptOK(p, a) ==
  a.active =>
    /\ a.token \in Tokens
    /\ a.joining => Drawer[a.token] # p /\ a.fallback \in {None} \cup Candidates(Drawer[a.token])
    /\ ~a.joining => Drawer[a.token] = p
    /\ \A c \in a.candidates : Credible(p, c, a.token)

AttemptsOK == \A p \in Peers : AttemptOK(p, punch[p])

\* The connect of a join ends its attempt.
NotYetConnected ==
  \A p \in Peers : punch[p].active /\ punch[p].joining => connects[p] = <<>>

ConnectsOK == NotYetConnected /\ AtMostOneConnect /\ ConnectsToInvitedHost

NatInv == TypeOK /\ TokenNamesOpenHost /\ DatagramsNameHost /\ AttemptsOK /\ ConnectsOK

hostState == <<serverUp, hostingEnabled, hostToken, drawn>>

LEMMA NatInit == Init => NatInv
<1> SUFFICES ASSUME Init PROVE NatInv
  OBVIOUS
<1>1. Idle \in Attempts /\ Idle.active = FALSE
  BY DEF Idle, Attempts
<1>2. <<>> \in Seq([address : Addresses, token : Tokens]) /\ Len(<<>>) = 0 /\ DOMAIN <<>> = {}
  OBVIOUS
<1>3. TypeOK
  BY <1>1, <1>2, MaxJoinsAssumption DEF Init, TypeOK, HostTypes, HistoryTypes
<1>4. TokenNamesOpenHost /\ DatagramsNameHost
  BY DEF Init, TokenNamesOpenHost, DatagramsNameHost
<1>5. AttemptsOK
  BY <1>1 DEF Init, AttemptsOK, AttemptOK
<1>6. ConnectsOK
  BY <1>1, <1>2 DEF Init, ConnectsOK, NotYetConnected, AtMostOneConnect, ConnectsToInvitedHost
<1> QED BY <1>3, <1>4, <1>5, <1>6 DEF NatInv

(***************************************************************************)
(* Hosting                                                                 *)
(***************************************************************************)

\* The host side keeps its types and its tokens.
LEMMA HostStep ==
  ASSUME NatInv, NEW p \in Peers, NatHost(p) \/ UpdateHostSession(p) \/ MatchChanges(p)
  PROVE  HostTypes' /\ TokenNamesOpenHost'
<1>0. HostTypes /\ TokenNamesOpenHost
  BY DEF NatInv, TypeOK
<1>1. CASE MatchChanges(p)
  BY <1>0, <1>1 DEF MatchChanges, HostTypes, TokenNamesOpenHost
<1>2. CASE NatHost(p)
  BY <1>0, <1>2 DEF NatHost, SetHostingEnabled, HostTypes, TokenNamesOpenHost
<1>3. CASE Register(p)
  BY <1>0, <1>3 DEF Register, HostTypes, TokenNamesOpenHost
<1>4. CASE CloseSession(p)
  BY <1>0, <1>4 DEF CloseSession, SetHostingEnabled, HostTypes, TokenNamesOpenHost
<1> QED BY <1>1, <1>2, <1>3, <1>4 DEF UpdateHostSession

\* Registering sends a datagram that names its host.
LEMMA RegisterSends ==
  ASSUME NatInv, NEW p \in Peers, Register(p)
  PROVE  DatagramsNameHost'
<1>1. PICK t \in Tokens : /\ IF hostToken[p] = None THEN Drawer[t] = p ELSE hostToken[p] = t
                          /\ net' = net \cup {Msg("privRegister", Rendezvous, p, t)}
  BY DEF Register
<1>2. Drawer[t] = p
  BY <1>1, NoneAssumption DEF NatInv, TokenNamesOpenHost
<1>3. Msg("privRegister", Rendezvous, p, t) \in Datagrams
  BY DEF Msg, Datagrams, Addresses
<1>4. NamesHost(Msg("privRegister", Rendezvous, p, t))
  BY <1>2 DEF Msg, NamesHost
<1> QED BY <1>1, <1>3, <1>4 DEF NatInv, DatagramsNameHost

(***************************************************************************)
(* Punching                                                                *)
(***************************************************************************)

\* What travels between private addresses is not mistaken for public: a machine
\* with a public address of its own has nobody beside it.
LEMMA PrivateStaysPrivate ==
  ASSUME NEW p \in Peers, NEW address \in Addresses, address \notin Peers, NEW r \in Reached(p, address)
  PROVE  /\ r \in Peers /\ Private[r] = address /\ Lan[r] = Lan[p]
         /\ Source(p, address) = Private[p] /\ Private[p] \notin Peers
<1>1. r \in Peers /\ Private[r] = address /\ Lan[r] = Lan[p] /\ Source(p, address) = Private[p]
  BY DEF Reached, Source
<1>2. Private[p] \notin Peers
  BY <1>1, PrivateAssumption
<1> QED BY <1>1, <1>2

\* A public address reaches the peer it is named after.
LEMMA PublicReachesItsPeer ==
  ASSUME NEW p \in Peers, NEW h \in Peers, NEW r \in Reached(p, h)
  PROVE  r = h /\ Source(p, h) = p
BY PrivateAssumption DEF Reached, Source

\* Whoever is reached at a credible address finds the sender's address credible.
LEMMA SendsAreCredible ==
  ASSUME NEW p \in Peers, NEW address, NEW token \in Tokens, Credible(p, address, token),
         NEW kind \in {"punch", "punchAck"}
  PROVE  Send(kind, p, address, token) \subseteq {m \in Datagrams : NamesHost(m)}
<1> DEFINE h == Drawer[token]
           s == Source(p, address)
<1>0. h \in Peers /\ address \in Addresses /\ Private[h] \in Addresses
  BY DrawerAssumption DEF Credible, Addresses, PrivateAddresses
<1>1. s \in Candidates(p) /\ s \in Addresses
  BY DEF Source, Candidates, Addresses, PrivateAddresses
<1>2. ASSUME NEW r \in Reached(p, address) PROVE r \in Peers /\ Credible(r, s, token)
  <2>0. r \in Peers
    BY DEF Reached
  <2>1. CASE p = h
    BY <1>1, <2>0, <2>1 DEF Credible
  <2>2. CASE address \in Peers /\ p # h
    <3>1. address = h
      BY <1>0, <2>2, PrivateAssumption DEF Credible, Candidates
    <3>2. r = h
      BY <1>0, <3>1, PublicReachesItsPeer
    <3> QED BY <1>1, <2>0, <3>2 DEF Credible
  <2>3. CASE address \notin Peers /\ p # h
    <3>1. Private[r] = address /\ Lan[r] = Lan[p] /\ s \notin Peers
      BY <1>0, <2>3, PrivateStaysPrivate
    <3>2. r = h \/ Clash(r, h)
      <4>1. CASE address = Private[h]
        BY <2>0, <3>1, <4>1 DEF Clash
      <4>2. CASE Clash(p, h)
        BY <3>1, <4>2 DEF Clash
      <4>3. address = Private[h] \/ Clash(p, h)
        BY <1>0, <2>3 DEF Credible, Candidates
      <4> QED BY <4>1, <4>2, <4>3
    <3> QED BY <1>1, <2>0, <3>1, <3>2 DEF Credible
  <2> QED BY <2>1, <2>2, <2>3
<1> HIDE DEF h, s
<1> SUFFICES ASSUME NEW r \in Reached(p, address)
             PROVE  Msg(kind, r, s, token) \in {m \in Datagrams : NamesHost(m)}
  BY DEF Send, s
<1>3. Msg(kind, r, s, token) \in Datagrams
  BY <1>1, <1>2 DEF Msg, Datagrams
<1> QED BY <1>2, <1>3 DEF Msg, NamesHost

\* The punches of a sound attempt are credible.
LEMMA PunchesNameHost ==
  ASSUME NEW p \in Peers, NEW a \in Attempts, a.active, AttemptOK(p, a)
  PROVE  Punches(p, a) \subseteq {m \in Datagrams : NamesHost(m)}
<1>1. ASSUME NEW c \in a.candidates PROVE Send("punch", p, c, a.token) \subseteq {m \in Datagrams : NamesHost(m)}
  <2>1. a.token \in Tokens /\ Credible(p, c, a.token)
    BY DEF AttemptOK
  <2> QED BY <2>1, SendsAreCredible
<1> QED BY <1>1 DEF Punches

\* A joiner's connect to a credible address reaches the host, or a clash.
LEMMA CredibleReaches ==
  ASSUME NEW p \in Peers, NEW token \in Tokens, NEW address, Credible(p, address, token),
         p # Drawer[token], NEW q \in Reached(p, address)
  PROVE  q = Drawer[token] \/ (address \notin Peers /\ Clash(p, Drawer[token]))
<1>0. Drawer[token] \in Peers /\ address \in Addresses
  BY DrawerAssumption DEF Credible
<1>1. CASE address \in Peers
  <2>1. address = Drawer[token]
    BY <1>0, <1>1, PrivateAssumption DEF Credible, Candidates
  <2> QED BY <1>0, <2>1, PublicReachesItsPeer
<1>2. CASE address \notin Peers
  <2>1. q \in Peers /\ Private[q] = address /\ Lan[q] = Lan[p]
    BY <1>0, <1>2, PrivateStaysPrivate
  <2>2. address = Private[Drawer[token]] \/ Clash(p, Drawer[token])
    BY <1>0, <1>2 DEF Credible, Candidates
  <2> QED BY <1>2, <2>1, <2>2 DEF Clash
<1> QED BY <1>1, <1>2

\* The host's own addresses are credible to everybody.
LEMMA CandidatesAreCredible ==
  ASSUME NEW p, NEW token \in Tokens, NEW c \in Candidates(Drawer[token])
  PROVE  Credible(p, c, token)
BY DrawerAssumption DEF Credible, Candidates, Addresses, PrivateAddresses

\* When an attempt is replaced by a sound one of the same join, or by one that
\* joins nothing, attempts and connects stay sound.
LEMMA AttemptStep ==
  ASSUME NatInv, NEW p \in Peers, NEW a \in Attempts, AttemptOK(p, a),
         punch' = [punch EXCEPT ![p] = a],
         a.active /\ a.joining => punch[p].active /\ punch[p].joining,
         UNCHANGED joinHistory
  PROVE  AttemptsOK' /\ ConnectsOK' /\ HistoryTypes' /\ punch' \in [Peers -> Attempts]
<1>1. punch \in [Peers -> Attempts] /\ HistoryTypes /\ AttemptsOK
  BY DEF NatInv, TypeOK
<1>2. punch' \in [Peers -> Attempts] /\ \A q \in Peers : punch'[q] = IF q = p THEN a ELSE punch[q]
  BY <1>1
<1>3. HistoryTypes'
  BY <1>1 DEF joinHistory, HistoryTypes
<1>4. AttemptsOK'
  BY <1>1, <1>2 DEF AttemptsOK, AttemptOK
<1>5. ConnectsOK'
  <2>1. NotYetConnected'
    BY <1>2 DEF NatInv, ConnectsOK, NotYetConnected, joinHistory
  <2>2. AtMostOneConnect' /\ ConnectsToInvitedHost'
    BY DEF NatInv, ConnectsOK, AtMostOneConnect, ConnectsToInvitedHost, joinHistory
  <2> QED BY <2>1, <2>2 DEF ConnectsOK
<1> QED BY <1>2, <1>3, <1>4, <1>5

\* An attempt that joins and connects to the host of its token is over: its
\* connect is the first, and the only one.
LEMMA ConnectStep ==
  ASSUME NatInv, NEW p \in Peers, NEW how \in {"direct", "fallback"},
         punch[p].active, punch[p].joining,
         NEW address, Credible(p, address, punch[p].token),
         punch' = [punch EXCEPT ![p] = Idle],
         IssueConnect(p, address, how)
  PROVE  AttemptsOK' /\ ConnectsOK' /\ HistoryTypes' /\ punch' \in [Peers -> Attempts]
<1>1. punch \in [Peers -> Attempts] /\ HistoryTypes /\ AttemptsOK
  BY DEF NatInv, TypeOK
<1>2. Idle \in Attempts /\ ~Idle.active
  BY DEF Idle, Attempts
<1>3. punch' \in [Peers -> Attempts] /\ \A q \in Peers : punch'[q] = IF q = p THEN Idle ELSE punch[q]
  BY <1>1, <1>2
<1>4. AttemptsOK'
  BY <1>1, <1>2, <1>3 DEF AttemptsOK, AttemptOK
<1> DEFINE c == [address |-> address, token |-> punch[p].token]
<1>5. punch[p].token \in Tokens /\ address \in Addresses /\ p # Drawer[punch[p].token]
  BY <1>1 DEF AttemptsOK, AttemptOK, Credible
<1>6. /\ c \in [address : Addresses, token : Tokens]
      /\ \A q \in Reached(p, c.address) :
           q = Drawer[c.token] \/ (c.address \notin Peers /\ Clash(p, Drawer[c.token]))
  BY <1>5, CredibleReaches
<1>7. connects[p] = <<>>
  BY DEF NatInv, ConnectsOK, NotYetConnected
<1>8. /\ connects' = [connects EXCEPT ![p] = Append(@, c)]
      /\ outcome' = [outcome EXCEPT ![p] = how]
      /\ UNCHANGED joins
  BY DEF IssueConnect
<1> HIDE DEF c
<1>9. Append(<<>>, c) = <<c>>
  BY <1>6
<1>10. /\ connects \in [Peers -> Seq([address : Addresses, token : Tokens])]
       /\ connects' = [connects EXCEPT ![p] = <<c>>]
  BY <1>1, <1>7, <1>8, <1>9 DEF HistoryTypes
<1>11. \A q \in Peers : connects'[q] = IF q = p THEN <<c>> ELSE connects[q]
  BY <1>10
<1>12. HistoryTypes'
  <2>1. <<c>> \in Seq([address : Addresses, token : Tokens])
    BY <1>6
  <2>2. connects' \in [Peers -> Seq([address : Addresses, token : Tokens])]
    BY <1>10, <2>1
  <2> QED BY <1>1, <1>8, <2>2 DEF HistoryTypes
<1>13. NotYetConnected'
  BY <1>2, <1>3, <1>11 DEF NatInv, ConnectsOK, NotYetConnected
<1>14. AtMostOneConnect' /\ ConnectsToInvitedHost'
  <2>1. Len(<<c>>) = 1 /\ \A i \in DOMAIN <<c>> : <<c>>[i] = c
    OBVIOUS
  <2>2. \A q \in Peers : Len(connects'[q]) <= 1
    <3>1. \A q \in Peers : Len(connects[q]) <= 1
      BY DEF NatInv, ConnectsOK, AtMostOneConnect
    <3>2. ASSUME NEW q \in Peers PROVE Len(connects'[q]) <= 1
      <4>1. CASE q = p
        <5>1. connects'[q] = <<c>>
          BY <1>11, <4>1
        <5>2. Len(connects'[q]) = 1
          BY <2>1, <5>1, Zenon
        <5> QED BY <5>2
      <4>2. CASE q # p
        BY <1>11, <3>1, <4>2
      <4> QED BY <4>1, <4>2
    <3> QED BY <3>2
  <2>3. ASSUME NEW q \in Peers, NEW i \in DOMAIN connects'[q], NEW r \in Reached(q, connects'[q][i].address)
        PROVE  \/ r = Drawer[connects'[q][i].token]
               \/ connects'[q][i].address \notin Peers /\ Clash(q, Drawer[connects'[q][i].token])
    <3>1. CASE q = p
      BY <1>6, <1>11, <2>1, <2>3, <3>1
    <3>2. CASE q # p
      BY <1>11, <2>3, <3>2 DEF NatInv, ConnectsOK, ConnectsToInvitedHost
    <3> QED BY <3>1, <3>2
  <2> QED BY <2>2, <2>3 DEF AtMostOneConnect, ConnectsToInvitedHost
<1> QED BY <1>3, <1>4, <1>12, <1>13, <1>14 DEF ConnectsOK

\* What the host side and the network leave alone stays sound.
LEMMA HistoryStays ==
  ASSUME NatInv, UNCHANGED <<punch, joinHistory>>
  PROVE  AttemptsOK' /\ ConnectsOK' /\ HistoryTypes' /\ punch' \in [Peers -> Attempts]
<1>1. UNCHANGED <<punch, joins, outcome, connects>>
  BY DEF joinHistory
<1>2. HistoryTypes' /\ punch' \in [Peers -> Attempts]
  BY <1>1 DEF NatInv, TypeOK, HistoryTypes
<1>4. AttemptsOK'
  BY <1>1 DEF NatInv, AttemptsOK
<1>3. ConnectsOK'
  BY <1>1 DEF NatInv, ConnectsOK, NotYetConnected, AtMostOneConnect, ConnectsToInvitedHost
<1> QED BY <1>2, <1>3, <1>4

LEMMA HostStays ==
  ASSUME NatInv, UNCHANGED hostState
  PROVE  HostTypes' /\ TokenNamesOpenHost'
BY DEF NatInv, TypeOK, hostState, HostTypes, TokenNamesOpenHost

LEMMA InvParts ==
  ASSUME HostTypes', TokenNamesOpenHost', DatagramsNameHost', AttemptsOK', ConnectsOK',
         HistoryTypes', punch' \in [Peers -> Attempts]
  PROVE  NatInv'
BY DEF NatInv, TypeOK

(***************************************************************************)
(* The steps of one peer                                                   *)
(***************************************************************************)

LEMMA HostingStep ==
  ASSUME NatInv, NEW p \in Peers, NatHost(p) \/ UpdateHostSession(p) \/ MatchChanges(p)
  PROVE  NatInv'
<1>1. HostTypes' /\ TokenNamesOpenHost'
  BY HostStep
<1>2. UNCHANGED <<punch, joinHistory>>
  BY DEF NatHost, UpdateHostSession, Register, CloseSession, MatchChanges
<1>3. DatagramsNameHost'
  <2>1. CASE Register(p)
    BY <2>1, RegisterSends
  <2>2. CASE UNCHANGED net
    BY <2>2 DEF NatInv, DatagramsNameHost, NamesHost
  <2> QED BY <2>1, <2>2 DEF NatHost, UpdateHostSession, CloseSession, MatchChanges
<1> QED BY <1>1, <1>2, <1>3, HistoryStays, InvParts

\* A new join starts with a sound attempt, and no connects.
LEMMA BeginJoinStep ==
  ASSUME NatInv, NEW p \in Peers, BeginJoin(p)
  PROVE  NatInv'
<1>0. /\ punch \in [Peers -> Attempts] /\ HistoryTypes /\ HostTypes /\ AttemptsOK
      /\ NotYetConnected /\ AtMostOneConnect /\ ConnectsToInvitedHost
  BY DEF NatInv, TypeOK, ConnectsOK
<1>t. PICK t \in drawn :
        \E fallback \in {None} \cup (IF Drawer[t] \in Advertised THEN Candidates(Drawer[t]) ELSE {}) :
          /\ Drawer[t] # p
          /\ punch' = [punch EXCEPT ![p] = [Idle EXCEPT !.active = TRUE, !.joining = TRUE,
                                            !.token = t, !.fallback = fallback]]
          /\ net' = net \cup {Msg("privJoin", Rendezvous, p, t)}
  BY DEF BeginJoin
<1>1. PICK fallback \in {None} \cup (IF Drawer[t] \in Advertised THEN Candidates(Drawer[t]) ELSE {}) :
        /\ Drawer[t] # p
        /\ punch' = [punch EXCEPT ![p] = [Idle EXCEPT !.active = TRUE, !.joining = TRUE,
                                          !.token = t, !.fallback = fallback]]
        /\ net' = net \cup {Msg("privJoin", Rendezvous, p, t)}
  BY <1>t
<1> DEFINE a == [Idle EXCEPT !.active = TRUE, !.joining = TRUE, !.token = t, !.fallback = fallback]
<1>2. t \in Tokens /\ fallback \in {None} \cup Candidates(Drawer[t]) /\ fallback \in Addresses \cup {None}
  <2>1. t \in Tokens /\ Drawer[t] \in Peers /\ fallback \in {None} \cup Candidates(Drawer[t])
    BY <1>0, DrawerAssumption DEF HostTypes
  <2> QED BY <2>1 DEF Candidates, Addresses, PrivateAddresses
<1>3. a \in Attempts /\ AttemptOK(p, a)
  BY <1>1, <1>2 DEF Idle, Attempts, AttemptOK
<1> HIDE DEF a
<1>4. punch' \in [Peers -> Attempts] /\ \A q \in Peers : punch'[q] = IF q = p THEN a ELSE punch[q]
  BY <1>0, <1>1, <1>3 DEF a
<1>5. /\ joins[p] < MaxJoins[p] /\ joins' = [joins EXCEPT ![p] = @ + 1]
      /\ outcome' = [outcome EXCEPT ![p] = "pending"]
      /\ connects' = [connects EXCEPT ![p] = <<>>]
      /\ UNCHANGED hostState
  BY DEF BeginJoin, hostVars, hostState
<1>6. \A q \in Peers : connects'[q] = IF q = p THEN <<>> ELSE connects[q]
  BY <1>0, <1>5 DEF HistoryTypes
<1>7. HistoryTypes'
  <2>1. connects' \in [Peers -> Seq([address : Addresses, token : Tokens])]
    <3>1. <<>> \in Seq([address : Addresses, token : Tokens])
      OBVIOUS
    <3> QED BY <1>0, <1>5, <3>1 DEF HistoryTypes
  <2>2. joins' \in [Peers -> Nat] /\ \A q \in Peers : joins'[q] <= MaxJoins[q]
    <3>1. joins \in [Peers -> Nat] /\ joins' = [joins EXCEPT ![p] = joins[p] + 1]
      BY <1>0, <1>5 DEF HistoryTypes
    <3>2. joins' \in [Peers -> Nat]
      BY <3>1
    <3>3. ASSUME NEW q \in Peers PROVE joins'[q] <= MaxJoins[q]
      <4>1. CASE q = p
        <5>1. joins[p] \in Nat /\ MaxJoins[p] \in Nat /\ joins'[q] = joins[p] + 1
          BY <3>1, <4>1, MaxJoinsAssumption
        <5> QED BY <1>5, <4>1, <5>1
      <4>2. CASE q # p
        BY <1>0, <3>1, <4>2 DEF HistoryTypes
      <4> QED BY <4>1, <4>2
    <3> QED BY <3>2, <3>3
  <2> QED BY <1>0, <1>5, <2>1, <2>2 DEF HistoryTypes
<1>8. AttemptsOK'
  BY <1>0, <1>3, <1>4 DEF AttemptsOK, AttemptOK
<1>9. ConnectsOK'
  <2>1. Len(<<>>) = 0 /\ DOMAIN <<>> = {}
    OBVIOUS
  <2>2. NotYetConnected'
    BY <1>0, <1>4, <1>6 DEF NotYetConnected
  <2>3. AtMostOneConnect'
    BY <1>0, <1>6, <2>1 DEF AtMostOneConnect
  <2>4. ConnectsToInvitedHost'
    BY <1>0, <1>6, <2>1 DEF ConnectsToInvitedHost
  <2> QED BY <2>2, <2>3, <2>4 DEF ConnectsOK
<1>10. DatagramsNameHost'
  <2>1. Msg("privJoin", Rendezvous, p, t) \in Datagrams
    BY <1>2 DEF Msg, Datagrams, Addresses
  <2>2. NamesHost(Msg("privJoin", Rendezvous, p, t))
    BY DEF Msg, NamesHost
  <2> QED BY <1>1, <2>1, <2>2 DEF NatInv, DatagramsNameHost
<1> QED BY <1>4, <1>5, <1>7, <1>8, <1>9, <1>10, HostStays, InvParts

\* The attempt waits, punches again, or ends at its deadline.
LEMMA FrameStep ==
  ASSUME NatInv, NEW p \in Peers, Expire(p) \/ PunchFrame(p)
  PROVE  NatInv'
<1>0. punch \in [Peers -> Attempts] /\ AttemptOK(p, punch[p]) /\ HistoryTypes
  BY DEF NatInv, TypeOK, AttemptsOK
<1>1. UNCHANGED hostState
  BY DEF Expire, PunchFrame, PunchRound, GiveUp, hostVars, hostState
<1>2. CASE Expire(p)
  <2> DEFINE a == [punch[p] EXCEPT !.expired = TRUE]
  <2>1. a \in Attempts /\ AttemptOK(p, a) /\ a.active = punch[p].active /\ a.joining = punch[p].joining
    BY <1>0 DEF Attempts, AttemptOK
  <2>2. punch' = [punch EXCEPT ![p] = a] /\ UNCHANGED <<net, joinHistory>>
    BY <1>2, <1>0 DEF Expire
  <2> HIDE DEF a
  <2>3. DatagramsNameHost'
    BY <2>2 DEF NatInv, DatagramsNameHost, NamesHost
  <2> QED BY <1>1, <2>1, <2>2, <2>3, AttemptStep, HostStays, InvParts
<1>3. CASE PunchRound(p)
  <2>1. /\ punch[p].active /\ net' = net \cup Punches(p, punch[p])
        /\ UNCHANGED <<punch, joinHistory>>
    BY <1>3 DEF PunchRound
  <2>2. Punches(p, punch[p]) \subseteq {m \in Datagrams : NamesHost(m)}
    BY <1>0, <2>1, PunchesNameHost
  <2>3. DatagramsNameHost'
    BY <2>1, <2>2 DEF NatInv, DatagramsNameHost
  <2> QED BY <1>1, <2>1, <2>3, HistoryStays, HostStays, InvParts
<1>4. CASE GiveUp(p)
  <2>1. /\ punch[p].active /\ punch' = [punch EXCEPT ![p] = Idle] /\ UNCHANGED net
        /\ IF ~punch[p].joining THEN UNCHANGED joinHistory
           ELSE IF punch[p].fallback # None THEN IssueConnect(p, punch[p].fallback, "fallback")
           ELSE outcome' = [outcome EXCEPT ![p] = "error"] /\ UNCHANGED <<joins, connects>>
    BY <1>4 DEF GiveUp
  <2>2. Idle \in Attempts /\ AttemptOK(p, Idle) /\ ~Idle.active
    BY DEF Idle, Attempts, AttemptOK
  <2>3. DatagramsNameHost'
    BY <2>1 DEF NatInv, DatagramsNameHost, NamesHost
  <2>4. CASE ~punch[p].joining
    BY <1>1, <2>1, <2>2, <2>3, <2>4, AttemptStep, HostStays, InvParts
  <2>5. CASE punch[p].joining /\ punch[p].fallback # None
    <3>1. Credible(p, punch[p].fallback, punch[p].token)
      BY <1>0, <2>1, <2>5, CandidatesAreCredible DEF AttemptOK
    <3> QED BY <1>1, <2>1, <2>3, <2>5, <3>1, ConnectStep, HostStays, InvParts
  <2>6. CASE punch[p].joining /\ punch[p].fallback = None
    <3>1. outcome' = [outcome EXCEPT ![p] = "error"] /\ UNCHANGED <<joins, connects>>
      BY <2>1, <2>6
    <3>2. punch' \in [Peers -> Attempts] /\ \A q \in Peers : punch'[q] = IF q = p THEN Idle ELSE punch[q]
      BY <1>0, <2>1, <2>2
    <3>3. HistoryTypes'
      BY <1>0, <3>1 DEF HistoryTypes
    <3>4. AttemptsOK'
      BY <2>2, <3>2 DEF NatInv, AttemptsOK, AttemptOK
    <3>5. ConnectsOK'
      BY <2>2, <3>1, <3>2 DEF NatInv, ConnectsOK, NotYetConnected, AtMostOneConnect, ConnectsToInvitedHost
    <3> QED BY <1>1, <2>3, <3>2, <3>3, <3>4, <3>5, HostStays, InvParts
  <2> QED BY <2>4, <2>5, <2>6
<1> QED BY <1>2, <1>3, <1>4 DEF PunchFrame

(***************************************************************************)
(* Datagrams                                                               *)
(***************************************************************************)

\* An introduction names the host too, for it follows from the host's own
\* registration.
LEMMA IntroductionsNameHost ==
  ASSUME DatagramsNameHost, NEW m \in Introductions
  PROVE  /\ m.kind = "privPeer" /\ m.to \in Peers /\ m.peer \in Peers /\ m.token \in Tokens
         /\ Drawer[m.token] \in {m.to, m.peer}
<1>1. PICK j \in net, r \in net :
        /\ j.kind = "privJoin" /\ r.kind = "privRegister" /\ r.token = j.token
        /\ m \in {Msg("privPeer", j.peer, r.peer, j.token), Msg("privPeer", r.peer, j.peer, j.token)}
  BY DEF Introductions, Asking
<1>2. j.peer \in Peers /\ r.peer \in Peers /\ j.token \in Tokens /\ r.peer = Drawer[j.token]
  BY <1>1 DEF DatagramsNameHost, Datagrams, NamesHost
<1> QED BY <1>1, <1>2 DEF Msg

LEMMA RejectionsReachPeers ==
  ASSUME DatagramsNameHost, NEW m \in Rejections
  PROVE  m.kind = "privReject" /\ m.to \in Peers
BY DEF Rejections, Asking, DatagramsNameHost, NamesHost, Msg

LEMMA ReceiveStep ==
  ASSUME NatInv, NEW m \in net \cup Introductions \cup Rejections, Receive(m)
  PROVE  NatInv'
<1> DEFINE p == m.to
<1>0. /\ DatagramsNameHost /\ punch \in [Peers -> Attempts] /\ AttemptsOK /\ TokenNamesOpenHost
      /\ net \subseteq {d \in Datagrams : NamesHost(d)}
  BY DEF NatInv, TypeOK, DatagramsNameHost
<1>1. UNCHANGED hostState
  BY DEF Receive, PeerToJoiner, PeerToHost, Reject, Punched, PunchAcked, hostVars, hostState
<1>2. m.kind = "privPeer" => m \in Introductions
  BY <1>0, RejectionsReachPeers DEF Datagrams
<1>3. m.kind = "privReject" => m \in Rejections
  BY <1>0, IntroductionsNameHost DEF Datagrams
<1>4. m.kind \in {"punch", "punchAck"} =>
        m \in net /\ m.to \in Peers /\ m.token \in Tokens /\ Credible(m.to, m.peer, m.token)
  BY <1>0, IntroductionsNameHost, RejectionsReachPeers DEF Datagrams, NamesHost
<1>5. CASE PeerToJoiner(m)
  <2> DEFINE a == [punch[p] EXCEPT !.candidates = @ \cup Candidates(m.peer)]
  <2>1. /\ punch[p].active /\ punch[p].joining /\ punch[p].token = m.token
        /\ punch' = [punch EXCEPT ![p] = a] /\ net' = net \cup Punches(p, a)
        /\ UNCHANGED joinHistory /\ m.kind = "privPeer"
    BY <1>5 DEF PeerToJoiner
  <2>2. p \in Peers /\ m.peer \in Peers /\ Drawer[m.token] \in {p, m.peer}
    BY <1>0, <1>2, <2>1, IntroductionsNameHost
  <2>3. AttemptOK(p, punch[p]) /\ punch[p] \in Attempts
    BY <1>0, <2>2 DEF AttemptsOK
  <2>4. m.peer = Drawer[punch[p].token]
    BY <2>1, <2>2, <2>3 DEF AttemptOK
  <2>5. a \in Attempts /\ AttemptOK(p, a) /\ a.active
    <3>1. punch[p].token \in Tokens
      BY <2>1, <2>3 DEF AttemptOK
    <3>2. \A c \in Candidates(m.peer) : Credible(p, c, punch[p].token) /\ c \in Addresses
      BY <2>4, <3>1, CandidatesAreCredible DEF Credible
    <3>3. a \in Attempts
      BY <2>3, <3>2 DEF Attempts
    <3> QED BY <2>1, <2>3, <3>2, <3>3 DEF Attempts, AttemptOK
  <2> HIDE DEF a
  <2>6. DatagramsNameHost'
    BY <1>0, <2>1, <2>2, <2>5, PunchesNameHost DEF DatagramsNameHost
  <2> QED BY <1>1, <2>1, <2>2, <2>5, <2>6, AttemptStep, HostStays, InvParts
<1>6. CASE PeerToHost(m)
  <2> DEFINE a == [Idle EXCEPT !.active = TRUE, !.token = m.token, !.candidates = Candidates(m.peer)]
  <2>1. /\ hostToken[p] = m.token
        /\ punch' = [punch EXCEPT ![p] = a] /\ net' = net \cup Punches(p, a)
        /\ UNCHANGED joinHistory /\ m.kind = "privPeer"
    BY <1>6 DEF PeerToHost
  <2>2. p \in Peers /\ m.peer \in Peers /\ m.token \in Tokens
    BY <1>0, <1>2, <2>1, IntroductionsNameHost
  <2>3. Drawer[m.token] = p
    BY <1>0, <2>1, <2>2, NoneAssumption DEF TokenNamesOpenHost
  <2>4. a \in Attempts /\ AttemptOK(p, a) /\ a.active /\ ~a.joining
    <3>1. \A c \in Candidates(m.peer) : Credible(p, c, m.token) /\ c \in Addresses
      BY <2>2, <2>3 DEF Credible, Candidates, Addresses, PrivateAddresses
    <3> QED BY <2>2, <2>3, <3>1 DEF Idle, Attempts, AttemptOK
  <2> HIDE DEF a
  <2>5. DatagramsNameHost'
    BY <1>0, <2>1, <2>2, <2>4, PunchesNameHost DEF DatagramsNameHost
  <2> QED BY <1>1, <2>1, <2>2, <2>4, <2>5, AttemptStep, HostStays, InvParts
<1>7. CASE Reject(m)
  <2> DEFINE a == [punch[p] EXCEPT !.expired = TRUE]
  <2>1. p \in Peers
    BY <1>0, <1>3, <1>7, RejectionsReachPeers DEF Reject
  <2>2. punch' = [punch EXCEPT ![p] = a] /\ UNCHANGED <<net, joinHistory>>
    BY <1>0, <1>7, <2>1 DEF Reject
  <2>3. a \in Attempts /\ AttemptOK(p, a) /\ a.active = punch[p].active /\ a.joining = punch[p].joining
    <3>1. punch[p] \in Attempts /\ AttemptOK(p, punch[p])
      BY <1>0, <2>1 DEF AttemptsOK
    <3> QED BY <3>1 DEF Attempts, AttemptOK
  <2> HIDE DEF a
  <2>4. DatagramsNameHost'
    BY <1>0, <2>2 DEF DatagramsNameHost
  <2> QED BY <1>1, <2>1, <2>2, <2>3, <2>4, AttemptStep, HostStays, InvParts
<1>8. CASE Punched(m)
  <2> DEFINE a == [punch[p] EXCEPT !.candidates = @ \cup {m.peer}]
             acks == Send("punchAck", p, m.peer, m.token)
  <2>1. p \in Peers /\ m.token \in Tokens /\ Credible(p, m.peer, m.token)
    BY <1>4, <1>8 DEF Punched
  <2>2. /\ net' = net \cup acks /\ UNCHANGED joinHistory
        /\ punch' = IF punch[p].active /\ punch[p].token = m.token
                    THEN [punch EXCEPT ![p] = a] ELSE punch
    BY <1>0, <1>8, <2>1 DEF Punched
  <2>3. acks \subseteq {d \in Datagrams : NamesHost(d)}
    BY <2>1, SendsAreCredible
  <2> HIDE DEF acks
  <2>4. DatagramsNameHost'
    BY <1>0, <2>2, <2>3 DEF DatagramsNameHost
  <2>5. CASE punch[p].active /\ punch[p].token = m.token
    <3>1. AttemptOK(p, punch[p]) /\ punch[p] \in Attempts
      BY <1>0, <2>1 DEF AttemptsOK
    <3>2. m.peer \in Addresses
      BY <2>1 DEF Credible
    <3>3. a \in Attempts /\ AttemptOK(p, a) /\ a.joining = punch[p].joining
      BY <2>1, <2>5, <3>1, <3>2 DEF Attempts, AttemptOK
    <3> HIDE DEF a
    <3> QED BY <1>1, <2>1, <2>2, <2>4, <2>5, <3>3, AttemptStep, HostStays, InvParts
  <2>6. CASE ~(punch[p].active /\ punch[p].token = m.token)
    BY <1>1, <2>2, <2>4, <2>6, HistoryStays, HostStays, InvParts
  <2> QED BY <2>5, <2>6
<1>9. CASE PunchAcked(m)
  <2>1. /\ punch[p].active /\ punch[p].token = m.token /\ punch' = [punch EXCEPT ![p] = Idle]
        /\ IF punch[p].joining THEN IssueConnect(p, m.peer, "direct") ELSE UNCHANGED joinHistory
        /\ UNCHANGED net /\ m.kind = "punchAck"
    BY <1>9 DEF PunchAcked
  <2>2. p \in Peers /\ Credible(p, m.peer, m.token)
    BY <1>4, <2>1
  <2>3. DatagramsNameHost'
    BY <1>0, <2>1 DEF DatagramsNameHost
  <2>4. CASE punch[p].joining
    <3>1. Credible(p, m.peer, punch[p].token)
      BY <2>1, <2>2
    <3> QED BY <1>1, <2>1, <2>2, <2>3, <2>4, <3>1, ConnectStep, HostStays, InvParts
  <2>5. CASE ~punch[p].joining
    <3>1. Idle \in Attempts /\ AttemptOK(p, Idle) /\ ~Idle.active
      BY DEF Idle, Attempts, AttemptOK
    <3> QED BY <1>1, <2>1, <2>2, <2>3, <2>5, <3>1, AttemptStep, HostStays, InvParts
  <2> QED BY <2>4, <2>5
<1> QED BY <1>5, <1>6, <1>7, <1>8, <1>9 DEF Receive

(***************************************************************************)
(* Theorems                                                                *)
(***************************************************************************)

LEMMA NatStep == NatInv /\ [Next]_vars => NatInv'
<1> SUFFICES ASSUME NatInv, [Next]_vars PROVE NatInv'
  OBVIOUS
<1>1. ASSUME NEW p \in Peers, MatchChanges(p) \/ NatHost(p) \/ UpdateHostSession(p) PROVE NatInv'
  BY <1>1, HostingStep
<1>2. ASSUME NEW p \in Peers, BeginJoin(p) PROVE NatInv'
  BY <1>2, BeginJoinStep
<1>3. ASSUME NEW p \in Peers, Expire(p) \/ PunchFrame(p) PROVE NatInv'
  BY <1>3, FrameStep
<1>4. ASSUME NEW m \in net \cup Introductions \cup Rejections, Receive(m) PROVE NatInv'
  BY <1>4, ReceiveStep
<1>5. CASE UNCHANGED vars
  <2>1. UNCHANGED <<hostState, punch, net, joinHistory>>
    BY <1>5 DEF vars, hostVars, hostState
  <2>2. DatagramsNameHost'
    BY <2>1 DEF NatInv, DatagramsNameHost
  <2> QED BY <2>1, <2>2, HistoryStays, HostStays, InvParts
<1> QED BY <1>1, <1>2, <1>3, <1>4, <1>5 DEF Next

LEMMA NatInvariant == Spec => []NatInv
BY NatInit, NatStep, PTL DEF Spec

\* The session, attempt and history of every peer keep their types.
THEOREM NatTypeCorrect == Spec => []TypeOK
BY NatInvariant, PTL DEF NatInv

\* A token belongs to the peer that opened its match with it.
THEOREM TokensNameOpenHosts == Spec => []TokenNamesOpenHost
BY NatInvariant, PTL DEF NatInv

\* However late an acknowledgement is, a join connects once at most ...
THEOREM JoinConnectsOnce == Spec => []AtMostOneConnect
BY NatInvariant, PTL DEF NatInv, ConnectsOK

\* ... and reaches nobody but the host of the token it was begun with, unless a
\* machine of the joiner's network has the host's private address.
THEOREM JoinConnectsToHost == Spec => []ConnectsToInvitedHost
BY NatInvariant, PTL DEF NatInv, ConnectsOK
=============================================================================
