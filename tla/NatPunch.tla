------------------------------ MODULE NatPunch ------------------------------
(***************************************************************************)
(* src/client/component/nat.cpp: every client may open its private match   *)
(* to friends (nat_host) and may join a friend's match by hole punching.   *)
(* All handlers, loops and commands run on the main thread of their peer,  *)
(* so each is one action. Peers and the rendezvous talk over UDP: a sent   *)
(* datagram stays in net and may be received later, twice or never. A peer *)
(* has two addresses, and both are its candidates: its public one, named   *)
(* after the peer, which reaches it from anywhere, and its private one, of *)
(* its LAN or VPN, which reaches whoever has it on the sender's own        *)
(* network. The rendezvous server is not in the repository; it is modelled *)
(* from the messages nat.cpp exchanges with it. Two variables of the code  *)
(* need no counterpart: connected is set only where active is cleared, and *)
(* observed_public_endpoint feeds only the fallback a join secret carries, *)
(* which BeginJoin leaves open. An ended attempt is not read again, so it  *)
(* is Idle.                                                                *)
(***************************************************************************)
EXTENDS Integers, Sequences

CONSTANTS
  Peers,       \* the clients, also their public addresses
  Private,     \* the private address of each
  Lan,         \* the network its private address is of
  Tokens,      \* the session tokens that may be generated
  Drawer,      \* the peer a token may be generated by: random ones do not collide
  Advertised,  \* the hosts with an endpoint to advertise for the fallback
  None,        \* the empty string, no address
  Rendezvous,  \* the address of the rendezvous server
  Lasting,     \* bound: the hosts whose match, once open, stays open
  MaxJoins     \* bound on the join attempts of each peer

ASSUME NoneAssumption == None \notin Peers \cup Tokens /\ Rendezvous \notin Peers \cup {None}
\* On one network addresses differ. A machine without a network of others may
\* have its public address as its own.
ASSUME PrivateAssumption ==
  \A p \in Peers :
    /\ Private[p] # None
    /\ \A q \in Peers : Lan[q] = Lan[p] /\ Private[q] = Private[p] => q = p
    /\ Private[p] \in Peers => Private[p] = p /\ \A q \in Peers : Lan[q] = Lan[p] => q = p
ASSUME DrawerAssumption == Drawer \in [Tokens -> Peers]
ASSUME AdvertisedAssumption == Advertised \subseteq Peers
ASSUME LastingAssumption == Lasting \subseteq Peers
ASSUME MaxJoinsAssumption == MaxJoins \in [Peers -> Nat]

VARIABLES
  serverUp,        \* is_hosting(): the peers running a listen server in game
  hostingEnabled,  \* hosting_enabled, mirrored in the nat_open dvar
  hostToken,       \* host_token
  punch,           \* the punch_attempt of each peer
  net,             \* every datagram a peer sent so far
  drawn,           \* history: the tokens generated
  joins,           \* history: how many joins a peer began
  outcome,         \* history: how its last join ended
  connects         \* history: the connects issued for that join: address, token

hostVars == <<serverUp, hostingEnabled, hostToken>>
joinHistory == <<joins, outcome, connects>>
vars == <<hostVars, punch, net, drawn, joinHistory>>

Idle == [active |-> FALSE, joining |-> FALSE, token |-> None,
         fallback |-> None, candidates |-> {}, expired |-> FALSE]

\* to is the peer that receives it, peer who it is about: the sender's address
\* where it is one peer's to another.
Msg(kind, to, peer, token) == [kind |-> kind, to |-> to, peer |-> peer, token |-> token]

PrivateAddresses == {Private[p] : p \in Peers}
Addresses == Peers \cup PrivateAddresses

\* gather_candidates and the public address the rendezvous server observes.
Candidates(p) == {p, Private[p]}

\* Who receives what p sends to an address, and the address it comes from.
Reached(p, address) == {q \in Peers : address = q \/ (address = Private[q] /\ Lan[q] = Lan[p])}
Source(p, address) == IF address \in Peers THEN p ELSE Private[p]
Send(kind, p, address, token) == {Msg(kind, q, Source(p, address), token) : q \in Reached(p, address)}

Init ==
  /\ serverUp = {}
  /\ hostingEnabled = {}
  /\ hostToken = [p \in Peers |-> None]
  /\ punch = [p \in Peers |-> Idle]
  /\ net = {}
  /\ drawn = {}
  /\ joins = [p \in Peers |-> 0]
  /\ outcome = [p \in Peers |-> "none"]
  /\ connects = [p \in Peers |-> <<>>]

----------------------------------------------------------------------------
(* Hosting *)

\* Without a token to draw, a peer does not host in this instance.
Hosts == {Drawer[t] : t \in Tokens}

\* The private match starts, ends, or the player returns to the menu.
MatchChanges(p) ==
  /\ p \in serverUp => p \notin Lasting
  /\ serverUp' = IF p \in serverUp THEN serverUp \ {p} ELSE serverUp \cup {p}
  /\ UNCHANGED <<hostingEnabled, hostToken, punch, net, drawn, joinHistory>>

SetHostingEnabled(p, enabled) ==
  IF enabled
  THEN hostingEnabled' = hostingEnabled \cup {p} /\ UNCHANGED hostToken
  ELSE /\ hostingEnabled' = hostingEnabled \ {p}
       /\ hostToken' = [hostToken EXCEPT ![p] = None]

\* The nat_host command toggles.
NatHost(p) ==
  /\ p \in serverUp
  /\ p \in hostingEnabled => p \notin Lasting
  /\ SetHostingEnabled(p, p \notin hostingEnabled)
  /\ UNCHANGED <<serverUp, punch, net, drawn, joinHistory>>

\* update_host_session, every five seconds: register and keep alive with the
\* token (a new one if there is none), or close the session.
Register(p) ==
  /\ p \in serverUp \cap hostingEnabled
  /\ \E t \in Tokens :
       /\ IF hostToken[p] = None
          THEN t \notin drawn /\ Drawer[t] = p /\ drawn' = drawn \cup {t}
          ELSE hostToken[p] = t /\ UNCHANGED drawn
       /\ hostToken' = [hostToken EXCEPT ![p] = t]
       /\ net' = net \cup {Msg("privRegister", Rendezvous, p, t)}
  /\ UNCHANGED <<serverUp, hostingEnabled, punch, joinHistory>>

\* Mutant: closes when the player toggles it off, but not when the match ends.
CloseIfToggled(p) ==
  /\ p \notin hostingEnabled /\ hostToken[p] # None
  /\ SetHostingEnabled(p, FALSE)
  /\ UNCHANGED <<serverUp, punch, net, drawn, joinHistory>>

CloseSession(p) ==
  /\ p \notin serverUp \cap hostingEnabled
  /\ p \in hostingEnabled \/ hostToken[p] # None
  /\ SetHostingEnabled(p, FALSE)
  /\ UNCHANGED <<serverUp, punch, net, drawn, joinHistory>>

UpdateHostSession(p) == Register(p) \/ CloseSession(p)

----------------------------------------------------------------------------
(* Joining *)

\* begin_join, from a Discord or launcher invite, or from nat_join (then
\* without a fallback): the token of some host, and perhaps its endpoint, which
\* get_host_endpoint takes from its addresses.
BeginJoin(p) ==
  /\ joins[p] < MaxJoins[p]
  /\ \E t \in drawn : \E fallback \in {None} \cup (IF Drawer[t] \in Advertised THEN Candidates(Drawer[t]) ELSE {}) :
       /\ Drawer[t] # p
       /\ punch' = [punch EXCEPT ![p] = [Idle EXCEPT !.active = TRUE, !.joining = TRUE,
                                         !.token = t, !.fallback = fallback]]
       /\ net' = net \cup {Msg("privJoin", Rendezvous, p, t)}
  /\ joins' = [joins EXCEPT ![p] = @ + 1]
  /\ outcome' = [outcome EXCEPT ![p] = "pending"]
  /\ connects' = [connects EXCEPT ![p] = <<>>]
  /\ UNCHANGED <<hostVars, drawn>>

Punches(p, attempt) == UNION {Send("punch", p, c, attempt.token) : c \in attempt.candidates}

IssueConnect(p, address, how) ==
  /\ connects' = [connects EXCEPT ![p] =
                    Append(@, [address |-> address, token |-> punch[p].token])]
  /\ outcome' = [outcome EXCEPT ![p] = how]
  /\ UNCHANGED joins

\* The deadline of the attempt passes.
Expire(p) ==
  /\ punch[p].active /\ ~punch[p].expired
  /\ punch' = [punch EXCEPT ![p].expired = TRUE]
  /\ UNCHANGED <<hostVars, net, drawn, joinHistory>>

\* punch_frame, every 250 ms: punch again, or give up at the deadline.
PunchRound(p) ==
  /\ punch[p].active /\ ~punch[p].expired
  /\ net' = net \cup Punches(p, punch[p])
  /\ UNCHANGED <<hostVars, punch, drawn, joinHistory>>

\* Mutant: the attempt stays active, waiting for a late acknowledgement.
FallBackAndStay(p) ==
  /\ punch[p].active /\ punch[p].expired
  /\ punch' = [punch EXCEPT ![p].fallback = None]
  /\ IF ~punch[p].joining \/ punch[p].fallback = None
     THEN UNCHANGED joinHistory
     ELSE IssueConnect(p, punch[p].fallback, "fallback")
  /\ UNCHANGED <<hostVars, net, drawn>>

\* Mutant: the join error is shown only when the rendezvous rejected the join.
GiveUpSilently(p) ==
  /\ punch[p].active /\ punch[p].expired
  /\ punch' = [punch EXCEPT ![p] = Idle]
  /\ IF punch[p].joining /\ punch[p].fallback # None
     THEN IssueConnect(p, punch[p].fallback, "fallback") ELSE UNCHANGED joinHistory
  /\ UNCHANGED <<hostVars, net, drawn>>

GiveUp(p) ==
  /\ punch[p].active /\ punch[p].expired
  /\ punch' = [punch EXCEPT ![p] = Idle]
  /\ IF ~punch[p].joining
     THEN UNCHANGED joinHistory
     ELSE IF punch[p].fallback # None
          THEN IssueConnect(p, punch[p].fallback, "fallback")
          ELSE outcome' = [outcome EXCEPT ![p] = "error"] /\ UNCHANGED <<joins, connects>>
  /\ UNCHANGED <<hostVars, net, drawn>>

PunchFrame(p) == PunchRound(p) \/ GiveUp(p)

----------------------------------------------------------------------------
(* Datagrams *)

\* The rendezvous introduces a joiner and the host of its token to each other;
\* when the registration was lost, comes late or is forgotten, it rejects. Its
\* answers may arrive at any time, so they are not kept in net.
Asking == {m \in net : m.kind = "privJoin"}

Introductions ==
  LET Hosting(token) == {m \in net : m.kind = "privRegister" /\ m.token = token}
      Meet(j, r) == {Msg("privPeer", j.peer, r.peer, j.token), Msg("privPeer", r.peer, j.peer, j.token)} IN
  UNION {UNION {Meet(j, r) : r \in Hosting(j.token)} : j \in Asking}

Rejections == {Msg("privReject", j.peer, None, None) : j \in Asking}

\* privPeer, to a joiner with this token: the candidates of the host.
PeerToJoiner(m) ==
  LET p == m.to
      fed == [punch[p] EXCEPT !.candidates = @ \cup Candidates(m.peer)] IN
  /\ m.kind = "privPeer"
  /\ punch[p].active /\ punch[p].joining /\ punch[p].token = m.token
  /\ punch' = [punch EXCEPT ![p] = fed]
  /\ net' = net \cup Punches(p, fed)
  /\ UNCHANGED <<hostVars, joinHistory>>

\* privPeer, to the host of this token: a joiner to punch. It replaces the
\* attempt, a join of the host's own included.
PeerToHost(m) ==
  LET p == m.to
      fed == [Idle EXCEPT !.active = TRUE, !.token = m.token,
                      !.candidates = Candidates(m.peer)] IN
  /\ m.kind = "privPeer"
  /\ ~(punch[p].active /\ punch[p].joining /\ punch[p].token = m.token)
  /\ hostToken[p] = m.token
  /\ punch' = [punch EXCEPT ![p] = fed]
  /\ net' = net \cup Punches(p, fed)
  /\ UNCHANGED <<hostVars, joinHistory>>

\* privReject carries no token: whatever join is active falls back at once.
Reject(m) ==
  /\ m.kind = "privReject"
  /\ punch[m.to].active /\ punch[m.to].joining
  /\ punch' = [punch EXCEPT ![m.to].expired = TRUE]
  /\ UNCHANGED <<hostVars, net, joinHistory>>

\* punch: always acknowledged to the address it came from, whatever its token,
\* and a new candidate for an attempt with its token.
Punched(m) ==
  LET p == m.to IN
  /\ m.kind = "punch"
  /\ net' = net \cup Send("punchAck", p, m.peer, m.token)
  /\ punch' = IF punch[p].active /\ punch[p].token = m.token
              THEN [punch EXCEPT ![p].candidates = @ \cup {m.peer}] ELSE punch
  /\ UNCHANGED <<hostVars, joinHistory>>

\* Mutant: the token of the acknowledgement is not compared.
AckedByAnyone(m) ==
  LET p == m.to IN
  /\ m.kind = "punchAck"
  /\ punch[p].active
  /\ punch' = [punch EXCEPT ![p] = Idle]
  /\ IF punch[p].joining THEN IssueConnect(p, m.peer, "direct") ELSE UNCHANGED joinHistory
  /\ UNCHANGED <<hostVars, net>>

PunchAcked(m) ==
  LET p == m.to IN
  /\ m.kind = "punchAck"
  /\ punch[p].active /\ punch[p].token = m.token
  /\ punch' = [punch EXCEPT ![p] = Idle]
  /\ IF punch[p].joining THEN IssueConnect(p, m.peer, "direct") ELSE UNCHANGED joinHistory
  /\ UNCHANGED <<hostVars, net>>

Receive(m) ==
  /\ \/ PeerToJoiner(m) \/ PeerToHost(m)
     \/ Reject(m) \/ Punched(m) \/ PunchAcked(m)
  /\ UNCHANGED drawn

----------------------------------------------------------------------------
Next ==
  \/ \E p \in Peers :
       \/ p \in Hosts /\ MatchChanges(p)
       \/ NatHost(p) \/ UpdateHostSession(p)
       \/ BeginJoin(p) \/ Expire(p) \/ PunchFrame(p)
  \/ \E m \in net \cup Introductions \cup Rejections : Receive(m)

\* The two scheduler loops of a running client, and its clock. Nothing is
\* assumed of the network, of the rendezvous server or of the players.
Fairness ==
  \A p \in Peers : WF_vars(PunchFrame(p)) /\ WF_vars(UpdateHostSession(p)) /\ WF_vars(Expire(p))

Spec == Init /\ [][Next]_vars /\ Fairness
----------------------------------------------------------------------------
(* Properties *)

Attempts == [active : BOOLEAN, joining : BOOLEAN, token : Tokens \cup {None}, fallback : Addresses \cup {None},
             candidates : SUBSET Addresses, expired : BOOLEAN]

HostTypes ==
  /\ serverUp \subseteq Peers /\ hostingEnabled \subseteq Peers
  /\ hostToken \in [Peers -> Tokens \cup {None}]
  /\ drawn \subseteq Tokens

HistoryTypes ==
  /\ joins \in [Peers -> Nat]
  /\ \A p \in Peers : joins[p] <= MaxJoins[p]
  /\ outcome \in [Peers -> {"none", "pending", "direct", "fallback", "error"}]
  /\ connects \in [Peers -> Seq([address : Addresses, token : Tokens])]

TypeOK == HostTypes /\ HistoryTypes /\ punch \in [Peers -> Attempts]

\* A token is somebody's open invitation: only a peer that opened its match
\* has one, its own, and no two peers share it (the join secret names a host).
TokenNamesOpenHost ==
  \A p \in Peers : hostToken[p] # None => p \in hostingEnabled /\ hostToken[p] \in drawn /\ Drawer[hostToken[p]] = p

\* One join issues at most one connect, however late the acknowledgement that
\* races the deadline or the rejection: a second would drop the first game.
AtMostOneConnect == \A p \in Peers : Len(connects[p]) <= 1

\* Another machine of the network of p has the private address of the host:
\* p itself, or one beside it.
Clash(p, host) == \E q \in Peers \ {host} : Lan[q] = Lan[p] /\ Private[q] = Private[host]

\* A connect reaches the host whose token was joined, or nobody: not another
\* joiner, a former host or a stale attempt, and never a host its joiner. Every
\* client acknowledges every punch, so the one exception is real: a private
\* candidate of the host that is another machine's on the joiner's network. A
\* public address is always the host's.
ConnectsToInvitedHost ==
  \A p \in Peers : \A i \in DOMAIN connects[p] :
    LET c == connects[p][i]
        host == Drawer[c.token] IN
    \A q \in Reached(p, c.address) : q = host \/ (c.address \notin Peers /\ Clash(p, host))

\* nat.hpp:16: a join connects directly, falls back or shows the error, unless
\* a peer of the joiner's own open match replaced the attempt meanwhile.
JoinResolves ==
  \A p \in Peers :
    outcome[p] = "pending" /\ punch[p].joining
      ~> outcome[p] # "pending" \/ (punch[p].active /\ ~punch[p].joining)

\* nat.hpp:16 as it stands.
JoinAlwaysResolves == \A p \in Peers : outcome[p] = "pending" ~> outcome[p] # "pending"

\* When a match ends for good its session closes and stays closed, late
\* acknowledgements and joiners notwithstanding.
HostSessionCloses ==
  \A p \in Peers :
    <>[](p \notin serverUp) => <>[](hostToken[p] = None /\ p \notin hostingEnabled)
=============================================================================
