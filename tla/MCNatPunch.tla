----------------------------- MODULE MCNatPunch -----------------------------
(* Two hosts, and a third peer that joins one after the other: the          *)
(* datagrams of its first attempt meet the second. It shares a network with *)
(* the second host, whose private address is also the first's elsewhere.    *)
EXTENDS NatPunch, TLC

CONSTANTS p1, p2, p3, t1, t2, a, b, here, there

MCPeers == {p1, p2, p3}
MCTokens == {t1, t2}
MCDrawer == t1 :> p1 @@ t2 :> p2
MCPrivate == p1 :> a @@ p2 :> a @@ p3 :> b
MCLan == p1 :> there @@ p2 :> here @@ p3 :> here
MCMaxJoins == p1 :> 0 @@ p2 :> 0 @@ p3 :> 2
=============================================================================
