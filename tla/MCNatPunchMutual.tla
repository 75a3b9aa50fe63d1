-------------------------- MODULE MCNatPunchMutual --------------------------
(* Two hosts that join each other, each at a public address of its own.     *)
EXTENDS NatPunch, TLC

CONSTANTS p1, p2, t1, t2

MCPeers == {p1, p2}
MCTokens == {t1, t2}
MCDrawer == t1 :> p1 @@ t2 :> p2
MCPrivate == p1 :> p1 @@ p2 :> p2
MCMaxJoins == p1 :> 1 @@ p2 :> 1
=============================================================================
