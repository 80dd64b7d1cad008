------------------------------- MODULE MCBroker -------------------------------
EXTENDS Broker, TLC

CONSTANTS m1, m2, r1, p1, p2, b1, b2

MCTo == [id \in Ids |-> r1]
MCPlacements == {[b \in Brokers |-> p1], (b1 :> p1) @@ (b2 :> p2)}
MCRosters == (b1 :> {Recipients}) @@ (b2 :> {Recipients, Recipients \ {r1}})
=============================================================================
