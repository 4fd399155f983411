----------------------------- MODULE MCTakeover -----------------------------
(***************************************************************************)
(* Standing in for a centre: two nodes that list each other, each the      *)
(* other's only witness, with links that fail and come back one by one.    *)
(***************************************************************************)
EXTENDS Takeover

MCPair == 1 .. 2
MCPairPeers == [i \in MCPair |-> MCPair \ {i}]
EachLink == {{link} : link \in Links}
=============================================================================
