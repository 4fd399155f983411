--------------------------- MODULE MCRelayServer ---------------------------
(* A node that dials in twice (the second connection replaces the first)    *)
(* and a peer of it that reports about it.  The frames are enough for two   *)
(* registrations, a judgement and a recovery that race each other.          *)
EXTENDS RelayServer, TLC

CONSTANTS s, w, s1, s2, w1

MCNode == {s, w}
MCConn == {s1, s2, w1}
MCOwner == [c \in MCConn |-> IF c = w1 THEN w ELSE s]

MCEnds == {s1}

To(kinds, node) == [kind : kinds, about : {node}]
MCTalk == s1 :> To({"register", "beat"}, "-") \cup To({"unreachable"}, s)
          @@ s2 :> To({"hello"}, "-")
          @@ w1 :> To({"register"}, "-") \cup To({"unreachable", "reachable", "carry"}, s)
=============================================================================
