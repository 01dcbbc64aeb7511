--------------------------- MODULE MC_PeerSession ---------------------------
(* Two connections from one address; the second may be a peer that is not what it claims. *)
EXTENDS PeerSession

CONSTANTS c1, c2

MCAddr == [c \in Conns |-> "a1"]
MCPeers == {[c \in Conns |-> IF c = c2 THEN k ELSE "good"] :
               k \in {"good", "forged record", "foreign key"}}
=============================================================================
