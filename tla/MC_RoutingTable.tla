--------------------------- MODULE MC_RoutingTable ---------------------------
(***************************************************************************)
(* A small instance of RoutingTable: ids of three bits, three peers and a  *)
(* forged one in the far half of the key space, one peer in the near half. *)
(***************************************************************************)
EXTENDS RoutingTable

Local == <<0, 0, 0>>
P1 == <<1, 0, 0>>
P2 == <<1, 0, 1>>
P3 == <<1, 1, 0>>
F1 == <<1, 1, 1>>
P4 == <<0, 1, 0>>
MCIds == {Local, P1, P2, P3, P4, F1}
MCForged == {F1}
MCAnswers == {<<Local, P3>>, <<P2, F1>>}
MCTargets == {P1}
=============================================================================
