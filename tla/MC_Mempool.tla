---------------------------- MODULE MC_Mempool ------------------------------
(***************************************************************************)
(* Three sectors: the architect's, with two reactions of the same energy   *)
(* and a dearer one, another with a cheap and a dear one, and an empty one.*)
(***************************************************************************)
EXTENDS Mempool

MCRx == {"a1", "a2", "a3", "b1", "b2"}
MCSector(r) == IF r \in {"b1", "b2"} THEN 1 ELSE 0
MCEnergy(r) == IF r \in {"a3", "b2"} THEN 2 ELSE 1
=============================================================================
