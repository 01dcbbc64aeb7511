----------------------------- MODULE MC_Ingress -----------------------------
(***************************************************************************)
(* A reaction in two chunks and a crystal in one that were given the same  *)
(* stream id, an envelope that holds an envelope, and a reaction that a    *)
(* client submits.                                                         *)
(***************************************************************************)
EXTENDS Ingress

R1 == <<"a", "b">>
R2 == <<"e">>
C1 == <<"c">>
E1 == <<"n">>
MCBlocks == {"a", "b", "c", "e", "n"}
MCReactions == {R1, R2}
MCCrystals == {C1}
MCEnvelopes == {E1}
MCArchitects == {R1}
MCChunked ==
    {[via |-> "reaction", sid |-> "s1", message |-> R1],
     [via |-> "crystal", sid |-> "s1", message |-> C1],
     [via |-> "crystal", sid |-> "s1", message |-> E1]}
MCDirect == {[via |-> "submit", message |-> R2]}
=============================================================================
