---------------------------- MODULE MC_TrieStore ----------------------------
(***************************************************************************)
(* A small instance of TrieStore: keys of five nibbles that make paths     *)
(* with no extension, one, and two extensions of the same length.          *)
(***************************************************************************)
EXTENDS TrieStore

K1 == <<0, 0, 1, 0, 0>>
K2 == <<0, 0, 1, 1, 1>>
K3 == <<0, 1, 0, 0, 0>>
K4 == <<1, 1, 0, 1, 0>>
MCKeys == {K1, K2, K3, K4}

(* Crystals that write one atom, and one that writes two. *)
MCChangesets ==
    {<<<<K1, 0>>>>, <<<<K1, 1>>>>, <<<<K4, 0>>>>, <<<<K2, 0>>, <<K3, 1>>>>}

MCAsked == {K1}

(* Bound: commits that replace a crystal or write several keys. *)
MaxUntidy == 1
Bounded == untidy <= MaxUntidy
=============================================================================
