-------------------------- MODULE MC_GalacticSync --------------------------
(***************************************************************************)
(* Two nodes, both of which mine; the one that mined the chain so far      *)
(* dials.                                                                  *)
(***************************************************************************)
EXTENDS GalacticSync

MCNodes == {"a", "b"}
MCFounder == "a"
FounderDials == {<<"a", "b">>}
=============================================================================
