----------------------------- MODULE KnownPeers -----------------------------
(***************************************************************************)
(* What a routing table promises: a set of authenticated peers other than  *)
(* the node itself, at most Capacity of each region of the key space, that *)
(* changes by one peer at a time: one is learned, one is forgotten, or one *)
(* takes the place of another of the same region.                          *)
(***************************************************************************)
EXTENDS Naturals, FiniteSets

CONSTANTS
    Peers,          \* authenticated peers, the node itself not among them
    Region(_),      \* the region of the key space a peer is in
    Capacity        \* peers kept per region

VARIABLE known

Init == known = {}

Crowd(S, p) == {q \in S : Region(q) = Region(p)}

Fits(S) == \A p \in S : Cardinality(Crowd(S, p)) <= Capacity

Learn(p) == known' = known \cup {p}

Forget(p) == known' = known \ {p}

Exchange(p, q) ==
    /\ Region(p) = Region(q)
    /\ known' = (known \ {q}) \cup {p}

Next ==
    /\ \/ \E p \in Peers : Learn(p) \/ Forget(p)
       \/ \E p, q \in Peers : Exchange(p, q)
    /\ Fits(known')

Spec == Init /\ [][Next]_known

=============================================================================
