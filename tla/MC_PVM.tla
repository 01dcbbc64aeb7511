------------------------------- MODULE MC_PVM -------------------------------
(***************************************************************************)
(* Three keys and thirteen reactions: transfers in and out of nonce order, *)
(* to oneself and to a new atom; a contract; generics with and without a   *)
(* receiver; a reward with an amount of its own.                           *)
(***************************************************************************)
EXTENDS PVM

MCKeys == {"arch", "u", "v"}
MCArchitect == "arch"

(* v is entangled with the architect. *)
MCPartner(k) == IF k = "v" THEN "arch" ELSE NoKey

MCCurvature(rx, i) == IF rx.energy > 0 THEN 2 ELSE 1
MCTax(rx, i) == i % 2
MCDecay(m, i) == IF i > 1 /\ m > 2 THEN 1 ELSE 0

R(kind, s, r, amount, energy, nonce) ==
    [kind |-> kind, sender |-> s, receiver |-> r, amount |-> amount,
     energy |-> energy, nonce |-> nonce, snap |-> 1, snapNonce |-> 1,
     signed |-> TRUE]

MCRx ==
    {R("transfer", "arch", "u", 3, 0, n) : n \in {0, 1}}
        \cup {R("transfer", "u", "v", 1, 1, n) : n \in {1, 2}}
        \cup {R("transfer", "u", "u", 1, 0, 1), R("contract", "u", "u", 1, 0, 1),
              R("generic", "u", "v", 0, 1, 1), R("generic", "arch", "v", 0, 2, 0),
              R("transfer", "v", "arch", 1, -1, 1), R("transfer", "v", "u", 1, 0, 1),
              R("reward", "arch", "arch", 2, 0, 0), R("call", "arch", "u", 0, 0, 0),
              [R("transfer", "arch", "v", 1, 0, 0) EXCEPT !.signed = FALSE]}
=============================================================================
