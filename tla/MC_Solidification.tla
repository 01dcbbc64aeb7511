------------------------- MODULE MC_Solidification -------------------------
(***************************************************************************)
(* A small instance of Solidification: an architect and one user, whose    *)
(* reactions must run in nonce order.                                      *)
(***************************************************************************)
EXTENDS Solidification

MCKeys == {"architect", "user"}
MCArchitect == "architect"
MaxValue == 3                     \* bound: atoms saturate here
MCValues == 0..MaxValue
MCSender(r) == "user"

(* The PVM in miniature: the reward adds to the architect's atom with      *)
(* saturation; a reaction is the nonce it expects, materialises the user   *)
(* at nonce 0 and advances it; a nonce that does not match fails the block.*)
Bump(v) == IF v = MaxValue THEN v ELSE v + 1
UserNonce(at) == IF at["user"] = Absent THEN 0 ELSE at["user"]
MCExecute(at, i, R) ==
    LET txs == R \cap Reactions
        n == UserNonce(at)
        written == (IF Reward \in R THEN {"architect"} ELSE {})
                       \cup (IF txs = {} THEN {} ELSE {"user"})
    IN  IF txs # n..(n + Cardinality(txs) - 1) THEN PvmErr
        ELSE [k \in written |->
                IF k = "user" THEN n + Cardinality(txs)
                ELSE IF at[k] = Absent THEN 0 ELSE Bump(at[k])]

(* Peers' crystals carry the reward, alone or with the user's reactions. *)
MCPayloads == {{Reward} \cup R : R \in SUBSET Reactions}

(* A collision-free hash: the crystal itself. *)
MCDensity(c) == c

(* State constraint: once a reorg has failed, behaviours are continued only *)
(* where it rewound everything and until the next crystal is stored.       *)
AfterFailure == "reorg_failed" \in events => idx = 0 /\ ~HasLatest
=============================================================================
