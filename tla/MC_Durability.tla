-------------------------- MODULE MC_Durability ----------------------------
(***************************************************************************)
(* A small instance of Durability: an architect and one user, whose        *)
(* reactions must run in nonce order.                                      *)
(***************************************************************************)
EXTENDS Durability

MCKeys == {"architect", "user"}
MCArchitect == "architect"
MaxValue == 2                     \* bound: atoms saturate here
MCValues == 0..MaxValue
MCSender(r) == "user"

(* The PVM in miniature: the reward adds to the architect's atom with      *)
(* saturation; a reaction is the nonce it expects, materialises the user   *)
(* at nonce 0 and advances it; a nonce that does not match fails the block.*)
Bump(v) == IF v = MaxValue THEN v ELSE v + 1
UserNonce(at) == IF at["user"] = Absent THEN 0 ELSE at["user"]
MCExecute(at, i, R) ==
    LET txs == R \cap Reactions
        n == UserNonce(at)
        written == (IF Reward \in R THEN {"architect"} ELSE {})
                       \cup (IF txs = {} THEN {} ELSE {"user"})
    IN  IF txs # n..(n + Cardinality(txs) - 1) THEN PvmErr
        ELSE [k \in written |->
                IF k = "user" THEN n + Cardinality(txs)
                ELSE IF at[k] = Absent THEN 0 ELSE Bump(at[k])]

(* Peers' crystals carry the reward, alone or with the user's reactions. *)
MCPayloads == {{Reward} \cup R : R \in SUBSET Reactions}

(* A hash that leaves out the parent, for runs in which crystals can be    *)
(* chained without end on a bounded number of heights.                     *)
MCShortDensity(c) == <<c.index, c.energy, c.reactions, c.root>>

(* State constraint: stop where a reorg or a crystal has failed. *)
BeforeAFailure == events \subseteq {"reorg"}
=============================================================================
