------------------------------ MODULE Mempool ------------------------------
(***************************************************************************)
(* SectoralMempool and the part of the mining loop that empties it.        *)
(*                                                                         *)
(* A sector keeps two sled trees: data, from the reaction's hash to the    *)
(* reaction, and weights, from (energy, reception time in seconds) to the  *)
(* hash.  The mempool is behind one mutex, so push and a drain are single  *)
(* steps.  A reaction stands for its hash; structural validation, which    *)
(* looks at the reaction only, has already admitted every member of Rx.    *)
(***************************************************************************)
EXTENDS Naturals, FiniteSets

CONSTANTS
    Rx,                 \* structurally valid reactions
    Sectors,            \* number of sectors, 256 in the code
    Sector(_),          \* first byte of the sender's public key
    Energy(_),          \* the fee, the major part of the weight
    ArchitectSector,
    Capacity,           \* max_sector_capacity
    Limit,              \* reactions a block takes from the mempool, 50
    MaxClock            \* bound of the model: seconds

SectorIds == 0..(Sectors - 1)

ASSUME MempoolAssumption ==
    /\ Sectors \in Nat \ {0} /\ ArchitectSector \in SectorIds
    /\ Capacity \in Nat /\ Limit \in Nat /\ MaxClock \in Nat
    /\ \A r \in Rx : Sector(r) \in SectorIds /\ Energy(r) \in Nat

VARIABLES
    data,               \* per sector, the reactions in the data tree
    weights,            \* per sector, the weight tree
    clock,              \* seconds since the start
    drift               \* get_galactic_drift of the engine's crystal index

mempoolVars == <<data, weights, clock, drift>>

WeightKeys == {<<Energy(r), t>> : r \in Rx, t \in 0..MaxClock}

MempoolInit ==
    /\ data = [s \in SectorIds |-> {}]
    /\ weights = [s \in SectorIds |-> [k \in {} |-> {}]]
    /\ clock = 0
    /\ drift = 0

-----------------------------------------------------------------------------
(* mempool_v2.rs: push *)

(* Mutant: the reaction is stored in its sector, indexed in the first. *)
IndexWrongSector(w, r) ==
    [w EXCEPT ![0] = [k \in DOMAIN w[0] \cup {<<Energy(r), clock>>} |->
        IF k = <<Energy(r), clock>> THEN r ELSE w[0][k]]]

(* weight_tree.insert replaces the entry of a reaction with the same       *)
(* energy received in the same second.                                     *)
Indexed(w, r) ==
    [w EXCEPT ![Sector(r)] =
        [k \in DOMAIN w[Sector(r)] \cup {<<Energy(r), clock>>} |->
            IF k = <<Energy(r), clock>> THEN r ELSE w[Sector(r)][k]]]

Full(s) == Cardinality(data[s]) >= Capacity

(* A full sector refuses whatever comes, a known hash is not stored again; *)
(* both leave everything as it is.                                         *)
Push(r) ==
    /\ ~Full(Sector(r))
    /\ r \notin data[Sector(r)]
    /\ data' = [data EXCEPT ![Sector(r)] = @ \cup {r}]
    /\ weights' = Indexed(weights, r)
    /\ UNCHANGED <<clock, drift>>

-----------------------------------------------------------------------------
(* mempool_v2.rs: drain_resonant *)

(* Mutant: the weight tree is read from the front. *)
LowestFirst(k, l) == k[1] < l[1] \/ (k[1] = l[1] /\ k[2] > l[2])

(* Reverse key order: more energy first, then the earlier reception,       *)
(* because the time is stored as u64::MAX - ts.                            *)
Before(k, l) == k[1] > l[1] \/ (k[1] = l[1] /\ k[2] < l[2])

(* The first n keys of a weight tree in that order. *)
FirstKeys(w, n) ==
    {k \in DOMAIN w : Cardinality({l \in DOMAIN w : Before(l, k)}) < n}

(* Both trees lose the drained entries. *)
Rest(w, keys) == [k \in DOMAIN w \ keys |-> w[k]]
Drained(s, n) == {weights[s][k] : k \in FirstKeys(weights[s], n)}

(* The mining loop drains the sector of the drift and, if that left room,  *)
(* the architect's sector.                                                 *)
Quota(s) ==
    IF s = drift THEN Limit
    ELSE IF s # ArchitectSector THEN 0
    ELSE Limit - Cardinality(FirstKeys(weights[drift], Limit))

(* get_galactic_drift of the next crystal index *)
NextDrift == (drift + 1) % Sectors

(* mine_block takes the batch; the index advances unless the proof of work *)
(* is unsolved or solidification fails.  Nothing returns to the mempool.   *)
MineBatch ==
    /\ data' = [s \in SectorIds |-> data[s] \ Drained(s, Quota(s))]
    /\ weights' = [s \in SectorIds |->
                      Rest(weights[s], FirstKeys(weights[s], Quota(s)))]
    /\ drift' \in {drift, NextDrift}
    /\ UNCHANGED clock

Tick ==
    /\ clock < MaxClock
    /\ clock' = clock + 1
    /\ UNCHANGED <<data, weights, drift>>

MempoolNext ==
    \/ \E r \in Rx : Push(r)
    \/ MineBatch
    \/ Tick

MempoolSpec == MempoolInit /\ [][MempoolNext]_mempoolVars

-----------------------------------------------------------------------------
MempoolTypeOK ==
    /\ data \in [SectorIds -> SUBSET Rx]
    /\ DOMAIN weights = SectorIds
    /\ \A s \in SectorIds :
          /\ DOMAIN weights[s] \subseteq WeightKeys
          /\ \A k \in DOMAIN weights[s] : weights[s][k] \in Rx
    /\ clock \in 0..MaxClock /\ drift \in SectorIds

(* The weight tree never lies: every entry names a reaction that is in the *)
(* data tree of the same sector, filed under its own energy, and no        *)
(* reaction has two entries, so drain_resonant never meets a hash "found   *)
(* in weight index but missing in data tree".                              *)
WeightIndexSound ==
    \A s \in SectorIds :
        /\ \A k \in DOMAIN weights[s] :
              /\ weights[s][k] \in data[s]
              /\ k[1] = Energy(weights[s][k])
        /\ \A k, l \in DOMAIN weights[s] : weights[s][k] = weights[s][l] => k = l

(* No sector ever holds more than its capacity, entries that lost their    *)
(* place in the weight tree included.                                      *)
CapacityBound == \A s \in SectorIds : Cardinality(data[s]) <= Capacity

(* Inductive: pushes and drains keep the two trees of a sector in step and *)
(* the sector within its capacity, whatever the clock and the drift do.    *)
MempoolInv == MempoolTypeOK /\ WeightIndexSound /\ CapacityBound

(* A block never passes over a reaction for a cheaper one of its sector:   *)
(* what a drain leaves in the weight tree pays no more than what it took.  *)
DrainTakesBest ==
    [][MineBatch => \A s \in SectorIds :
          \A k \in DOMAIN weights'[s], l \in DOMAIN weights[s] \ DOMAIN weights'[s] :
              k[1] <= l[1]]_mempoolVars

-----------------------------------------------------------------------------
(* What the documents say, and the code does not do. *)

(* Types specification: a reaction held in the mempool is eventually       *)
(* synthesized; so it must be where the mining loop can find it.           *)
PooledIsDrainable ==
    \A s \in SectorIds, r \in Rx :
        r \in data[s] => \E k \in DOMAIN weights[s] : weights[s][k] = r

=============================================================================
