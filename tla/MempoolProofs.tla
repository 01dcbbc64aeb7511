--------------------------- MODULE MempoolProofs ---------------------------
(***************************************************************************)
(* The invariant of the mempool, for every number of sectors, capacity,    *)
(* batch size and set of reactions, and the order in which a drain takes   *)
(* them.                                                                   *)
(***************************************************************************)
EXTENDS Mempool, FiniteSetTheorems, TLAPS

(* CapacityBound and the order of a drain compare cardinalities, so they   *)
(* need finite trees: a sector is filled one reaction at a time.           *)
Finite ==
    \A s \in SectorIds : IsFiniteSet(data[s]) /\ IsFiniteSet(DOMAIN weights[s])

(* Every sector starts with two empty trees. *)
LEMMA InitialMempool == MempoolInit => MempoolInv /\ Finite
<1> SUFFICES ASSUME MempoolInit PROVE MempoolInv /\ Finite
    OBVIOUS
<1> USE MempoolAssumption DEF MempoolInit, SectorIds
<1>1. MempoolTypeOK
    BY DEF MempoolTypeOK
<1>2. WeightIndexSound
    BY DEF WeightIndexSound
<1>3. CapacityBound /\ Finite
    BY FS_EmptySet DEF CapacityBound, Finite
<1> QED BY <1>1, <1>2, <1>3 DEF MempoolInv

(* A push adds one reaction to a sector that is not full and one entry,    *)
(* new or overwritten, that names it; no older entry names it, because its *)
(* hash was not in the data tree.                                          *)
LEMMA PushKeeps ==
    ASSUME MempoolInv, Finite, NEW r \in Rx, Push(r)
    PROVE  MempoolInv' /\ Finite'
<1> DEFINE z == Sector(r)
           key == <<Energy(r), clock>>
<1> USE MempoolAssumption
<1>0. MempoolTypeOK /\ WeightIndexSound /\ CapacityBound
    BY DEF MempoolInv
<1>1. z \in SectorIds /\ Energy(r) \in Nat
    OBVIOUS
<1>2. /\ data' = [data EXCEPT ![z] = @ \cup {r}]
      /\ r \notin data[z]
      /\ clock' = clock /\ drift' = drift
    BY DEF Push
<1>3. /\ DOMAIN weights' = SectorIds
      /\ \A s \in SectorIds \ {z} : weights'[s] = weights[s]
      /\ weights'[z] = [k \in DOMAIN weights[z] \cup {key} |->
                           IF k = key THEN r ELSE weights[z][k]]
    BY <1>0, <1>1 DEF Push, Indexed, MempoolTypeOK
<1>4. /\ data' \in [SectorIds -> SUBSET Rx]
      /\ \A s \in SectorIds \ {z} : data'[s] = data[s]
      /\ data'[z] = data[z] \cup {r}
    BY <1>0, <1>1, <1>2 DEF MempoolTypeOK
<1>5. key \in WeightKeys
    BY <1>0 DEF MempoolTypeOK, WeightKeys
<1>6. MempoolTypeOK'
  <2>1. ASSUME NEW s \in SectorIds
        PROVE  /\ DOMAIN weights'[s] \subseteq WeightKeys
               /\ \A k \in DOMAIN weights'[s] : weights'[s][k] \in Rx
      BY <1>0, <1>3, <1>5 DEF MempoolTypeOK
  <2> QED BY <1>0, <1>2, <1>3, <1>4, <2>1 DEF MempoolTypeOK, WeightKeys
<1>7. WeightIndexSound'
  <2>1. ASSUME NEW s \in SectorIds, NEW k \in DOMAIN weights'[s]
        PROVE  weights'[s][k] \in data'[s] /\ k[1] = Energy(weights'[s][k])
      BY <1>0, <1>3, <1>4 DEF WeightIndexSound
  <2>2. ASSUME NEW s \in SectorIds, NEW k \in DOMAIN weights'[s], NEW l \in DOMAIN weights'[s],
               weights'[s][k] = weights'[s][l]
        PROVE  k = l
      BY <1>0, <1>2, <1>3, <2>2 DEF WeightIndexSound
  <2> QED BY <2>1, <2>2 DEF WeightIndexSound
<1>8. CapacityBound' /\ Finite'
  <2>1. Cardinality(data[z]) < Capacity
      BY <1>0, <1>1, FS_CardinalityType DEF Push, Full, CapacityBound, Finite
  <2>2. IsFiniteSet(data'[z]) /\ Cardinality(data'[z]) = Cardinality(data[z]) + 1
      BY <1>1, <1>2, <1>4, FS_AddElement DEF Finite
  <2>3. Cardinality(data'[z]) <= Capacity
      BY <2>1, <2>2, <1>1, FS_CardinalityType DEF Finite
  <2>4. IsFiniteSet(DOMAIN weights'[z])
    <3>1. DOMAIN weights'[z] = DOMAIN weights[z] \cup {key}
        BY <1>3
    <3> HIDE DEF key
    <3> QED BY <1>1, <3>1, FS_AddElement DEF Finite
  <2> QED BY <1>0, <1>3, <1>4, <2>2, <2>3, <2>4 DEF CapacityBound, Finite
<1> QED BY <1>6, <1>7, <1>8 DEF MempoolInv

(* A drain removes the same reactions from both trees.  What it leaves in  *)
(* the weight tree is still in the data tree, because a reaction with a    *)
(* drained entry has no other one.                                         *)
LEMMA DrainKeeps ==
    ASSUME MempoolInv, Finite, MineBatch
    PROVE  MempoolInv' /\ Finite'
<1> USE MempoolAssumption
<1>0. MempoolTypeOK /\ WeightIndexSound /\ CapacityBound
    BY DEF MempoolInv
<1> DEFINE gone(s) == FirstKeys(weights[s], Quota(s))
<1>1. ASSUME NEW s \in SectorIds
      PROVE  /\ data'[s] \subseteq data[s]
             /\ \A r \in data[s] : (\A k \in gone(s) : weights[s][k] # r) => r \in data'[s]
             /\ gone(s) \subseteq DOMAIN weights[s]
             /\ DOMAIN weights'[s] = DOMAIN weights[s] \ gone(s)
             /\ \A k \in DOMAIN weights'[s] : weights'[s][k] = weights[s][k]
    BY DEF MineBatch, Drained, Rest, FirstKeys
<1> HIDE DEF gone
<1>2. DOMAIN data' = SectorIds /\ DOMAIN weights' = SectorIds
    BY DEF MineBatch
<1>3. drift' \in SectorIds /\ clock' = clock
    BY <1>0 DEF MineBatch, NextDrift, SectorIds, MempoolTypeOK
<1>4. MempoolTypeOK'
  <2>1. data' \in [SectorIds -> SUBSET Rx]
    <3>1. data' = [s \in SectorIds |-> data[s] \ Drained(s, Quota(s))]
        BY DEF MineBatch
    <3> QED BY <3>1, <1>0 DEF MempoolTypeOK
  <2>2. ASSUME NEW s \in SectorIds
        PROVE  /\ DOMAIN weights'[s] \subseteq WeightKeys
               /\ \A k \in DOMAIN weights'[s] : weights'[s][k] \in Rx
      BY <1>0, <1>1 DEF MempoolTypeOK
  <2> QED BY <1>0, <1>2, <1>3, <2>1, <2>2 DEF MempoolTypeOK, WeightKeys
<1>5. WeightIndexSound'
  <2>1. ASSUME NEW s \in SectorIds, NEW k \in DOMAIN weights'[s]
        PROVE  weights'[s][k] \in data'[s] /\ k[1] = Energy(weights'[s][k])
    <3>1. k \in DOMAIN weights[s] \ gone(s) /\ weights'[s][k] = weights[s][k]
        BY <1>1
    <3>2. weights[s][k] \in data[s] /\ k[1] = Energy(weights[s][k])
        BY <1>0, <3>1 DEF WeightIndexSound
    <3>3. \A l \in gone(s) : weights[s][l] # weights[s][k]
        BY <1>0, <1>1, <3>1 DEF WeightIndexSound
    <3> QED BY <1>1, <3>1, <3>2, <3>3
  <2>2. ASSUME NEW s \in SectorIds, NEW k \in DOMAIN weights'[s], NEW l \in DOMAIN weights'[s],
               weights'[s][k] = weights'[s][l]
        PROVE  k = l
      BY <1>0, <1>1, <2>2 DEF WeightIndexSound
  <2> QED BY <2>1, <2>2 DEF WeightIndexSound
<1>6. CapacityBound' /\ Finite'
  <2>1. ASSUME NEW s \in SectorIds
        PROVE  /\ IsFiniteSet(data'[s]) /\ Cardinality(data'[s]) <= Capacity
               /\ IsFiniteSet(DOMAIN weights'[s])
    <3>1. IsFiniteSet(data'[s]) /\ Cardinality(data'[s]) <= Cardinality(data[s])
        BY <1>1, FS_Subset DEF Finite
    <3>2. Cardinality(data[s]) \in Nat /\ Cardinality(data'[s]) \in Nat
        BY <3>1, FS_CardinalityType DEF Finite
    <3>3. IsFiniteSet(DOMAIN weights'[s])
        BY <1>1, FS_Subset DEF Finite
    <3> QED BY <1>0, <3>1, <3>2, <3>3 DEF CapacityBound
  <2> QED BY <2>1 DEF CapacityBound, Finite
<1> QED BY <1>4, <1>5, <1>6 DEF MempoolInv

LEMMA MempoolStep ==
    ASSUME MempoolInv, Finite, [MempoolNext]_mempoolVars
    PROVE  MempoolInv' /\ Finite'
<1>1. ASSUME NEW r \in Rx, Push(r) PROVE MempoolInv' /\ Finite'
    BY <1>1, PushKeeps
<1>2. CASE MineBatch
    BY <1>2, DrainKeeps
<1>3. CASE Tick
    BY <1>3, MempoolAssumption DEF Tick, MempoolInv, MempoolTypeOK, WeightIndexSound,
        CapacityBound, Finite, WeightKeys
<1>4. CASE UNCHANGED mempoolVars
    BY <1>4 DEF mempoolVars, MempoolInv, MempoolTypeOK, WeightIndexSound, CapacityBound,
        Finite, WeightKeys
<1> QED BY <1>1, <1>2, <1>3, <1>4 DEF MempoolNext

-----------------------------------------------------------------------------
(* The first n keys of a finite weight tree carry at least the energy of   *)
(* the others: whatever precedes the dearer of two keys precedes the       *)
(* cheaper one too, and so does the dearer key itself.                     *)
LEMMA FirstKeysAreDearest ==
    ASSUME NEW w, NEW n \in Int, IsFiniteSet(DOMAIN w),
           \A k \in DOMAIN w : k[1] \in Nat /\ k[2] \in Nat,
           NEW l \in FirstKeys(w, n), NEW k \in DOMAIN w \ FirstKeys(w, n)
    PROVE  k[1] <= l[1]
<1> DEFINE Ahead(m) == {j \in DOMAIN w : Before(j, m)}
<1>1. l \in DOMAIN w /\ Cardinality(Ahead(l)) < n /\ ~(Cardinality(Ahead(k)) < n)
    BY DEF FirstKeys
<1>2. /\ IsFiniteSet(Ahead(k)) /\ IsFiniteSet(Ahead(l))
      /\ Cardinality(Ahead(k)) \in Nat /\ Cardinality(Ahead(l)) \in Nat
  <2>1. Ahead(k) \subseteq DOMAIN w /\ Ahead(l) \subseteq DOMAIN w
      OBVIOUS
  <2> QED BY <2>1, FS_Subset, FS_CardinalityType
<1>3. ASSUME k[1] > l[1] PROVE FALSE
  <2>1. Ahead(k) \subseteq Ahead(l)
      BY <1>1, <1>3 DEF Before
  <2>2. Cardinality(Ahead(k)) <= Cardinality(Ahead(l))
      BY <2>1, <1>2, FS_Subset
  <2> QED BY <2>2, <1>1, <1>2
<1> QED BY <1>1, <1>3

(* A block never passes over a reaction for a cheaper one of its sector.   *)
THEOREM DrainOrder == MempoolSpec => DrainTakesBest
<1>1. ASSUME MempoolInv, Finite, MineBatch, NEW s \in SectorIds,
             NEW k \in DOMAIN weights'[s], NEW l \in DOMAIN weights[s] \ DOMAIN weights'[s]
      PROVE  k[1] <= l[1]
  <2> DEFINE w == weights[s]
             n == Quota(s)
  <2>1. DOMAIN weights'[s] = DOMAIN w \ FirstKeys(w, n)
      BY <1>1 DEF MineBatch, Rest
  <2>2. IsFiniteSet(DOMAIN w) /\ \A j \in DOMAIN w : j[1] \in Nat /\ j[2] \in Nat
      BY <1>1, MempoolAssumption DEF Finite, MempoolInv, MempoolTypeOK, WeightKeys
  <2>3. n \in Int
    <3>1. FirstKeys(weights[drift], Limit) \subseteq DOMAIN weights[drift] /\ drift \in SectorIds
        BY <1>1 DEF FirstKeys, MempoolInv, MempoolTypeOK
    <3>2. Cardinality(FirstKeys(weights[drift], Limit)) \in Nat
        BY <1>1, <3>1, FS_Subset, FS_CardinalityType DEF Finite
    <3> QED BY <3>2, MempoolAssumption DEF Quota
  <2>4. l \in FirstKeys(w, n) /\ k \in DOMAIN w \ FirstKeys(w, n)
      BY <2>1
  <2> HIDE DEF w, n
  <2> QED BY <2>2, <2>3, <2>4, FirstKeysAreDearest
<1>2. MempoolInv /\ Finite /\ [MempoolNext]_mempoolVars
          => [MineBatch => \A s \in SectorIds :
                 \A k \in DOMAIN weights'[s], l \in DOMAIN weights[s] \ DOMAIN weights'[s] :
                     k[1] <= l[1]]_mempoolVars
    BY <1>1
<1>3. MempoolInit => MempoolInv /\ Finite
    BY InitialMempool
<1>4. MempoolInv /\ Finite /\ [MempoolNext]_mempoolVars => (MempoolInv /\ Finite)'
    BY MempoolStep
<1> QED BY <1>2, <1>3, <1>4, PTL DEF MempoolSpec, DrainTakesBest

(* drain_resonant never meets an entry whose reaction is gone, and no      *)
(* sector exceeds its capacity, for any number of sectors and reactions.   *)
THEOREM MempoolCorrect == MempoolSpec => []MempoolInv
<1>1. MempoolInit => MempoolInv /\ Finite
    BY InitialMempool
<1>2. MempoolInv /\ Finite /\ [MempoolNext]_mempoolVars => (MempoolInv /\ Finite)'
    BY MempoolStep
<1> QED BY <1>1, <1>2, PTL DEF MempoolSpec

=============================================================================
