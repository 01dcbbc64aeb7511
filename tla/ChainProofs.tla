---------------------------- MODULE ChainProofs -----------------------------
(***************************************************************************)
(* Proofs about modules Solidification and Durability, for every value of  *)
(* their constants.  The first part is about the node that does not crash: *)
(* what rolling back does as an operation on ledger states and tables of   *)
(* undo logs, lifted to the node.  The second part is about what any crash *)
(* leaves in the database, and what the node started from it does, however *)
(* often it crashes.                                                       *)
(***************************************************************************)
EXTENDS Durability, WellFoundedInduction, TLAPS


(* The types of the tables, as conditions on a value. *)
UndoTable(un) ==
    DOMAIN un \subseteq Heights /\ \A h \in DOMAIN un : un[h] \in PreImages
AtomTable(hi) ==
    DOMAIN hi \subseteq Heights /\ \A h \in DOMAIN hi : hi[h] \in Atoms
CrystalTable(cr) ==
    /\ DOMAIN cr \subseteq Heights
    /\ \A h \in DOMAIN cr : IsCrystal(cr[h]) /\ cr[h].index = h

-----------------------------------------------------------------------------
(* Lemmas about the helpers *)

LEMMA HeightsAreNaturals == Heights \subseteq Nat /\ 0 \in Heights
  BY ConstantsAssumption DEF Heights

(* A non-empty set of heights has a least element, and Min returns it. *)
LEMMA MinOfHeights ==
    ASSUME NEW S \in SUBSET Heights, S # {}
    PROVE  Min(S) \in S /\ \A y \in S : Min(S) <= y
<1>1. S \subseteq Nat
  BY HeightsAreNaturals
<1> DEFINE R == {ss \in Nat \X Nat : ss[1] < ss[2]}
<1>a. IsWellFoundedOn(R, Nat)
  BY NatLessThanWellFounded DEF OpToRel
<1> HIDE DEF R
<1>2. PICK x \in S : \A y \in S : ~ (<<y, x>> \in R)
  BY <1>1, <1>a, WFMin
<1>3. \A y \in S : x <= y
  <2> SUFFICES ASSUME NEW y \in S PROVE x <= y
    OBVIOUS
  <2>1. <<y, x>> \in Nat \X Nat
    BY <1>1
  <2>2. ~ (y < x)
    BY <1>2, <2>1 DEF R
  <2>3. QED
    BY <1>1, <2>2
<1>4. QED
  BY <1>1, <1>3 DEF Min

(* If every element of a set of heights that S lacks is above some element *)
(* of S, the two sets have the same least element.                         *)
LEMMA SameMin ==
    ASSUME NEW S \in SUBSET Heights, S # {}, NEW T \in SUBSET Heights,
           S \subseteq T, \A y \in T \ S : \E x \in S : x <= y
    PROVE  Min(T) = Min(S)
<1>1. Min(S) \in S /\ \A y \in S : Min(S) <= y
  BY MinOfHeights
<1>2. Min(T) \in T /\ \A y \in T : Min(T) <= y
  BY MinOfHeights
<1>3. Min(S) <= Min(T)
  <2>1. CASE Min(T) \in S
    BY <1>1, <2>1
  <2>2. CASE Min(T) \notin S
    <3>1. PICK x \in S : x <= Min(T)
      BY <1>2, <2>2
    <3>2. Min(S) <= x /\ Min(S) \in Nat /\ x \in Nat /\ Min(T) \in Nat
      BY <1>1, <1>2, HeightsAreNaturals
    <3>3. QED
      BY <3>1, <3>2
  <2>3. QED
    BY <2>1, <2>2
<1>4. Min(T) <= Min(S) /\ Min(S) \in Nat /\ Min(T) \in Nat
  BY <1>1, <1>2, HeightsAreNaturals
<1>5. QED
  BY <1>3, <1>4

LEMMA OverrideType ==
    ASSUME NEW at \in Atoms, NEW cs \in Changesets
    PROVE  Override(at, cs) \in Atoms
  BY DEF Override, Atoms, Changesets

LEMMA PreImageType ==
    ASSUME NEW at \in Atoms, NEW cs \in Changesets
    PROVE  PreImageOf(at, cs) \in PreImages
  BY DEF PreImageOf, Atoms, Changesets, PreImages

LEMMA RewoundType ==
    ASSUME NEW at \in Atoms, NEW un, UndoTable(un),
           NEW a \in Heights, NEW top \in Heights
    PROVE  Rewound(at, un, a, top) \in Atoms
<1> SUFFICES ASSUME NEW k \in Keys
             PROVE  Rewound(at, un, a, top)[k] \in Values \cup {Absent}
  BY DEF Rewound, Atoms
<1> DEFINE S == Restoring(un, a, top, k)
<1>1. CASE S = {}
  BY <1>1 DEF Rewound, Atoms
<1>2. CASE S # {}
  <2>1. Min(S) \in S
    BY <1>2, MinOfHeights DEF Restoring, UndoTable
  <2>2. un[Min(S)] \in PreImages /\ k \in DOMAIN un[Min(S)]
    BY <2>1 DEF Restoring, UndoTable
  <2>3. un[Min(S)][k] \in Values \cup {Absent}
    BY <2>2 DEF PreImages
  <2>4. QED
    BY <1>2, <2>3 DEF Rewound
<1>3. QED
  BY <1>1, <1>2

(* Rewinding from top to a and then, with the undo logs up to a unchanged, *)
(* from a to b is rewinding from top to b.                                 *)
LEMMA RewindComposes ==
    ASSUME NEW at \in Atoms, NEW un, UndoTable(un), NEW cut, UndoTable(cut),
           NEW b \in Heights, NEW a \in Heights, NEW top \in Heights,
           b <= a, a <= top,
           \A h \in Heights : b < h /\ h <= a =>
               (h \in DOMAIN cut <=> h \in DOMAIN un) /\ cut[h] = un[h]
    PROVE  Rewound(Rewound(at, un, a, top), cut, b, a) = Rewound(at, un, b, top)
<1> SUFFICES ASSUME NEW k \in Keys
             PROVE  Rewound(Rewound(at, un, a, top), cut, b, a)[k]
                        = Rewound(at, un, b, top)[k]
  BY DEF Rewound
<1> DEFINE low  == Restoring(cut, b, a, k)
           high == Restoring(un, a, top, k)
           all  == Restoring(un, b, top, k)
<1>1. low \subseteq Heights /\ high \subseteq Heights /\ all \subseteq Heights
  BY DEF Restoring, UndoTable
<1>2. \A h \in Heights : h \in low <=> h <= a /\ h \in all
  BY HeightsAreNaturals DEF Restoring
<1>3. \A h \in Heights : h \in high <=> a < h /\ h \in all
  BY HeightsAreNaturals DEF Restoring
<1>4. CASE low = {}
  <2>1. all = high
    <3> HIDE DEF low, high, all
    <3>1. \A h \in Heights : h <= a \/ a < h
      BY HeightsAreNaturals
    <3>2. QED
      BY <1>1, <1>2, <1>3, <1>4, <3>1
  <2>2. Rewound(Rewound(at, un, a, top), cut, b, a)[k] = Rewound(at, un, a, top)[k]
    BY <1>4 DEF Rewound
  <2>3. QED
    BY <2>1, <2>2 DEF Rewound
<1>5. CASE low # {}
  <2>1. Min(all) = Min(low)
    <3> HIDE DEF low, high, all
    <3>1. low \subseteq all
      BY <1>1, <1>2
    <3>2. \A y \in all \ low : \E x \in low : x <= y
      <4>1. \A y \in all \ low : a < y
        BY <1>1, <1>2, HeightsAreNaturals
      <4>2. \A x \in low : x <= a
        BY <1>1, <1>2
      <4>3. \A x \in low, y \in all \ low : x <= y
        BY <1>1, <4>1, <4>2, HeightsAreNaturals
      <4>4. QED
        BY <1>5, <4>3
    <3>3. QED
      BY <1>1, <1>5, <3>1, <3>2, SameMin
  <2>2. Min(low) \in low
    BY <1>1, <1>5, MinOfHeights
  <2>3. cut[Min(low)] = un[Min(low)]
    BY <1>1, <2>2 DEF Restoring
  <2>4. all # {}
    BY <1>1, <1>2, <1>5
  <2>5. QED
    BY <1>5, <2>1, <2>3, <2>4 DEF Rewound
<1>6. QED
  BY <1>4, <1>5

(* Solidifying one crystal at height j = top + 1 records undo information  *)
(* that takes the new state back exactly as far as the old one went.       *)
LEMMA SolidifyExtends ==
    ASSUME NEW at \in Atoms, NEW cs \in Changesets,
           NEW un, UndoTable(un), NEW new, UndoTable(new),
           NEW b \in Heights, NEW top \in Heights, NEW j \in Heights,
           b <= top, j = top + 1,
           j \in DOMAIN new, new[j] = PreImageOf(at, cs),
           \A h \in Heights : b < h /\ h <= top =>
               (h \in DOMAIN new <=> h \in DOMAIN un) /\ new[h] = un[h]
    PROVE  Rewound(Override(at, cs), new, b, j) = Rewound(at, un, b, top)
<1> SUFFICES ASSUME NEW k \in Keys
             PROVE  Rewound(Override(at, cs), new, b, j)[k]
                        = Rewound(at, un, b, top)[k]
  BY DEF Rewound
<1> DEFINE old == Restoring(un, b, top, k)
           all == Restoring(new, b, j, k)
<1>1. k \in DOMAIN new[j] <=> k \in DOMAIN cs
  BY DEF PreImageOf
<1>2. old \subseteq Heights /\ all \subseteq Heights
  BY DEF Restoring, UndoTable
<1>3. \A h \in Heights : h <= j <=> h <= top \/ h = j
  BY HeightsAreNaturals
<1>4. \A h \in Heights : h \in old <=> h <= top /\ h \in all
  BY HeightsAreNaturals, <1>3 DEF Restoring
<1>5. j \in all <=> k \in DOMAIN cs
  BY HeightsAreNaturals, <1>1 DEF Restoring
<1>6. \A h \in all : h <= top \/ h = j
  BY <1>2, <1>3 DEF Restoring
<1>7. CASE old # {}
  <2>1. Min(all) = Min(old)
    <3> HIDE DEF old, all
    <3>1. old \subseteq all
      BY <1>2, <1>4
    <3>2. \A y \in all \ old : \E x \in old : x <= y
      <4>1. \A y \in all \ old : y = j
        BY <1>2, <1>4, <1>6
      <4>2. \A x \in old : x <= j
        BY <1>2, <1>3, <1>4
      <4>3. QED
        BY <1>7, <4>1, <4>2
    <3>3. QED
      BY <1>2, <1>7, <3>1, <3>2, SameMin
  <2>2. Min(old) \in old
    BY <1>2, <1>7, MinOfHeights
  <2>3. new[Min(old)] = un[Min(old)]
    BY <1>2, <2>2 DEF Restoring
  <2>4. all # {}
    BY <1>2, <1>4, <1>7
  <2>5. QED
    BY <1>7, <2>1, <2>3, <2>4 DEF Rewound
<1>8. CASE old = {} /\ k \in DOMAIN cs
  <2>1. all = {j}
    BY <1>2, <1>4, <1>5, <1>6, <1>8
  <2>2. Min(all) = j
    BY <2>1, MinOfHeights
  <2>3. new[j][k] = at[k]
    BY <1>8 DEF PreImageOf
  <2>4. QED
    BY <1>8, <2>1, <2>2, <2>3 DEF Rewound
<1>9. CASE old = {} /\ k \notin DOMAIN cs
  <2>1. all = {}
    BY <1>2, <1>4, <1>5, <1>6, <1>9
  <2>2. QED
    BY <1>9, <2>1 DEF Rewound, Override
<1>10. QED
  BY <1>7, <1>8, <1>9

-----------------------------------------------------------------------------
(* What finalize_solidification establishes, whatever it started from *)

LEMMA FinalizeTypes ==
    ASSUME TypeOK, NEW c, IsCrystal(c),
           NEW at \in Atoms, NEW da \in Atoms,
           NEW cr, CrystalTable(cr), NEW un, UndoTable(un),
           NEW hi, AtomTable(hi), NEW ch \in SUBSET AllReactions,
           FinalizeSolidification(c, at, da, cr, un, hi, ch),
           events' \subseteq Events
    PROVE  TypeOK' /\ IndexMatchesTip' /\ UndoWindowBound' /\ HasLatest'
<1> DEFINE cs == Execute(at, c.index, c.reactions)
<1>1. c.index \in Heights /\ cs \in Changesets
  BY ExecuteAssumption DEF IsCrystal, FinalizeSolidification, Executes
<1>2. Override(at, cs) \in Atoms /\ Override(da, cs) \in Atoms
  BY <1>1, OverrideType
<1>3. Override(dbRoot, cs) \in Atoms
  BY <1>1, OverrideType DEF TypeOK
<1>4. PreImageOf(at, cs) \in PreImages
  BY <1>1, PreImageType
<1> HIDE DEF cs
<1>5. /\ atoms' \in Atoms /\ idx' \in Heights /\ chamber' \subseteq AllReactions
      /\ dbAtoms' \in Atoms /\ dbRoot' \in Atoms
      /\ latest' = idx' /\ idx' = c.index /\ latest' \in Heights \cup {None}
  BY <1>1, <1>2, <1>3 DEF FinalizeSolidification, CommitChangeset, Calculated, cs
<1>6. AtomTable(roots')
  BY <1>1, <1>3 DEF FinalizeSolidification, CommitChangeset, Calculated, cs,
                    AtomTable, Put, TypeOK
<1>7. AtomTable(hist')
  BY <1>1, <1>2 DEF FinalizeSolidification, cs, AtomTable, Put
<1>8. UndoTable(undo') /\ \A h \in DOMAIN undo' : h + UNDO_WINDOW >= c.index
  BY <1>1, <1>4 DEF FinalizeSolidification, cs, UndoTable, Put, Prune
<1>9. CrystalTable(crystals') /\ c.index \in DOMAIN crystals'
  <2> DEFINE d == [c EXCEPT !.root = Override(dbRoot, cs)]
  <2>1. IsCrystal(d) /\ d.index = c.index
    BY <1>3 DEF IsCrystal, Roots
  <2>2. crystals' = Put(cr, c.index, d)
    BY DEF FinalizeSolidification, Calculated, cs
  <2> HIDE DEF d
  <2>3. QED
    BY <1>1, <2>1, <2>2 DEF CrystalTable, Put
<1>10. QED
  BY <1>5, <1>6, <1>7, <1>8, <1>9
     DEF TypeOK, AtomTable, UndoTable, CrystalTable, IndexMatchesTip,
         UndoWindowBound, HasLatest

(* The state a crystal is solidified on: height top, atoms at, and tables  *)
(* that stop at top, remember the atoms of every stored height and of      *)
(* height 0, and rewind to them wherever the undo logs are complete.       *)
Complete(un, b, top) == \A h \in Heights : b < h /\ h <= top => h \in DOMAIN un

Base(at, cr, un, hi, top) ==
    /\ top \in Heights /\ at \in Atoms
    /\ CrystalTable(cr) /\ UndoTable(un) /\ AtomTable(hi)
    /\ \A h \in DOMAIN un \cup DOMAIN hi : h <= top
    /\ top \in DOMAIN hi /\ hi[top] = at
    /\ {0} \cup DOMAIN cr \subseteq DOMAIN hi
    /\ \A b \in DOMAIN hi : Complete(un, b, top) => Rewound(at, un, b, top) = hi[b]

(* The invariant is: no reorg has failed and the node is a base at its     *)
(* tip, or a reorg has failed and only the first three conjuncts are left. *)
LEMMA ChainInvIsBase ==
    ASSUME ChainInv, "reorg_failed" \notin events
    PROVE  Base(atoms, crystals, undo, hist, idx) /\ HasLatest /\ latest = idx
  BY DEF ChainInv, ChainShape, TypeOK, UndoRestoresHistory, CanRollBack, RollBack,
         Base, Complete, CrystalTable, UndoTable, AtomTable, IndexMatchesTip

LEMMA RewoundToTop ==
    ASSUME NEW at \in Atoms, NEW un, UndoTable(un), NEW top \in Heights
    PROVE  Rewound(at, un, top, top) = at
<1>1. \A h \in Heights : ~ (top < h /\ h <= top)
  BY HeightsAreNaturals
<1>2. \A k \in Keys : Restoring(un, top, top, k) = {}
  BY <1>1 DEF Restoring, UndoTable
<1>3. Rewound(at, un, top, top) = [k \in Keys |-> at[k]]
  BY <1>2 DEF Rewound
<1>4. QED
  BY <1>3 DEF Atoms

(* finalize_solidification of a crystal above a base (or of a replacement  *)
(* for the first crystal) leaves the node with the invariant.              *)
LEMMA FinalizeChains ==
    ASSUME TypeOK, NEW c, IsCrystal(c), NEW at, NEW da \in Atoms, NEW cr,
           NEW un, NEW hi, NEW ch \in SUBSET AllReactions, NEW top,
           Base(at, cr, un, hi, top),
           c.index > top \/ (c.index = 0 /\ top = 0),
           FinalizeSolidification(c, at, da, cr, un, hi, ch),
           events' \subseteq Events
    PROVE  ChainInv'
<1> DEFINE cs == Execute(at, c.index, c.reactions)
           j == c.index
<1>1. j \in Heights /\ cs \in Changesets
  BY ExecuteAssumption DEF Base, IsCrystal, FinalizeSolidification, Executes
<1>2. TypeOK' /\ IndexMatchesTip' /\ UndoWindowBound' /\ HasLatest'
  BY FinalizeTypes DEF Base
<1>3. /\ atoms' = Override(at, cs) /\ idx' = j
      /\ undo' = Prune(Put(un, j, PreImageOf(at, cs)), j)
      /\ hist' = Put(hi, j, Override(at, cs))
      /\ DOMAIN crystals' = DOMAIN cr \cup {j}
  BY DEF FinalizeSolidification, Put
<1> HIDE DEF cs
<1> USE HeightsAreNaturals
<1>4. /\ top \in Nat /\ j \in Nat /\ top <= j
      /\ \A h \in Heights : h # j /\ h <= top => top < j
  BY <1>1 DEF Base
<1>5. ChainShape'
  <2>1. \A h \in DOMAIN undo' \cup DOMAIN hist' : h <= j
    BY <1>1, <1>3, <1>4 DEF Base, Put, Prune, UndoTable, AtomTable
  <2>2. j \in DOMAIN hist' /\ hist'[j] = atoms'
    BY <1>3 DEF Put
  <2>3. {0} \cup DOMAIN crystals' \subseteq DOMAIN hist'
    BY <1>3 DEF Base, Put
  <2>4. QED
    BY <1>2, <1>3, <2>1, <2>2, <2>3 DEF ChainShape
<1>6. ASSUME NEW a \in DOMAIN hist', a <= j, Complete(undo', a, j)
      PROVE  Rewound(atoms', undo', a, j) = hist'[a]
  <2>1. UndoTable(undo') /\ atoms' \in Atoms /\ a \in Heights
    BY <1>1, <1>2 DEF TypeOK, UndoTable
  <2>2. CASE a = j
    BY <1>1, <1>3, <2>1, <2>2, RewoundToTop DEF Put
  <2>3. CASE a # j
    <3>1. a \in DOMAIN hi /\ a <= top /\ hist'[a] = hi[a]
      BY <1>3, <2>3 DEF Put, Base
    <3>2. \A h \in Heights : a < h /\ h <= j => h \in DOMAIN undo'
      BY <1>6 DEF Complete
    <3>a. a \in Nat
      BY <2>1
    <3>b. a < j
      BY <1>4, <1>6, <2>3, <3>a
    <3>3. top < j
      BY <1>4, <2>1, <2>3, <3>1
    <3>4. j = top + 1
      <4>1. top + 1 \in Heights
        BY <1>1, <1>4, <3>3, ConstantsAssumption DEF Heights
      <4>2. CASE top + 1 < j
        <5>1. top + 1 \in DOMAIN undo'
          BY <1>4, <3>1, <3>2, <3>a, <4>1, <4>2
        <5>2. top + 1 \in DOMAIN un
          BY <1>3, <1>4, <4>2, <5>1 DEF Prune, Put
        <5>3. QED
          BY <1>4, <5>2 DEF Base
      <4>3. QED
        BY <1>4, <3>3, <4>2
    <3>5. j \in DOMAIN undo'
      BY <1>1, <1>4, <3>2, <3>b
    <3>6. undo'[j] = PreImageOf(at, cs)
      BY <1>3, <3>5 DEF Prune, Put
    <3>7. \A h \in Heights : a < h /\ h <= top => h \in DOMAIN undo'
      BY <1>4, <1>6, <3>3 DEF Complete
    <3>8. \A h \in DOMAIN undo' : h # j => h \in DOMAIN un /\ undo'[h] = un[h]
      BY <1>3 DEF Prune, Put
    <3>9. \A h \in Heights : a < h /\ h <= top =>
              (h \in DOMAIN undo' <=> h \in DOMAIN un) /\ undo'[h] = un[h]
      BY <1>4, <3>3, <3>7, <3>8
    <3>10. Rewound(Override(at, cs), undo', a, j) = Rewound(at, un, a, top)
      BY <1>1, <2>1, <3>1, <3>4, <3>5, <3>6, <3>9, SolidifyExtends DEF Base
    <3>11. Complete(un, a, top)
      BY <3>7, <3>9 DEF Complete
    <3>12. QED
      BY <1>3, <3>1, <3>10, <3>11 DEF Base
  <2>4. QED
    BY <2>2, <2>3
<1>7. UndoRestoresHistory'
  BY <1>3, <1>6 DEF UndoRestoresHistory, CanRollBack, RollBack, Complete
<1>8. QED
  BY <1>2, <1>5, <1>7 DEF ChainInv

-----------------------------------------------------------------------------
(* Steps 3 and 4 of perform_reorg *)

(* The ancestor perform_reorg finds is not above the tip, and it is below  *)
(* the fork's crystal unless that crystal replaces the first one.          *)
LEMMA AncestorBelowTip ==
    ASSUME TypeOK, IndexMatchesTip, NEW c, IsCrystal(c), NEW a \in Heights,
           ReorgAllowed(c, a)
    PROVE  /\ HasLatest /\ a <= idx /\ latest = idx
           /\ c.index > a \/ (c.index = 0 /\ a = 0 /\ idx = 0)
<1> USE HeightsAreNaturals
<1>1. HasLatest /\ latest = idx /\ LatestCrystal.index = idx /\ idx \in Nat
  BY DEF ReorgAllowed, TriggersReorg, IndexMatchesTip, TypeOK, HasLatest,
         LatestCrystal
<1>2. c.index \in Nat /\ a \in Nat /\ (c.index = idx + 1 \/ c.index = idx)
  BY <1>1 DEF IsCrystal, ReorgAllowed, TriggersReorg
<1>3. IsParent(c, a) \/ a = 0
  BY DEF ReorgAllowed, CommonAncestor
<1>4. QED
  BY <1>1, <1>2, <1>3 DEF IsParent

(* As long as no reorg has failed, it is a height of the local chain. *)
LEMMA AncestorOnChain ==
    ASSUME ChainInv, NEW c, IsCrystal(c), NEW a \in Heights, ReorgAllowed(c, a)
    PROVE  /\ a <= idx /\ latest = idx
           /\ c.index > a \/ (c.index = 0 /\ a = 0 /\ idx = 0)
           /\ "reorg_failed" \notin events => a \in DOMAIN hist
<1>1. /\ a <= idx /\ latest = idx
      /\ c.index > a \/ (c.index = 0 /\ a = 0 /\ idx = 0)
  BY AncestorBelowTip DEF ChainInv
<1>2. IsParent(c, a) \/ a = 0
  BY DEF ReorgAllowed, CommonAncestor
<1>3. "reorg_failed" \notin events => a \in DOMAIN hist
  BY <1>2 DEF IsParent, ChainInv, ChainShape
<1>4. QED
  BY <1>1, <1>3

(* Rolled back to an ancestor of the chain, the node is a base there. *)
LEMMA RollBackIsBase ==
    ASSUME Base(atoms, crystals, undo, hist, idx), NEW a \in DOMAIN hist,
           a <= idx, CanRollBack(a)
    PROVE  Base(RollBack(atoms, a), Cut(crystals, a), Cut(undo, a), Cut(hist, a), a)
<1> USE HeightsAreNaturals
<1>1. a \in Heights /\ idx \in Heights
  BY DEF Base, AtomTable
<1>2. Complete(undo, a, idx)
  BY DEF CanRollBack, Complete
<1>3. RollBack(atoms, a) = hist[a] /\ hist[a] \in Atoms
  BY <1>2 DEF Base, RollBack, AtomTable
<1>4. CrystalTable(Cut(crystals, a))
  BY DEF Base, CrystalTable, Cut
<1>5. UndoTable(Cut(undo, a)) /\ AtomTable(Cut(hist, a))
  BY DEF Base, UndoTable, AtomTable, Cut
<1>6. \A h \in DOMAIN undo \cup DOMAIN hist \cup DOMAIN crystals : h \in Nat /\ h <= idx
  BY DEF Base, UndoTable, AtomTable
<1>7. /\ DOMAIN Cut(undo, a) = {h \in DOMAIN undo : h <= a}
      /\ DOMAIN Cut(hist, a) = {h \in DOMAIN hist : h <= a}
      /\ DOMAIN Cut(crystals, a) = {h \in DOMAIN crystals : h <= a}
  BY <1>1, <1>6 DEF Cut
<1>8. /\ \A h \in DOMAIN Cut(undo, a) : Cut(undo, a)[h] = undo[h]
      /\ \A h \in DOMAIN Cut(hist, a) : Cut(hist, a)[h] = hist[h]
  BY DEF Cut
<1>9. ASSUME NEW b \in DOMAIN Cut(hist, a), Complete(Cut(undo, a), b, a)
      PROVE  Rewound(RollBack(atoms, a), Cut(undo, a), b, a) = Cut(hist, a)[b]
  <2>1. b \in DOMAIN hist /\ b \in Heights /\ b <= a /\ Cut(hist, a)[b] = hist[b]
    BY <1>5, <1>7, <1>8 DEF AtomTable
  <2>2. Complete(undo, b, idx)
    <3> SUFFICES ASSUME NEW h \in Heights, b < h, h <= idx PROVE h \in DOMAIN undo
      BY DEF Complete
    <3>1. CASE h <= a
      BY <1>7, <1>9, <3>1 DEF Complete
    <3>2. CASE a < h
      BY <1>2, <3>2 DEF Complete
    <3>3. h \in Nat /\ a \in Nat
      BY <1>1
    <3>4. h <= a \/ a < h
      BY <3>3
    <3>5. QED
      BY <3>1, <3>2, <3>4
  <2> DEFINE cut == Cut(undo, a)
  <2>3. \A h \in Heights : b < h /\ h <= a =>
            h \in DOMAIN cut /\ h \in DOMAIN undo /\ cut[h] = undo[h]
    BY <1>7, <1>8, <1>9 DEF Complete
  <2>4. Rewound(RollBack(atoms, a), cut, b, a) = Rewound(atoms, undo, b, idx)
    BY <1>1, <1>5, <2>1, <2>3, RewindComposes DEF Base, RollBack
  <2>5. QED
    BY <2>1, <2>2, <2>4 DEF Base
<1>10. QED
  BY <1>1, <1>3, <1>4, <1>5, <1>7, <1>8, <1>9 DEF Base
-----------------------------------------------------------------------------
(* The crystals the actions work on *)

LEMMA NextCrystalType ==
    ASSUME TypeOK, NEW R \in SUBSET AllReactions, NextCrystal(R).index \in Heights
    PROVE  /\ IsCrystal(NextCrystal(R))
           /\ HasLatest => NextCrystal(R).index = latest + 1
<1>1. HasLatest => IsCrystal(LatestCrystal) /\ LatestCrystal.index = latest
  BY DEF HasLatest, LatestCrystal, TypeOK
<1>2. QED
  BY <1>1 DEF NextCrystal, IsCrystal, Roots

LEMMA ConfirmedType ==
    ASSUME TypeOK, NEW rxs \in SUBSET Reactions, NEW cluster \in Clusters(chamber \cup rxs)
    PROVE  Confirmed(cluster) \in SUBSET AllReactions
  BY DEF Clusters, Confirmed, TypeOK, AllReactions

(* What mine_block does with the crystal it prepared. *)
LEMMA MinedCrystal ==
    ASSUME TypeOK, MineBlock
    PROVE  \E c : /\ IsCrystal(c)
                  /\ HasLatest => c.index = latest + 1
                  /\ \/ FinalizeSolidification(c, atoms, dbAtoms, crystals, undo, hist, {})
                     \/ chamber' = {} /\ UNCHANGED <<atoms, idx, disk, hist>>
                  /\ UNCHANGED events
<1> DEFINE Mined(c) ==
      /\ c.index \in Heights
      /\ \/ FinalizeSolidification(c, atoms, dbAtoms, crystals, undo, hist, {})
         \/ chamber' = {} /\ UNCHANGED <<atoms, idx, disk, hist>>
      /\ UNCHANGED events
<1>1. PICK rxs \in SUBSET Reactions :
        \E cluster \in Clusters(chamber \cup rxs) : Mined(NextCrystal(Confirmed(cluster)))
  BY DEF MineBlock
<1>2. PICK cluster \in Clusters(chamber \cup rxs) : Mined(NextCrystal(Confirmed(cluster)))
  BY <1>1
<1>3. Confirmed(cluster) \in SUBSET AllReactions
  BY ConfirmedType
<1>4. /\ IsCrystal(NextCrystal(Confirmed(cluster)))
      /\ HasLatest => NextCrystal(Confirmed(cluster)).index = latest + 1
  BY <1>2, <1>3, NextCrystalType
<1>5. QED
  BY <1>2, <1>4

(* A received crystal is well formed, whatever state root it claims. *)
LEMMA ClaimsType ==
    ASSUME TypeOK, NEW h \in Incoming, NEW at \in Atoms, NEW c \in Claims(h, at)
    PROVE  IsCrystal(h) /\ IsCrystal(c) /\ c.index = h.index
<1>1. h = [index |-> h.index, prev |-> h.prev, energy |-> h.energy,
           reactions |-> h.reactions, root |-> h.root]
  BY DEF Incoming
<1>2. /\ h.index \in Heights /\ h.energy \in Nat
      /\ h.reactions \subseteq AllReactions /\ h.root \in Roots
  BY ConstantsAssumption DEF Incoming, Roots
<1>3. Executes(h, at) => Calculated(h, at) \in Atoms
  BY <1>2, ExecuteAssumption, OverrideType DEF Executes, Calculated, TypeOK
<1>4. PICK r \in {ZeroRoot, WrongRoot} \cup
                  (IF Executes(h, at) THEN {Calculated(h, at)} ELSE {}) :
          c = [h EXCEPT !.root = r]
  BY DEF Claims
<1>5. r \in Roots
  BY <1>3, <1>4 DEF Roots
<1>6. c = [index |-> h.index, prev |-> h.prev, energy |-> h.energy,
           reactions |-> h.reactions, root |-> r]
  BY <1>1, <1>4
<1>7. QED
  BY <1>1, <1>2, <1>5, <1>6 DEF IsCrystal

(* A refused crystal disturbs nothing but the database. *)
LEMMA MismatchTypes ==
    ASSUME TypeOK, NEW c, IsCrystal(c), NEW at \in Atoms, NEW da \in Atoms,
           FinalizeMismatch(c, at, da)
    PROVE  dbAtoms' \in Atoms /\ dbRoot' \in Atoms /\ AtomTable(roots')
<1> DEFINE cs == Execute(at, c.index, c.reactions)
<1>1. c.index \in Heights /\ cs \in Changesets
  BY ExecuteAssumption DEF IsCrystal, FinalizeMismatch, Executes
<1>2. Override(da, cs) \in Atoms /\ Override(dbRoot, cs) \in Atoms
  BY <1>1, OverrideType DEF TypeOK
<1>3. dbAtoms' \in Atoms /\ dbRoot' \in Atoms
  BY <1>2 DEF FinalizeMismatch, CommitChangeset, Calculated
<1> HIDE DEF cs
<1>4. AtomTable(roots')
  BY <1>1, <1>2 DEF FinalizeMismatch, CommitChangeset, Calculated, cs, AtomTable, Put,
                    TypeOK
<1>5. QED
  BY <1>3, <1>4

(* Neither does one refused after a rollback break what a failed reorg     *)
(* still promises.                                                         *)
LEMMA RewindKeeps ==
    ASSUME ChainInv, NEW c, IsCrystal(c), NEW a \in Heights, ReorgAllowed(c, a),
           Rewind(a), dbAtoms' \in Atoms, dbRoot' \in Atoms, AtomTable(roots'),
           events' \subseteq Events, "reorg_failed" \in events'
    PROVE  ChainInv'
<1> USE HeightsAreNaturals
<1>1. a <= idx /\ latest = idx /\ idx \in Heights
  BY AncestorOnChain DEF ChainInv, TypeOK
<1>2. atoms' \in Atoms
  BY RewoundType DEF Rewind, RollBack, ChainInv, TypeOK, UndoTable
<1>3. CrystalTable(crystals') /\ UndoTable(undo') /\ AtomTable(hist')
  BY DEF Rewind, Cut, ChainInv, TypeOK, CrystalTable, UndoTable, AtomTable
<1>4. TypeOK'
  BY <1>2, <1>3 DEF Rewind, ChainInv, TypeOK, CrystalTable, UndoTable, AtomTable
<1>5. IndexMatchesTip'
  <2>1. HasLatest' => latest <= a
    BY <1>1 DEF HasLatest, Rewind, Cut
  <2>2. QED
    BY <1>1, <2>1 DEF IndexMatchesTip, Rewind
<1>6. UndoWindowBound'
  <2>1. \A h \in DOMAIN undo' : h \in Heights /\ h + UNDO_WINDOW >= idx
    BY DEF Rewind, Cut, ChainInv, TypeOK, UndoWindowBound
  <2>2. \A h \in DOMAIN undo' : h \in Nat /\ h + UNDO_WINDOW >= a
    <3> SUFFICES ASSUME NEW h \in DOMAIN undo' PROVE h \in Nat /\ h + UNDO_WINDOW >= a
      OBVIOUS
    <3>1. h \in Nat /\ a \in Nat /\ idx \in Nat /\ UNDO_WINDOW \in Nat
      BY <1>1, <2>1, ConstantsAssumption
    <3>2. QED
      BY <1>1, <2>1, <3>1
  <2>3. QED
    BY <2>2 DEF UndoWindowBound, Rewind
<1>7. QED
  BY <1>4, <1>5, <1>6 DEF ChainInv, ChainShape, UndoRestoresHistory

-----------------------------------------------------------------------------
(* The invariant is inductive *)

LEMMA ChainInit == Init => ChainInv
<1> SUFFICES ASSUME Init PROVE ChainInv
  OBVIOUS
<1> USE HeightsAreNaturals DEF Init
<1>1. GenesisAtoms \in Atoms
  BY ConstantsAssumption DEF GenesisAtoms, Atoms
<1>2. IsCrystal(GenesisCrystal) /\ GenesisCrystal.index = 0
  BY <1>1 DEF GenesisCrystal, IsCrystal, Roots
<1>3. TypeOK
  BY <1>1, <1>2 DEF TypeOK
<1>4. IndexMatchesTip /\ UndoWindowBound /\ ChainShape
  BY DEF IndexMatchesTip, UndoWindowBound, ChainShape, HasLatest
<1>5. UndoRestoresHistory
  <2>1. Rewound(atoms, undo, 0, 0) = atoms
    BY <1>1, RewoundToTop DEF UndoTable
  <2>2. QED
    BY <2>1 DEF UndoRestoresHistory, RollBack
<1>6. QED
  BY <1>3, <1>4, <1>5 DEF ChainInv

LEMMA FinalizeOnTip ==
    ASSUME ChainInv, NEW c, IsCrystal(c), NEW ch \in SUBSET AllReactions,
           HasLatest => c.index = latest + 1,
           FinalizeSolidification(c, atoms, dbAtoms, crystals, undo, hist, ch),
           events' = events
    PROVE  ChainInv'
<1>1. TypeOK /\ events' \subseteq Events /\ atoms \in Atoms /\ dbAtoms \in Atoms
  BY DEF ChainInv, TypeOK
<1>2. CASE "reorg_failed" \in events
  <2>1. TypeOK' /\ IndexMatchesTip' /\ UndoWindowBound'
    BY <1>1, FinalizeTypes DEF TypeOK, CrystalTable, UndoTable, AtomTable
  <2>2. QED
    BY <1>2, <2>1 DEF ChainInv, ChainShape, UndoRestoresHistory
<1>3. CASE "reorg_failed" \notin events
  <2>1. Base(atoms, crystals, undo, hist, idx) /\ c.index = idx + 1
    BY <1>3, ChainInvIsBase
  <2>2. c.index > idx
    BY <2>1, HeightsAreNaturals DEF Base
  <2>3. QED
    BY <1>1, <2>1, <2>2, FinalizeChains
<1>4. QED
  BY <1>2, <1>3

LEMMA ChainStep == ChainInv /\ [Next]_vars => ChainInv'
<1> SUFFICES ASSUME ChainInv, [Next]_vars PROVE ChainInv'
  OBVIOUS
<1>t. TypeOK /\ events \subseteq Events
  BY DEF ChainInv, TypeOK
<1>1. CASE MineBlock
  <2>1. PICK c : /\ IsCrystal(c)
                 /\ HasLatest => c.index = latest + 1
                 /\ \/ FinalizeSolidification(c, atoms, dbAtoms, crystals, undo, hist, {})
                    \/ chamber' = {} /\ UNCHANGED <<atoms, idx, disk, hist>>
                 /\ UNCHANGED events
    BY <1>1, <1>t, MinedCrystal
  <2>2. CASE FinalizeSolidification(c, atoms, dbAtoms, crystals, undo, hist, {})
    BY <2>1, <2>2, FinalizeOnTip
  <2>3. CASE chamber' = {} /\ UNCHANGED <<atoms, idx, disk, hist>>
    BY <2>1, <2>3 DEF ChainInv, TypeOK, IndexMatchesTip, UndoWindowBound, ChainShape,
       UndoRestoresHistory, HasLatest, RollBack, CanRollBack, disk
  <2>4. QED
    BY <2>1, <2>2, <2>3
<1>2. CASE ProcessNetworkReaction
  <2>1. chamber' \subseteq AllReactions
    BY <1>2 DEF ProcessNetworkReaction, ChainInv, TypeOK, AllReactions
  <2>2. QED
    BY <1>2, <2>1 DEF ProcessNetworkReaction, ChainInv, TypeOK, IndexMatchesTip,
       UndoWindowBound, ChainShape, UndoRestoresHistory, HasLatest, RollBack,
       CanRollBack, disk
<1>3. ASSUME NEW h \in Incoming, NEW c \in Claims(h, atoms), ApplyOnTip(c),
             HasLatest => h.index = latest + 1
      PROVE  ChainInv'
  <2>1. IsCrystal(c) /\ (HasLatest => c.index = latest + 1)
    BY <1>3, <1>t, ClaimsType DEF TypeOK
  <2>2. CASE /\ FinalizeSolidification(c, atoms, dbAtoms, crystals, undo, hist, chamber)
             /\ UNCHANGED events
    BY <1>t, <2>1, <2>2, FinalizeOnTip DEF TypeOK
  <2>3. CASE /\ FinalizeMismatch(c, atoms, dbAtoms)
             /\ events' = events \cup {"mismatch"}
             /\ UNCHANGED <<memory, crystals, latest, undo, hist>>
    <3>1. dbAtoms' \in Atoms /\ dbRoot' \in Atoms /\ AtomTable(roots')
      BY <1>t, <2>1, <2>3, MismatchTypes DEF TypeOK
    <3>2. TypeOK'
      BY <1>t, <2>3, <3>1 DEF TypeOK, AtomTable, memory, Events
    <3>3. QED
      BY <2>3, <3>2 DEF ChainInv, IndexMatchesTip, UndoWindowBound, ChainShape,
         UndoRestoresHistory, HasLatest, RollBack, CanRollBack, memory
  <2>4. QED
    BY <1>3, <2>2, <2>3 DEF ApplyOnTip
<1>4. CASE AcceptChild
  <2>1. HasLatest => LatestCrystal.index = latest
    BY <1>t DEF TypeOK, HasLatest, LatestCrystal
  <2>2. QED
    BY <1>3, <1>4, <2>1 DEF AcceptChild
<1>5. CASE AcceptAsGenesis
  BY <1>3, <1>5 DEF AcceptAsGenesis
<1>6. ASSUME NEW h \in Incoming, NEW a \in Heights, ReorgAllowed(h, a)
      PROVE  /\ IsCrystal(h)
             /\ RollBack(atoms, a) \in Atoms /\ RollBack(dbAtoms, a) \in Atoms
  <2>1. RollBack(atoms, a) \in Atoms /\ RollBack(dbAtoms, a) \in Atoms
    BY <1>t, RewoundType DEF RollBack, TypeOK, UndoTable
  <2>2. Claims(h, atoms) # {}
    BY DEF Claims
  <2>3. QED
    BY <1>t, <2>1, <2>2, ClaimsType DEF TypeOK
<1>7. CASE ReorgSucceeds
  <2>1. PICK h \in Incoming, a \in Heights :
          /\ ReorgAllowed(h, a)
          /\ \E c \in Claims(h, RollBack(atoms, a)) :
                FinalizeSolidification(c, RollBack(atoms, a), RollBack(dbAtoms, a),
                    Cut(crystals, a), Cut(undo, a), Cut(hist, a), chamber)
          /\ events' = events \cup {"reorg"}
    BY <1>7 DEF ReorgSucceeds, ReorgSucceedsTo
  <2>2. PICK c \in Claims(h, RollBack(atoms, a)) :
          FinalizeSolidification(c, RollBack(atoms, a), RollBack(dbAtoms, a),
              Cut(crystals, a), Cut(undo, a), Cut(hist, a), chamber)
    BY <2>1
  <2>3. IsCrystal(h) /\ IsCrystal(c) /\ c.index = h.index
    BY <1>6, <1>t, <2>1, ClaimsType
  <2>4. /\ a <= idx
        /\ c.index > a \/ (c.index = 0 /\ a = 0)
        /\ "reorg_failed" \notin events => a \in DOMAIN hist
    BY <2>1, <2>3, AncestorOnChain
  <2>5. events' \subseteq Events /\ chamber \in SUBSET AllReactions
    BY <1>t, <2>1 DEF Events, TypeOK
  <2>6. CASE "reorg_failed" \in events
    <3>1. CrystalTable(Cut(crystals, a)) /\ UndoTable(Cut(undo, a)) /\ AtomTable(Cut(hist, a))
      BY <1>t DEF TypeOK, Cut, CrystalTable, UndoTable, AtomTable
    <3>2. TypeOK' /\ IndexMatchesTip' /\ UndoWindowBound'
      BY <1>6, <1>t, <2>1, <2>2, <2>3, <2>5, <3>1, FinalizeTypes
    <3>3. QED
      BY <2>1, <2>6, <3>2 DEF ChainInv, ChainShape, UndoRestoresHistory
  <2>7. CASE "reorg_failed" \notin events
    <3>1. Base(RollBack(atoms, a), Cut(crystals, a), Cut(undo, a), Cut(hist, a), a)
      BY <2>1, <2>4, <2>7, ChainInvIsBase, RollBackIsBase DEF ReorgAllowed
    <3>2. QED
      BY <1>6, <1>t, <2>1, <2>2, <2>3, <2>4, <2>5, <3>1, FinalizeChains
  <2>8. QED
    BY <2>6, <2>7
<1>8. CASE ReorgRefused
  <2>1. PICK h \in Incoming, a \in Heights :
          /\ ReorgAllowed(h, a)
          /\ Rewind(a)
          /\ dbAtoms' = RollBack(dbAtoms, a)
          /\ events' = events \cup {"reorg", "reorg_failed"}
          /\ UNCHANGED <<dbRoot, roots>>
    BY <1>8 DEF ReorgRefused, ReorgRefusedAt
  <2>2. dbAtoms' \in Atoms /\ dbRoot' \in Atoms /\ AtomTable(roots')
    BY <1>6, <1>t, <2>1 DEF TypeOK, AtomTable
  <2>3. events' \subseteq Events /\ "reorg_failed" \in events'
    BY <1>t, <2>1 DEF Events
  <2>4. QED
    BY <1>6, <2>1, <2>2, <2>3, RewindKeeps
<1>9. CASE ReorgMismatch
  <2>1. PICK h \in Incoming, a \in Heights :
          /\ ReorgAllowed(h, a)
          /\ \E c \in Claims(h, RollBack(atoms, a)) :
                FinalizeMismatch(c, RollBack(atoms, a), RollBack(dbAtoms, a))
          /\ Rewind(a)
          /\ events' = events \cup {"reorg", "reorg_failed", "mismatch"}
    BY <1>9 DEF ReorgMismatch, ReorgMismatchAt
  <2>2. PICK c \in Claims(h, RollBack(atoms, a)) :
          FinalizeMismatch(c, RollBack(atoms, a), RollBack(dbAtoms, a))
    BY <2>1
  <2>3. IsCrystal(c)
    BY <1>6, <1>t, <2>1, ClaimsType
  <2>4. dbAtoms' \in Atoms /\ dbRoot' \in Atoms /\ AtomTable(roots')
    BY <1>6, <1>t, <2>1, <2>2, <2>3, MismatchTypes
  <2>5. events' \subseteq Events /\ "reorg_failed" \in events'
    BY <1>t, <2>1 DEF Events
  <2>6. QED
    BY <1>6, <2>1, <2>4, <2>5, RewindKeeps
<1>10. CASE UNCHANGED vars
  BY <1>10 DEF vars, memory, disk, ChainInv, TypeOK, IndexMatchesTip, UndoWindowBound,
     ChainShape, UndoRestoresHistory, HasLatest, RollBack, CanRollBack
<1>11. QED
  BY <1>1, <1>2, <1>4, <1>5, <1>7, <1>8, <1>9, <1>10 DEF Next

-----------------------------------------------------------------------------
(* The theorems *)

(* Every table keeps its type, whatever crystals and reorganisations the   *)
(* engine goes through, and together with it the inductive invariant.      *)
THEOREM ChainInvariant == Spec => []ChainInv
  BY ChainInit, ChainStep, PTL DEF Spec

(* The undo logs that perform_reorg applies always rewind memory to the    *)
(* atoms the node had at the ancestor, until a reorg has failed half way.  *)
THEOREM UndoCorrect == Spec => []UndoRestoresHistory
<1>1. ChainInv => UndoRestoresHistory
  BY DEF ChainInv
<1>2. QED
  BY <1>1, ChainInvariant, PTL

(* The index in memory and the stored tip never differ while the tip       *)
(* exists, even after failures.                                            *)
THEOREM IndexCorrect == Spec => []IndexMatchesTip
<1>1. ChainInv => IndexMatchesTip
  BY DEF ChainInv
<1>2. QED
  BY <1>1, ChainInvariant, PTL

(* prune_undo_window never leaves an undo log outside the window.          *)
THEOREM UndoWindowCorrect == Spec => []UndoWindowBound
<1>1. ChainInv => UndoWindowBound
  BY DEF ChainInv
<1>2. QED
  BY <1>1, ChainInvariant, PTL

(* finalize_solidification and perform_reorg write the atom records in     *)
(* step with memory.                                                       *)
LEMMA MemoryStep == MemoryMatchesDisk /\ [Next]_vars => MemoryMatchesDisk'
<1> SUFFICES ASSUME MemoryMatchesDisk, [Next]_vars PROVE MemoryMatchesDisk'
  OBVIOUS
<1> USE DEF MemoryMatchesDisk
<1>1. CASE MineBlock
  BY <1>1 DEF MineBlock, FinalizeSolidification, CommitChangeset, disk
<1>2. CASE ProcessNetworkReaction
  BY <1>2 DEF ProcessNetworkReaction, disk
<1>3. CASE AcceptChild
  BY <1>3 DEF AcceptChild, ApplyOnTip, FinalizeSolidification, CommitChangeset
<1>4. CASE AcceptAsGenesis
  BY <1>4 DEF AcceptAsGenesis, ApplyOnTip, FinalizeSolidification, CommitChangeset
<1>5. CASE ReorgSucceeds
  BY <1>5 DEF ReorgSucceeds, ReorgSucceedsTo, FinalizeSolidification, CommitChangeset
<1>6. CASE ReorgRefused
  BY <1>6 DEF ReorgRefused, ReorgRefusedAt, Rewind
<1>7. CASE ReorgMismatch
  BY <1>7 DEF ReorgMismatch, ReorgMismatchAt
<1>8. CASE UNCHANGED vars
  BY <1>8 DEF vars, memory, disk
<1>9. QED
  BY <1>1, <1>2, <1>3, <1>4, <1>5, <1>6, <1>7, <1>8 DEF Next

(* The atom records follow the ones in memory through mining, receiving,   *)
(* rolling back and failing, up to the first mismatched state root.        *)
THEOREM MemoryOnDisk == Spec => []MemoryMatchesDisk
<1>1. Init => MemoryMatchesDisk
  BY DEF Init, MemoryMatchesDisk
<1>2. QED
  BY <1>1, MemoryStep, PTL DEF Spec

(* The trie, of which the state root is the hash, holds exactly the atoms  *)
(* in memory until the first reorganisation or refused crystal.            *)
THEOREM RootCorrect == Spec => []RootCommitsToAtoms
<1>1. Init => RootCommitsToAtoms
  BY DEF Init, RootCommitsToAtoms, GenesisCrystal
<1>2. ASSUME NEW c, IsCrystal(c), NEW ch, RootCommitsToAtoms, events = {},
             FinalizeSolidification(c, atoms, dbAtoms, crystals, undo, hist, ch)
      PROVE  RootCommitsToAtoms'
  <2> DEFINE d == [c EXCEPT !.root = Calculated(c, atoms)]
  <2>1. dbRoot' = atoms' /\ idx' = c.index /\ Calculated(c, atoms) = atoms'
    BY <1>2 DEF RootCommitsToAtoms, FinalizeSolidification, CommitChangeset, Calculated
  <2>2. d.root = atoms'
    BY <1>2, <2>1 DEF IsCrystal
  <2>3. crystals' = Put(crystals, c.index, d)
    BY <1>2 DEF FinalizeSolidification
  <2> HIDE DEF d
  <2>4. crystals'[idx'].root = atoms'
    BY <2>1, <2>2, <2>3 DEF Put
  <2>5. QED
    BY <2>1, <2>4 DEF RootCommitsToAtoms
<1>3. TypeOK /\ RootCommitsToAtoms /\ [Next]_vars => RootCommitsToAtoms'
  <2> SUFFICES ASSUME TypeOK, RootCommitsToAtoms, [Next]_vars, events' = {}
               PROVE  RootCommitsToAtoms'
    BY DEF RootCommitsToAtoms
  <2>1. CASE MineBlock
    <3>1. PICK c : /\ IsCrystal(c)
                   /\ HasLatest => c.index = latest + 1
                   /\ \/ FinalizeSolidification(c, atoms, dbAtoms, crystals, undo, hist, {})
                      \/ chamber' = {} /\ UNCHANGED <<atoms, idx, disk, hist>>
                   /\ UNCHANGED events
      BY <2>1, MinedCrystal
    <3>2. CASE FinalizeSolidification(c, atoms, dbAtoms, crystals, undo, hist, {})
      BY <1>2, <3>1, <3>2
    <3>3. CASE UNCHANGED <<atoms, idx, disk, hist>>
      BY <3>1, <3>3 DEF RootCommitsToAtoms, disk
    <3>4. QED
      BY <3>1, <3>2, <3>3
  <2>2. CASE ProcessNetworkReaction
    BY <2>2 DEF ProcessNetworkReaction, RootCommitsToAtoms, disk
  <2>3. ASSUME NEW h \in Incoming, NEW c \in Claims(h, atoms), ApplyOnTip(c)
        PROVE  RootCommitsToAtoms'
    <3>1. IsCrystal(c)
      BY ClaimsType DEF TypeOK
    <3>2. QED
      BY <1>2, <2>3, <3>1 DEF ApplyOnTip
  <2>4. CASE AcceptChild
    BY <2>3, <2>4 DEF AcceptChild
  <2>5. CASE AcceptAsGenesis
    BY <2>3, <2>5 DEF AcceptAsGenesis
  <2>6. CASE ReorgSucceeds \/ ReorgRefused \/ ReorgMismatch
    BY <2>6 DEF ReorgSucceeds, ReorgSucceedsTo, ReorgRefused, ReorgRefusedAt,
       ReorgMismatch, ReorgMismatchAt
  <2>7. CASE UNCHANGED vars
    BY <2>7 DEF vars, memory, disk, RootCommitsToAtoms
  <2>8. QED
    BY <2>1, <2>2, <2>4, <2>5, <2>6, <2>7 DEF Next
<1>4. ChainInv => TypeOK
  BY DEF ChainInv
<1>5. QED
  BY <1>1, <1>3, <1>4, ChainInvariant, PTL DEF Spec

-----------------------------------------------------------------------------
(* Crystals below the undo window *)

Kept(h) == h \in DOMAIN crystals' /\ crystals'[h] = crystals[h]

(* A height below the window is not above any ancestor a reorg may choose: *)
(* its undo log is gone.                                                   *)
LEMMA DeepBelowAncestor ==
    ASSUME ChainInv, NEW a \in Heights, CanRollBack(a), a <= idx,
           NEW h \in DOMAIN crystals, h + UNDO_WINDOW < idx
    PROVE  h <= a /\ h \in DOMAIN Cut(crystals, a) /\ Cut(crystals, a)[h] = crystals[h]
<1>1. h \in Heights /\ idx \in Heights
  BY DEF ChainInv, TypeOK
<1>2. h \in Nat /\ a \in Nat /\ idx \in Nat /\ UNDO_WINDOW \in Nat
  BY <1>1, HeightsAreNaturals, ConstantsAssumption
<1>3. h <= idx
  BY <1>2
<1>4. ~ (h + UNDO_WINDOW >= idx)
  BY <1>2
<1>5. h \notin DOMAIN undo
  BY <1>4 DEF ChainInv, UndoWindowBound
<1>6. ~ (a < h)
  BY <1>1, <1>3, <1>5 DEF CanRollBack
<1>7. h <= a
  BY <1>2, <1>6
<1>8. QED
  BY <1>7 DEF Cut

(* A crystal that has fallen out of the undo window is never replaced or   *)
(* removed, whatever FINALITY_DEPTH is.                                    *)
THEOREM DeepCrystalsStay == Spec => DeepCrystalsImmutable
<1> DEFINE Step == \A h \in DOMAIN crystals :
              "reorg_failed" \notin events /\ h + UNDO_WINDOW < idx => Kept(h)
<1>1. ChainInv /\ [Next]_vars => [Step]_vars
  <2> SUFFICES ASSUME ChainInv, Next, "reorg_failed" \notin events,
                      NEW h \in DOMAIN crystals, h + UNDO_WINDOW < idx
               PROVE  Kept(h)
    OBVIOUS
  <2>1. h \in Nat /\ idx \in Nat /\ h < idx /\ HasLatest /\ latest = idx /\ TypeOK
    BY HeightsAreNaturals, ConstantsAssumption, ChainInvIsBase DEF ChainInv, TypeOK
  <2>2. ASSUME NEW c, NEW at, NEW da, NEW cr, NEW un, NEW hi, NEW ch,
               FinalizeSolidification(c, at, da, cr, un, hi, ch), c.index # h,
               h \in DOMAIN cr, cr[h] = crystals[h]
        PROVE  Kept(h)
    <3> DEFINE d == [c EXCEPT !.root = Calculated(c, at)]
    <3>1. crystals' = Put(cr, c.index, d)
      BY <2>2 DEF FinalizeSolidification
    <3> HIDE DEF d
    <3>2. QED
      BY <2>2, <3>1 DEF Kept, Put
  <2>3. CASE MineBlock
    <3>1. PICK c : /\ IsCrystal(c)
                   /\ HasLatest => c.index = latest + 1
                   /\ \/ FinalizeSolidification(c, atoms, dbAtoms, crystals, undo, hist, {})
                      \/ chamber' = {} /\ UNCHANGED <<atoms, idx, disk, hist>>
                   /\ UNCHANGED events
      BY <2>1, <2>3, MinedCrystal
    <3>2. c.index # h
      BY <2>1, <3>1
    <3>3. CASE FinalizeSolidification(c, atoms, dbAtoms, crystals, undo, hist, {})
      BY <2>2, <3>2, <3>3
    <3>4. CASE UNCHANGED <<atoms, idx, disk, hist>>
      BY <3>4 DEF disk, Kept
    <3>5. QED
      BY <3>1, <3>3, <3>4
  <2>4. CASE ProcessNetworkReaction
    BY <2>4 DEF ProcessNetworkReaction, disk, Kept
  <2>5. CASE AcceptChild
    <3>1. PICK g \in Incoming : /\ g.index = LatestCrystal.index + 1
                               /\ \E c \in Claims(g, atoms) : ApplyOnTip(c)
      BY <2>5 DEF AcceptChild
    <3>2. PICK c \in Claims(g, atoms) : ApplyOnTip(c)
      BY <3>1
    <3>3. c.index = idx + 1
      BY <2>1, <3>1, ClaimsType DEF TypeOK, LatestCrystal, HasLatest
    <3>4. c.index # h
      BY <2>1, <3>3
    <3>5. QED
      BY <2>2, <3>2, <3>4 DEF ApplyOnTip, Kept
  <2>6. CASE AcceptAsGenesis
    BY <2>1, <2>6 DEF AcceptAsGenesis
  <2>7. ASSUME NEW g \in Incoming, NEW a \in Heights, ReorgAllowed(g, a)
        PROVE  /\ g.index # h /\ RollBack(atoms, a) \in Atoms
               /\ h \in DOMAIN Cut(crystals, a) /\ Cut(crystals, a)[h] = crystals[h]
    <3>a. Claims(g, atoms) # {}
      BY DEF Claims
    <3>1. IsCrystal(g)
      BY <2>1, <3>a, ClaimsType DEF TypeOK
    <3>2. a <= idx /\ (g.index > a \/ idx = 0)
      BY <2>7, <3>1, AncestorOnChain
    <3>3. h <= a /\ h \in DOMAIN Cut(crystals, a) /\ Cut(crystals, a)[h] = crystals[h]
      BY <2>7, <3>2, DeepBelowAncestor DEF ReorgAllowed
    <3>4. g.index \in Nat /\ a \in Nat
      BY <3>1, HeightsAreNaturals DEF IsCrystal
    <3>5. g.index # h
      BY <2>1, <3>2, <3>3, <3>4
    <3>6. RollBack(atoms, a) \in Atoms
      BY <2>1, RewoundType DEF RollBack, TypeOK, UndoTable
    <3>7. QED
      BY <3>3, <3>5, <3>6
  <2>8. CASE ReorgSucceeds
    <3>1. PICK g \in Incoming, a \in Heights :
            /\ ReorgAllowed(g, a)
            /\ \E c \in Claims(g, RollBack(atoms, a)) :
                  FinalizeSolidification(c, RollBack(atoms, a), RollBack(dbAtoms, a),
                      Cut(crystals, a), Cut(undo, a), Cut(hist, a), chamber)
      BY <2>8 DEF ReorgSucceeds, ReorgSucceedsTo
    <3>2. PICK c \in Claims(g, RollBack(atoms, a)) :
            FinalizeSolidification(c, RollBack(atoms, a), RollBack(dbAtoms, a),
                Cut(crystals, a), Cut(undo, a), Cut(hist, a), chamber)
      BY <3>1
    <3>3. c.index = g.index
      BY <2>1, <2>7, <3>1, ClaimsType
    <3>4. QED
      BY <2>2, <2>7, <3>1, <3>2, <3>3
  <2>9. CASE ReorgRefused \/ ReorgMismatch
    BY <2>7, <2>9 DEF ReorgRefused, ReorgRefusedAt, ReorgMismatch,
       ReorgMismatchAt, Rewind, Kept
  <2>10. QED
    BY <2>3, <2>4, <2>5, <2>6, <2>8, <2>9 DEF Next
<1>2. Spec => [][Step]_vars
  BY <1>1, ChainInvariant, PTL DEF Spec
<1>3. QED
  BY <1>2 DEF DeepCrystalsImmutable, Kept


-----------------------------------------------------------------------------
(* The records behind the tip *)

(* The records finalize_solidification leaves are those it was given, and  *)
(* for the crystal one root in mpt_root_{index} and in the crystal itself. *)
Recorded(j, cr, un) ==
    /\ DOMAIN crystals' = DOMAIN cr \cup {j}
    /\ DOMAIN roots' = DOMAIN roots \cup {j}
    /\ roots'[j] = crystals'[j].root
    /\ \A h \in DOMAIN cr : h # j => crystals'[h] = cr[h]
    /\ \A h \in DOMAIN roots : h # j => roots'[h] = roots[h]
    /\ DOMAIN undo' = {h \in DOMAIN un \cup {j} : h + UNDO_WINDOW >= j}

LEMMA FinalizeRecords ==
    ASSUME NEW c, IsCrystal(c), NEW at, NEW da, NEW cr, NEW un, NEW hi, NEW ch,
           FinalizeSolidification(c, at, da, cr, un, hi, ch)
    PROVE  Recorded(c.index, cr, un)
<1> DEFINE root == Calculated(c, at)
           d == [c EXCEPT !.root = root]
<1>1. d.root = root
  BY DEF IsCrystal
<1>2. /\ crystals' = Put(cr, c.index, d)
      /\ roots' = Put(roots, c.index, root)
      /\ undo' = Prune(Put(un, c.index, PreImageOf(at, Execute(at, c.index, c.reactions))),
                       c.index)
  BY DEF FinalizeSolidification, CommitChangeset
<1> HIDE DEF d, root
<1>3. QED
  BY <1>1, <1>2 DEF Put, Prune, Recorded

(* Every stored crystal has its mpt_root_{index}, with the same root. *)
RootsServed ==
    \A h \in DOMAIN crystals : h \in DOMAIN roots /\ roots[h] = crystals[h].root

(* The undo logs of the whole window exist. *)
WindowComplete ==
    \A h \in Heights :
        0 < h /\ h <= idx /\ idx <= h + UNDO_WINDOW => h \in DOMAIN undo

(* The two parts of TipConsistent that need an induction of their own. *)
TipInv ==
    /\ events \subseteq {"reorg"} => RootsServed
    /\ events = {} => WindowComplete

LEMMA TipFromChain == ChainInv /\ TipInv => TipConsistent
<1> SUFFICES ASSUME ChainInv, TipInv, events \subseteq {"reorg"}
             PROVE  /\ HasLatest
                    /\ \A h \in DOMAIN crystals \cup DOMAIN undo : h <= idx
                    /\ events = {} => WindowComplete
                    /\ RootsServed
  BY DEF TipConsistent, RootsServed, WindowComplete
<1>1. "reorg_failed" \notin events
  OBVIOUS
<1>2. HasLatest /\ \A h \in DOMAIN crystals \cup DOMAIN undo : h <= idx
  BY <1>1 DEF ChainInv, ChainShape
<1>3. QED
  BY <1>2 DEF TipInv

(* One more crystal on top of the tip moves the window by one. *)
LEMMA FinalizeKeepsTip ==
    ASSUME ChainInv, TipInv, events \subseteq {"reorg"}, NEW c, IsCrystal(c),
           HasLatest => c.index = latest + 1, NEW ch,
           FinalizeSolidification(c, atoms, dbAtoms, crystals, undo, hist, ch),
           events' = events
    PROVE  TipInv'
<1>1. c.index = idx + 1 /\ idx \in Nat /\ c.index \in Nat
  BY ChainInvIsBase, HeightsAreNaturals DEF Base, IsCrystal
<1>r. Recorded(c.index, crystals, undo)
  BY FinalizeRecords
<1>2. RootsServed'
  BY <1>r DEF Recorded, TipInv, RootsServed
<1>3. ASSUME events = {}, NEW h \in Heights, 0 < h, h <= idx', idx' <= h + UNDO_WINDOW
      PROVE  h \in DOMAIN undo'
  <2>1. idx' = idx + 1
    BY <1>1 DEF FinalizeSolidification
  <2>2. h \in Nat /\ UNDO_WINDOW \in Nat
    BY HeightsAreNaturals, ConstantsAssumption
  <2>3. h = c.index \/ (h <= idx /\ idx <= h + UNDO_WINDOW)
    BY <1>1, <1>3, <2>1, <2>2
  <2>4. h \in DOMAIN undo \cup {c.index}
    BY <1>3, <2>3 DEF TipInv, WindowComplete
  <2>5. h + UNDO_WINDOW >= c.index
    BY <1>1, <1>3, <2>1, <2>2
  <2>6. QED
    BY <1>r, <2>4, <2>5 DEF Recorded
<1>4. QED
  BY <1>2, <1>3 DEF TipInv, WindowComplete

LEMMA TipStep == ChainInv /\ TipInv /\ [Next]_vars => TipInv'
<1> SUFFICES ASSUME ChainInv, TipInv, [Next]_vars, events' \subseteq {"reorg"}
             PROVE  TipInv'
  BY DEF TipInv
<1>t. TypeOK
  BY DEF ChainInv
<1>1. CASE MineBlock
  <2>1. PICK c : /\ IsCrystal(c)
                 /\ HasLatest => c.index = latest + 1
                 /\ \/ FinalizeSolidification(c, atoms, dbAtoms, crystals, undo, hist, {})
                    \/ chamber' = {} /\ UNCHANGED <<atoms, idx, disk, hist>>
                 /\ UNCHANGED events
    BY <1>1, <1>t, MinedCrystal
  <2>2. CASE FinalizeSolidification(c, atoms, dbAtoms, crystals, undo, hist, {})
    BY <2>1, <2>2, FinalizeKeepsTip
  <2>3. CASE UNCHANGED <<atoms, idx, disk, hist>>
    BY <2>1, <2>3 DEF TipInv, RootsServed, WindowComplete, disk
  <2>4. QED
    BY <2>1, <2>2, <2>3
<1>2. CASE ProcessNetworkReaction
  BY <1>2 DEF ProcessNetworkReaction, TipInv, RootsServed, WindowComplete, disk
<1>3. CASE AcceptChild
  <2>1. PICK g \in Incoming : /\ HasLatest /\ g.index = LatestCrystal.index + 1
                              /\ \E c \in Claims(g, atoms) : ApplyOnTip(c)
    BY <1>3 DEF AcceptChild
  <2>2. PICK c \in Claims(g, atoms) : ApplyOnTip(c)
    BY <2>1
  <2>3. IsCrystal(c) /\ c.index = latest + 1
    BY <1>t, <2>1, ClaimsType DEF TypeOK, LatestCrystal, HasLatest
  <2>4. /\ FinalizeSolidification(c, atoms, dbAtoms, crystals, undo, hist, chamber)
        /\ events' = events /\ events \subseteq {"reorg"}
    BY <2>2 DEF ApplyOnTip
  <2>5. QED
    BY <2>3, <2>4, FinalizeKeepsTip
<1>4. CASE AcceptAsGenesis
  <2>1. "reorg_failed" \notin events
    BY <1>4 DEF AcceptAsGenesis, ApplyOnTip
  <2>2. QED
    BY <1>4, <2>1 DEF AcceptAsGenesis, ChainInv, ChainShape
<1>5. CASE ReorgSucceeds
  <2>1. PICK g \in Incoming, a \in Heights :
          /\ ReorgAllowed(g, a)
          /\ \E c \in Claims(g, RollBack(atoms, a)) :
                FinalizeSolidification(c, RollBack(atoms, a), RollBack(dbAtoms, a),
                    Cut(crystals, a), Cut(undo, a), Cut(hist, a), chamber)
          /\ events' = events \cup {"reorg"}
    BY <1>5 DEF ReorgSucceeds, ReorgSucceedsTo
  <2>2. PICK c \in Claims(g, RollBack(atoms, a)) :
          FinalizeSolidification(c, RollBack(atoms, a), RollBack(dbAtoms, a),
              Cut(crystals, a), Cut(undo, a), Cut(hist, a), chamber)
    BY <2>1
  <2>3. IsCrystal(c)
    BY <1>t, ClaimsType, RewoundType DEF RollBack, TypeOK, UndoTable
  <2>4. RootsServed /\ events' # {}
    BY <2>1 DEF TipInv
  <2>5. \A h \in DOMAIN Cut(crystals, a) :
            h \in DOMAIN crystals /\ Cut(crystals, a)[h] = crystals[h]
    BY DEF Cut
  <2>6. RootsServed'
    <3>1. Recorded(c.index, Cut(crystals, a), Cut(undo, a))
      BY <2>2, <2>3, FinalizeRecords
    <3>2. QED
      BY <2>4, <2>5, <3>1 DEF Recorded, RootsServed
  <2>7. QED
    BY <2>4, <2>6 DEF TipInv
<1>6. CASE ReorgRefused \/ ReorgMismatch
  BY <1>6 DEF ReorgRefused, ReorgRefusedAt, ReorgMismatch, ReorgMismatchAt
<1>7. CASE UNCHANGED vars
  BY <1>7 DEF vars, memory, disk, TipInv, RootsServed, WindowComplete
<1>8. QED
  BY <1>1, <1>2, <1>3, <1>4, <1>5, <1>6, <1>7 DEF Next

(* Up to the first failure, latest_index points at a crystal, no record    *)
(* lies above the tip, root_at serves for every stored height the root its *)
(* crystal carries, and until the first reorganisation the whole undo      *)
(* window can be rolled back.                                              *)
THEOREM TipCorrect == Spec => []TipConsistent
<1>1. Init => TipInv
  BY HeightsAreNaturals DEF Init, TipInv, RootsServed, WindowComplete, GenesisCrystal
<1>2. QED
  BY <1>1, TipFromChain, TipStep, ChainInvariant, PTL DEF Spec

-----------------------------------------------------------------------------
(* What a crash leaves, and the node started from it *)


(* In this database state the tip, if any, has its crystal, its undo log   *)
(* (unless it is genesis) and its mpt_root_{index}.                        *)
Ordered(s) ==
    s.latest # None =>
        /\ s.latest \in DOMAIN s.crystals
        /\ s.latest > 0 => s.latest \in DOMAIN s.undo
        /\ s.latest \in DOMAIN s.roots

(* The part of the invariant that is about the engine alone. *)
EngineInv ==
    /\ TypeOK /\ IndexMatchesTip
    /\ atoms[Architect] # Absent /\ dbAtoms[Architect] # Absent
    /\ LogsKeepArchitect(undo)

-----------------------------------------------------------------------------
(* The states a run of writes goes through *)

Record(at, rt, rs, cr, l, un) ==
    [atoms |-> at, root |-> rt, roots |-> rs, crystals |-> cr, latest |-> l, undo |-> un]

LEMMA DiskIsRecord ==
    ASSUME TypeOK
    PROVE  IsDisk(Disk)
  BY DEF TypeOK, IsDisk, Disk

(* Some of the atoms are the new ones. *)
Mixed(b, e, S) == [k \in Keys |-> IF k \in S THEN e.atoms[k] ELSE b.atoms[k]]

(* Every state between b and e, field by field. *)
LEMMA BetweenForms ==
    ASSUME NEW b, IsDisk(b), NEW e, IsDisk(e), NEW s \in Between(b, e)
    PROVE  \/ \E S \in SUBSET Keys :
                s = Record(Mixed(b, e, S), b.root, b.roots, b.crystals, b.latest, b.undo)
           \/ s = Record(Mixed(b, e, Keys), e.root, b.roots, b.crystals, b.latest, b.undo)
           \/ s = Record(Mixed(b, e, Keys), e.root, e.roots, b.crystals, b.latest, b.undo)
           \/ s = Record(Mixed(b, e, Keys), e.root, e.roots, b.crystals, b.latest,
                         Merged(b.undo, e.undo))
           \/ s = Record(Mixed(b, e, Keys), e.root, e.roots, e.crystals, b.latest,
                         Merged(b.undo, e.undo))
           \/ s = Record(Mixed(b, e, Keys), e.root, e.roots, e.crystals, e.latest,
                         Merged(b.undo, e.undo))
           \/ s = e
<1> DEFINE un == Merged(b.undo, e.undo)
           rooted  == [WithAtoms(b, e, Keys) EXCEPT !.root = e.root]
           indexed == [rooted EXCEPT !.roots = e.roots]
           undone  == [indexed EXCEPT !.undo = un]
           saved   == [undone EXCEPT !.crystals = e.crystals]
           tipped  == [saved EXCEPT !.latest = e.latest]
<1>1. \/ \E S \in SUBSET Keys : s = WithAtoms(b, e, S)
      \/ s \in {rooted, indexed, undone, saved, tipped, e}
  BY DEF Between
<1> HIDE DEF un
<1>2. \A S : WithAtoms(b, e, S) =
          Record(Mixed(b, e, S), b.root, b.roots, b.crystals, b.latest, b.undo)
  <2>1. b = Record(b.atoms, b.root, b.roots, b.crystals, b.latest, b.undo)
    BY DEF IsDisk, Record
  <2>2. QED
    BY <2>1 DEF WithAtoms, Record, Mixed
<1>3. rooted = Record(Mixed(b, e, Keys), e.root, b.roots, b.crystals, b.latest, b.undo)
  <2>1. rooted = [Record(Mixed(b, e, Keys), b.root, b.roots, b.crystals, b.latest, b.undo)
                EXCEPT !.root = e.root]
    BY <1>2
  <2>2. QED
    BY <2>1 DEF Record
<1> HIDE DEF rooted
<1>4. indexed = Record(Mixed(b, e, Keys), e.root, e.roots, b.crystals, b.latest, b.undo)
  <2>1. indexed = [Record(Mixed(b, e, Keys), e.root, b.roots, b.crystals, b.latest, b.undo)
                EXCEPT !.roots = e.roots]
    BY <1>3
  <2>2. QED
    BY <2>1 DEF Record
<1> HIDE DEF indexed
<1>5. undone = Record(Mixed(b, e, Keys), e.root, e.roots, b.crystals, b.latest, un)
  <2>1. undone = [Record(Mixed(b, e, Keys), e.root, e.roots, b.crystals, b.latest, b.undo)
                EXCEPT !.undo = un]
    BY <1>4
  <2>2. QED
    BY <2>1 DEF Record
<1> HIDE DEF undone
<1>6. saved = Record(Mixed(b, e, Keys), e.root, e.roots, e.crystals, b.latest, un)
  <2>1. saved = [Record(Mixed(b, e, Keys), e.root, e.roots, b.crystals, b.latest, un)
                EXCEPT !.crystals = e.crystals]
    BY <1>5
  <2>2. QED
    BY <2>1 DEF Record
<1> HIDE DEF saved
<1>7. tipped = Record(Mixed(b, e, Keys), e.root, e.roots, e.crystals, e.latest, un)
  <2>1. tipped = [Record(Mixed(b, e, Keys), e.root, e.roots, e.crystals, b.latest, un)
                EXCEPT !.latest = e.latest]
    BY <1>6
  <2>2. QED
    BY <2>1 DEF Record
<1> HIDE DEF tipped
<1>8. QED
  BY <1>1, <1>2, <1>3, <1>4, <1>5, <1>6, <1>7 DEF un

LEMMA BetweenEnds ==
    ASSUME NEW b, NEW e
    PROVE  e \in Between(b, e)
  BY DEF Between

(* Types, and the rule about the architect's atom, hold in every state     *)
(* between two states in which they hold; each has the crystals of one of  *)
(* the two.                                                                *)
LEMMA BetweenKeeps ==
    ASSUME NEW b, IsDisk(b), NEW e, IsDisk(e), NEW s \in Between(b, e),
           ArchitectRecorded(b), ArchitectRecorded(e), e.atoms[Architect] # Absent,
           b.atoms[Architect] = Absent => e.atoms = GenesisAtoms
    PROVE  /\ IsDisk(s) /\ ArchitectRecorded(s)
           /\ s.crystals = b.crystals \/ s.crystals = e.crystals
<1> DEFINE un == Merged(b.undo, e.undo)
<1>1. Architect \in Keys
  BY ConstantsAssumption
<1>2. ASSUME NEW S \in SUBSET Keys
      PROVE  /\ Mixed(b, e, S) \in Atoms
             /\ Mixed(b, e, S)[Architect] = Absent =>
                  b.atoms[Architect] = Absent /\ Mixed(b, e, S) = NoAtoms
  <2>1. Mixed(b, e, S) \in Atoms
    BY DEF Mixed, IsDisk, Atoms
  <2>2. ASSUME Mixed(b, e, S)[Architect] = Absent
        PROVE  b.atoms[Architect] = Absent /\ Mixed(b, e, S) = NoAtoms
    <3>1. Architect \notin S /\ b.atoms[Architect] = Absent
      BY <1>1, <2>2 DEF Mixed
    <3>2. b.atoms = NoAtoms /\ e.atoms = GenesisAtoms
      BY <3>1 DEF ArchitectRecorded
    <3>3. \A k \in Keys : Mixed(b, e, S)[k] = Absent
      BY <3>1, <3>2 DEF Mixed, NoAtoms, GenesisAtoms
    <3>4. QED
      BY <3>1, <3>3 DEF Mixed, NoAtoms
  <2>3. QED
    BY <2>1, <2>2
<1>3. Mixed(b, e, Keys)[Architect] # Absent
  BY <1>1 DEF Mixed
<1>4. /\ DOMAIN un \subseteq Heights /\ \A h \in DOMAIN un : un[h] \in PreImages
      /\ LogsKeepArchitect(un)
  BY DEF Merged, IsDisk, ArchitectRecorded, LogsKeepArchitect
<1> HIDE DEF un
<1>5. \A at, rt, rs, cr, l, u :
        /\ Record(at, rt, rs, cr, l, u).atoms = at
        /\ Record(at, rt, rs, cr, l, u).root = rt
        /\ Record(at, rt, rs, cr, l, u).roots = rs
        /\ Record(at, rt, rs, cr, l, u).crystals = cr
        /\ Record(at, rt, rs, cr, l, u).latest = l
        /\ Record(at, rt, rs, cr, l, u).undo = u
  BY DEF Record
<1>6. ASSUME NEW at \in Atoms, NEW rt, rt \in {b.root, e.root},
             NEW rs, rs \in {b.roots, e.roots}, NEW cr, cr \in {b.crystals, e.crystals},
             NEW l, l \in {b.latest, e.latest}, NEW u, u \in {b.undo, un},
             s = Record(at, rt, rs, cr, l, u)
      PROVE  IsDisk(s) /\ LogsKeepArchitect(s.undo) /\ s.crystals \in {b.crystals, e.crystals}
  <2>1. s.atoms = at /\ s.root = rt /\ s.roots = rs /\ s.crystals = cr
        /\ s.latest = l /\ s.undo = u
    BY <1>5, <1>6
  <2>2. s = [atoms |-> s.atoms, root |-> s.root, roots |-> s.roots,
             crystals |-> s.crystals, latest |-> s.latest, undo |-> s.undo]
    BY <1>6, <2>1 DEF Record
  <2>3. QED
    BY <1>4, <1>6, <2>1, <2>2 DEF IsDisk, ArchitectRecorded
<1>7. CASE s = e
  BY <1>7
<1>8. CASE \E S \in SUBSET Keys :
             s = Record(Mixed(b, e, S), b.root, b.roots, b.crystals, b.latest, b.undo)
  <2>1. PICK S \in SUBSET Keys :
             s = Record(Mixed(b, e, S), b.root, b.roots, b.crystals, b.latest, b.undo)
    BY <1>8
  <2>2. IsDisk(s) /\ LogsKeepArchitect(s.undo) /\ s.crystals \in {b.crystals, e.crystals}
    BY <1>2, <1>6, <2>1
  <2>3. s.atoms = Mixed(b, e, S) /\ s.crystals = b.crystals /\ s.latest = b.latest
    BY <1>5, <2>1
  <2>4. QED
    BY <1>2, <2>2, <2>3 DEF ArchitectRecorded
<1>9. ASSUME NEW rt, rt \in {b.root, e.root},
             NEW rs, rs \in {b.roots, e.roots}, NEW cr, cr \in {b.crystals, e.crystals},
             NEW l, l \in {b.latest, e.latest}, NEW u, u \in {b.undo, un},
             s = Record(Mixed(b, e, Keys), rt, rs, cr, l, u)
      PROVE  IsDisk(s) /\ ArchitectRecorded(s) /\ s.crystals \in {b.crystals, e.crystals}
  <2>1. IsDisk(s) /\ LogsKeepArchitect(s.undo) /\ s.crystals \in {b.crystals, e.crystals}
    BY <1>2, <1>6, <1>9
  <2>2. s.atoms = Mixed(b, e, Keys)
    BY <1>5, <1>9
  <2>3. QED
    BY <1>3, <2>1, <2>2 DEF ArchitectRecorded
<1>10. QED
  <2>1. \/ s = e
        \/ \E S \in SUBSET Keys :
             s = Record(Mixed(b, e, S), b.root, b.roots, b.crystals, b.latest, b.undo)
        \/ \E rt \in {b.root, e.root}, rs \in {b.roots, e.roots},
              cr \in {b.crystals, e.crystals}, l \in {b.latest, e.latest}, u \in {b.undo, un} :
                s = Record(Mixed(b, e, Keys), rt, rs, cr, l, u)
    BY BetweenForms DEF un
  <2>2. QED
    BY <1>7, <1>8, <1>9, <2>1

(* No state between two ordered ones has a tip without its records: the    *)
(* crystal is written after its undo log and mpt_root_{index}, and         *)
(* latest_index after the crystal.                                         *)
LEMMA BetweenOrdered ==
    ASSUME NEW b, IsDisk(b), NEW e, IsDisk(e), NEW s \in Between(b, e),
           Ordered(b), Ordered(e), DOMAIN b.roots \subseteq DOMAIN e.roots,
           DOMAIN b.crystals \subseteq DOMAIN e.crystals
    PROVE  Ordered(s)
<1> DEFINE un == Merged(b.undo, e.undo)
<1>1. DOMAIN un = DOMAIN b.undo \cup DOMAIN e.undo
  BY DEF Merged
<1> HIDE DEF un
<1>2. ASSUME NEW at, NEW rt, NEW rs, NEW cr, NEW l, NEW u, s = Record(at, rt, rs, cr, l, u),
             \/ /\ l = b.latest /\ DOMAIN b.undo \subseteq DOMAIN u
                /\ DOMAIN b.roots \subseteq DOMAIN rs
                /\ DOMAIN b.crystals \subseteq DOMAIN cr
             \/ /\ l = e.latest /\ DOMAIN e.undo \subseteq DOMAIN u
                /\ rs = e.roots /\ cr = e.crystals
      PROVE  Ordered(s)
  <2>1. s.roots = rs /\ s.crystals = cr /\ s.latest = l /\ s.undo = u
    BY <1>2 DEF Record
  <2>2. QED
    BY <1>2, <2>1 DEF Ordered
<1>3. CASE s = e
  BY <1>3
<1>4. CASE s # e
  <2>1. \/ \E at, rt, rs, cr, u :
              /\ s = Record(at, rt, rs, cr, b.latest, u)
              /\ u \in {b.undo, un} /\ rs \in {b.roots, e.roots}
              /\ cr \in {b.crystals, e.crystals}
        \/ \E at, rt : s = Record(at, rt, e.roots, e.crystals, e.latest, un)
    BY <1>4, BetweenForms DEF un
  <2>2. QED
    BY <1>1, <1>2, <2>1
<1>5. QED
  BY <1>3, <1>4

-----------------------------------------------------------------------------
(* The engine's operations *)

(* Rolling back never removes the architect's atom. *)
LEMMA RewoundArchitect ==
    ASSUME NEW at \in Atoms, at[Architect] # Absent, NEW un, UndoTable(un),
           LogsKeepArchitect(un), NEW a \in Heights, NEW top \in Heights
    PROVE  Rewound(at, un, a, top)[Architect] # Absent
<1> DEFINE S == Restoring(un, a, top, Architect)
<1>1. Architect \in Keys
  BY ConstantsAssumption
<1>2. CASE S = {}
  BY <1>1, <1>2 DEF Rewound
<1>3. CASE S # {}
  <2>1. Min(S) \in S
    BY <1>3, MinOfHeights DEF Restoring, UndoTable
  <2>2. un[Min(S)][Architect] # Absent
    BY <2>1 DEF Restoring, LogsKeepArchitect
  <2>3. QED
    BY <1>1, <1>3, <2>2 DEF Rewound
<1>4. QED
  BY <1>2, <1>3

(* finalize_solidification: the tip it leaves has its records, and it      *)
(* removes no crystal and no root.                                         *)
LEMMA FinalizeEngine ==
    ASSUME TypeOK, NEW c, IsCrystal(c),
           NEW at \in Atoms, at[Architect] # Absent,
           NEW da \in Atoms, da[Architect] # Absent,
           NEW cr, CrystalTable(cr), NEW un, UndoTable(un), LogsKeepArchitect(un),
           NEW hi, AtomTable(hi), NEW ch \in SUBSET AllReactions,
           FinalizeSolidification(c, at, da, cr, un, hi, ch),
           events' \subseteq Events
    PROVE  /\ EngineInv' /\ Ordered(Disk')
           /\ DOMAIN roots \subseteq DOMAIN roots' /\ DOMAIN cr \subseteq DOMAIN crystals'
<1> DEFINE cs == Execute(at, c.index, c.reactions)
<1>1. TypeOK' /\ IndexMatchesTip' /\ HasLatest'
  BY FinalizeTypes
<1>2. Recorded(c.index, cr, un)
  BY FinalizeRecords
<1>3. cs \in Changesets /\ Architect \in Keys /\ Absent \notin Values
  BY ExecuteAssumption, ConstantsAssumption DEF IsCrystal, FinalizeSolidification, Executes
<1>4. /\ atoms' = Override(at, cs) /\ dbAtoms' = Override(da, cs)
      /\ undo' = Prune(Put(un, c.index, PreImageOf(at, cs)), c.index)
      /\ latest' = c.index
  BY DEF FinalizeSolidification, CommitChangeset
<1> HIDE DEF cs
<1>5. atoms'[Architect] # Absent /\ dbAtoms'[Architect] # Absent
  BY <1>3, <1>4 DEF Override, Changesets
<1>6. LogsKeepArchitect(undo')
  BY <1>4 DEF LogsKeepArchitect, Prune, Put, PreImageOf
<1>7. c.index \in DOMAIN undo'
  <2>1. c.index \in Nat /\ UNDO_WINDOW \in Nat
    BY HeightsAreNaturals, ConstantsAssumption DEF IsCrystal
  <2>2. c.index + UNDO_WINDOW >= c.index
    BY <2>1
  <2>3. QED
    BY <1>2, <2>2 DEF Recorded
<1>8. Ordered(Disk')
  BY <1>2, <1>4, <1>7 DEF Ordered, Disk, Recorded
<1>9. QED
  BY <1>1, <1>2, <1>5, <1>6, <1>8 DEF EngineInv, Recorded

(* A refused crystal: the atoms and the trie are written, nothing else. *)
LEMMA MismatchEngine ==
    ASSUME TypeOK, NEW c, IsCrystal(c), NEW at \in Atoms,
           NEW da \in Atoms, da[Architect] # Absent, FinalizeMismatch(c, at, da)
    PROVE  /\ dbAtoms' \in Atoms /\ dbRoot' \in Atoms /\ AtomTable(roots')
           /\ dbAtoms'[Architect] # Absent /\ DOMAIN roots \subseteq DOMAIN roots'
<1> DEFINE cs == Execute(at, c.index, c.reactions)
<1>1. cs \in Changesets /\ Architect \in Keys /\ Absent \notin Values
  BY ExecuteAssumption, ConstantsAssumption DEF IsCrystal, FinalizeMismatch, Executes
<1>2. dbAtoms' = Override(da, cs)
  BY DEF FinalizeMismatch, CommitChangeset
<1> HIDE DEF cs
<1>3. dbAtoms'[Architect] # Absent
  BY <1>1, <1>2 DEF Override, Changesets
<1>4. DOMAIN roots \subseteq DOMAIN roots'
  BY DEF FinalizeMismatch, CommitChangeset, Put
<1>5. QED
  BY <1>3, <1>4, MismatchTypes

(* What a step on the local tip does to the records. *)
Grows ==
    /\ DOMAIN roots \subseteq DOMAIN roots' /\ DOMAIN crystals \subseteq DOMAIN crystals'
    /\ Ordered(Disk) => Ordered(Disk')

LEMMA OnTipEngine ==
    ASSUME EngineInv, MineBlock \/ AcceptChild \/ AcceptAsGenesis
    PROVE  EngineInv' /\ Grows
<1>t. /\ TypeOK /\ events \subseteq Events /\ atoms \in Atoms /\ dbAtoms \in Atoms
      /\ CrystalTable(crystals) /\ UndoTable(undo) /\ AtomTable(hist)
      /\ chamber \in SUBSET AllReactions
  BY DEF EngineInv, TypeOK, CrystalTable, UndoTable, AtomTable
<1>1. ASSUME NEW c, IsCrystal(c), NEW ch \in SUBSET AllReactions,
             FinalizeSolidification(c, atoms, dbAtoms, crystals, undo, hist, ch),
             UNCHANGED events
      PROVE  EngineInv' /\ Grows
  <2>1. /\ EngineInv' /\ Ordered(Disk')
        /\ DOMAIN roots \subseteq DOMAIN roots' /\ DOMAIN crystals \subseteq DOMAIN crystals'
    BY <1>1, <1>t, FinalizeEngine DEF EngineInv
  <2>2. QED
    BY <2>1 DEF Grows
<1>2. CASE MineBlock
  <2>1. PICK c : /\ IsCrystal(c)
                 /\ \/ FinalizeSolidification(c, atoms, dbAtoms, crystals, undo, hist, {})
                    \/ chamber' = {} /\ UNCHANGED <<atoms, idx, disk, hist>>
                 /\ UNCHANGED events
    BY <1>2, <1>t, MinedCrystal
  <2>2. CASE FinalizeSolidification(c, atoms, dbAtoms, crystals, undo, hist, {})
    BY <1>1, <2>1, <2>2
  <2>3. CASE chamber' = {} /\ UNCHANGED <<atoms, idx, disk, hist>>
    BY <2>1, <2>3 DEF EngineInv, TypeOK, IndexMatchesTip, HasLatest, disk, Grows,
       Ordered, Disk
  <2>4. QED
    BY <2>1, <2>2, <2>3
<1>3. ASSUME NEW h \in Incoming, NEW c \in Claims(h, atoms), ApplyOnTip(c)
      PROVE  EngineInv' /\ Grows
  <2>1. IsCrystal(c)
    BY <1>t, ClaimsType
  <2>2. CASE /\ FinalizeSolidification(c, atoms, dbAtoms, crystals, undo, hist, chamber)
             /\ UNCHANGED events
    BY <1>1, <1>t, <2>1, <2>2
  <2>3. CASE /\ FinalizeMismatch(c, atoms, dbAtoms)
             /\ events' = events \cup {"mismatch"}
             /\ UNCHANGED <<memory, crystals, latest, undo, hist>>
    <3>1. /\ dbAtoms' \in Atoms /\ dbRoot' \in Atoms /\ AtomTable(roots')
          /\ dbAtoms'[Architect] # Absent /\ DOMAIN roots \subseteq DOMAIN roots'
      BY <1>t, <2>1, <2>3, MismatchEngine DEF EngineInv
    <3>2. TypeOK'
      BY <1>t, <2>3, <3>1 DEF TypeOK, AtomTable, memory, Events
    <3>3. EngineInv'
      BY <2>3, <3>1, <3>2 DEF EngineInv, IndexMatchesTip, HasLatest, memory
    <3>4. Grows
      BY <2>3, <3>1 DEF Grows, Ordered, Disk
    <3>5. QED
      BY <3>3, <3>4
  <2>4. QED
    BY <1>3, <2>2, <2>3 DEF ApplyOnTip
<1>4. CASE AcceptChild
  BY <1>3, <1>4 DEF AcceptChild
<1>5. CASE AcceptAsGenesis
  BY <1>3, <1>5 DEF AcceptAsGenesis
<1>6. QED
  BY <1>2, <1>4, <1>5

(* A reorganisation, whatever its outcome; RolledBack(a) is what its first *)
(* flush makes durable.                                                    *)
LEMMA ReorgEngine ==
    ASSUME EngineInv, NEW a \in Heights,
           ReorgSucceedsTo(a) \/ ReorgRefusedAt(a) \/ ReorgMismatchAt(a)
    PROVE  /\ EngineInv' /\ "reorg" \in events'
           /\ IsDisk(RolledBack(a)) /\ ArchitectRecorded(RolledBack(a))
           /\ RolledBack(a).atoms[Architect] # Absent
           /\ RolledBack(a).crystals = Cut(crystals, a)
<1>t. /\ TypeOK /\ events \subseteq Events /\ atoms \in Atoms /\ dbAtoms \in Atoms
      /\ UndoTable(undo) /\ chamber \in SUBSET AllReactions /\ idx \in Heights
  BY DEF EngineInv, TypeOK, UndoTable
<1>1. /\ RollBack(atoms, a) \in Atoms /\ RollBack(dbAtoms, a) \in Atoms
      /\ RollBack(atoms, a)[Architect] # Absent /\ RollBack(dbAtoms, a)[Architect] # Absent
  BY <1>t, RewoundType, RewoundArchitect DEF RollBack, EngineInv
<1>2. /\ CrystalTable(Cut(crystals, a)) /\ UndoTable(Cut(undo, a))
      /\ AtomTable(Cut(hist, a)) /\ LogsKeepArchitect(Cut(undo, a))
  BY DEF EngineInv, TypeOK, Cut, CrystalTable, UndoTable, AtomTable, LogsKeepArchitect
<1>3. /\ IsDisk(RolledBack(a)) /\ ArchitectRecorded(RolledBack(a))
      /\ RolledBack(a).atoms[Architect] # Absent
      /\ RolledBack(a).crystals = Cut(crystals, a)
  <2> DEFINE at == RollBack(dbAtoms, a)
             cr == Cut(crystals, a)
             un == Cut(undo, a)
  <2>0. RolledBack(a) = [Disk EXCEPT !.atoms = at, !.crystals = cr, !.undo = un]
    BY DEF RolledBack
  <2> HIDE DEF at, cr, un
  <2>1. RolledBack(a) = Record(at, dbRoot, roots, cr, latest, un)
    BY <2>0 DEF Disk, Record
  <2>2. /\ RolledBack(a).atoms = at /\ RolledBack(a).root = dbRoot
        /\ RolledBack(a).roots = roots /\ RolledBack(a).crystals = cr
        /\ RolledBack(a).latest = latest /\ RolledBack(a).undo = un
    BY <2>1 DEF Record
  <2>3. RolledBack(a) = Record(RolledBack(a).atoms, RolledBack(a).root, RolledBack(a).roots,
              RolledBack(a).crystals, RolledBack(a).latest, RolledBack(a).undo)
    BY <2>1, <2>2
  <2>4. at \in Atoms /\ at[Architect] # Absent /\ CrystalTable(cr) /\ UndoTable(un)
        /\ LogsKeepArchitect(un)
    BY <1>1, <1>2 DEF at, cr, un
  <2>5. IsDisk(RolledBack(a))
    BY <1>t, <2>2, <2>3, <2>4 DEF IsDisk, Record, TypeOK, CrystalTable, UndoTable
  <2>6. QED
    BY <2>2, <2>4, <2>5 DEF ArchitectRecorded, cr
<1>4. ASSUME NEW h \in Incoming, ReorgAllowed(h, a)
      PROVE  IsCrystal(h) /\ a <= idx /\ latest = idx
  <2>1. Claims(h, atoms) # {}
    BY DEF Claims
  <2>2. IsCrystal(h)
    BY <1>t, <2>1, ClaimsType
  <2>3. QED
    BY <1>4, <2>2, AncestorBelowTip DEF EngineInv
<1>5. ASSUME NEW h \in Incoming, NEW c \in Claims(h, RollBack(atoms, a))
      PROVE  IsCrystal(c)
  BY <1>t, <1>1, ClaimsType
<1>6. CASE ReorgSucceedsTo(a)
  <2>1. PICK h \in Incoming :
          /\ ReorgAllowed(h, a)
          /\ \E c \in Claims(h, RollBack(atoms, a)) :
                FinalizeSolidification(c, RollBack(atoms, a), RollBack(dbAtoms, a),
                    Cut(crystals, a), Cut(undo, a), Cut(hist, a), chamber)
    BY <1>6 DEF ReorgSucceedsTo
  <2>2. PICK c \in Claims(h, RollBack(atoms, a)) :
          FinalizeSolidification(c, RollBack(atoms, a), RollBack(dbAtoms, a),
              Cut(crystals, a), Cut(undo, a), Cut(hist, a), chamber)
    BY <2>1
  <2>3. events' \subseteq Events /\ "reorg" \in events'
    BY <1>6, <1>t DEF ReorgSucceedsTo, Events
  <2>4. EngineInv'
    BY <1>t, <1>1, <1>2, <1>5, <2>2, <2>3, FinalizeEngine
  <2>5. QED
    BY <1>3, <2>3, <2>4
<1>7. ASSUME NEW h \in Incoming, ReorgAllowed(h, a), Rewind(a),
             dbAtoms' \in Atoms, dbRoot' \in Atoms, AtomTable(roots'),
             dbAtoms'[Architect] # Absent, events' \subseteq Events
      PROVE  EngineInv'
  <2>1. TypeOK'
    BY <1>t, <1>1, <1>2, <1>7 DEF TypeOK, Rewind, CrystalTable, UndoTable, AtomTable
  <2>2. IndexMatchesTip'
    <3>1. a <= idx /\ latest = idx /\ a \in Nat /\ idx \in Nat
      BY <1>t, <1>4, <1>7, HeightsAreNaturals
    <3>2. latest \in DOMAIN Cut(crystals, a) => latest = a
      BY <3>1 DEF Cut
    <3>3. QED
      BY <1>7, <3>2 DEF Rewind, IndexMatchesTip, HasLatest
  <2>3. QED
    BY <1>1, <1>2, <1>7, <2>1, <2>2 DEF EngineInv, Rewind
<1>8. CASE ReorgRefusedAt(a)
  <2>1. PICK h \in Incoming : ReorgAllowed(h, a)
    BY <1>8 DEF ReorgRefusedAt
  <2>2. /\ Rewind(a) /\ dbAtoms' = RollBack(dbAtoms, a) /\ dbRoot' = dbRoot
        /\ roots' = roots /\ events' = events \cup {"reorg", "reorg_failed"}
    BY <1>8 DEF ReorgRefusedAt
  <2>3. dbRoot' \in Atoms /\ AtomTable(roots') /\ events' \subseteq Events
    BY <1>t, <2>2 DEF TypeOK, AtomTable, Events
  <2>4. EngineInv'
    BY <1>1, <1>7, <2>1, <2>2, <2>3
  <2>5. QED
    BY <1>3, <2>2, <2>4
<1>9. CASE ReorgMismatchAt(a)
  <2>1. PICK h \in Incoming :
          /\ ReorgAllowed(h, a)
          /\ \E c \in Claims(h, RollBack(atoms, a)) :
                FinalizeMismatch(c, RollBack(atoms, a), RollBack(dbAtoms, a))
    BY <1>9 DEF ReorgMismatchAt
  <2>2. PICK c \in Claims(h, RollBack(atoms, a)) :
          FinalizeMismatch(c, RollBack(atoms, a), RollBack(dbAtoms, a))
    BY <2>1
  <2>3. /\ dbAtoms' \in Atoms /\ dbRoot' \in Atoms /\ AtomTable(roots')
        /\ dbAtoms'[Architect] # Absent
    BY <1>t, <1>1, <1>5, <2>2, MismatchEngine
  <2>4. /\ Rewind(a) /\ events' \subseteq Events /\ "reorg" \in events'
    BY <1>9, <1>t DEF ReorgMismatchAt, Events
  <2>5. EngineInv'
    BY <1>7, <2>1, <2>3, <2>4
  <2>6. QED
    BY <1>3, <2>4, <2>5
<1>10. QED
  BY <1>6, <1>8, <1>9

-----------------------------------------------------------------------------
(* Starting the node *)

LEMMA GenesisAtomsFacts ==
    /\ GenesisAtoms \in Atoms /\ GenesisAtoms[Architect] # Absent
    /\ NoAtoms \in Atoms /\ NoAtoms[Architect] = Absent
  BY ConstantsAssumption DEF GenesisAtoms, NoAtoms, Atoms

(* What PrimusProcessor::new makes of database state s: it has the         *)
(* architect's atom, no crystal or root of s is lost, and the index in     *)
(* memory is that of the tip.                                              *)
LEMMA AfterGenesisKeeps ==
    ASSUME NEW s, IsDisk(s), ArchitectRecorded(s)
    PROVE  LET d == AfterGenesis(s) IN
           /\ IsDisk(d) /\ ArchitectRecorded(d) /\ d.atoms[Architect] # Absent
           /\ s.atoms[Architect] = Absent => d.atoms = GenesisAtoms
           /\ DOMAIN s.roots \subseteq DOMAIN d.roots
           /\ DOMAIN s.crystals \subseteq DOMAIN d.crystals
           /\ \A h \in DOMAIN s.crystals : d.crystals[h] = s.crystals[h]
           /\ Ordered(s) => Ordered(d)
           /\ RestoredIndex(s) \in Heights
           /\ d.latest \in DOMAIN d.crystals => d.latest = RestoredIndex(s)
<1> DEFINE d == AfterGenesis(s)
<1>1. RestoredIndex(s) \in Heights
  BY HeightsAreNaturals DEF RestoredIndex, IsDisk
<1>2. CASE s.atoms # NoAtoms
  <2>1. d = s /\ s.atoms[Architect] # Absent
    BY <1>2 DEF AfterGenesis, ArchitectRecorded
  <2>2. s.latest \in DOMAIN s.crystals => s.latest = RestoredIndex(s)
    BY DEF RestoredIndex, IsDisk
  <2> HIDE DEF d
  <2>3. QED
    BY <1>1, <2>1, <2>2 DEF d
<1>3. CASE s.atoms = NoAtoms
  <2> DEFINE root == [s.root EXCEPT ![Architect] = GenesisValue]
             g == [GenesisCrystal EXCEPT !.root = root]
             rs == Put(s.roots, 0, root)
             cr == Put(s.crystals, 0, g)
  <2>1. DOMAIN s.crystals = {} /\ s.latest = None
    BY <1>3, GenesisAtomsFacts DEF ArchitectRecorded
  <2>2. RestoredIndex(s) = 0
    BY <2>1 DEF RestoredIndex
  <2>3. root \in Atoms
    BY ConstantsAssumption DEF IsDisk, Atoms
  <2>4. IsCrystal(g) /\ g.index = 0
    <3> HIDE DEF root
    <3>1. g = [index |-> 0, prev |-> NoHash, energy |-> 0, reactions |-> {}, root |-> root]
      BY DEF GenesisCrystal
    <3>2. QED
      BY <2>3, <3>1, HeightsAreNaturals DEF IsCrystal, Roots
  <2>5. s = Record(s.atoms, s.root, s.roots, s.crystals, s.latest, s.undo)
    BY DEF IsDisk, Record
  <2>6. d = [s EXCEPT !.atoms = GenesisAtoms, !.root = root, !.roots = rs,
                      !.crystals = cr, !.latest = 0]
    BY <1>3, <2>2 DEF AfterGenesis
  <2> HIDE DEF d, root, g, rs, cr
  <2>7. d = Record(GenesisAtoms, root, rs, cr, 0, s.undo)
    BY <2>5, <2>6 DEF Record
  <2>8. /\ d.atoms = GenesisAtoms /\ d.root = root /\ d.roots = rs
        /\ d.crystals = cr /\ d.latest = 0 /\ d.undo = s.undo
    BY <2>7 DEF Record
  <2>9. /\ DOMAIN rs = DOMAIN s.roots \cup {0}
        /\ \A h \in DOMAIN rs : rs[h] \in Atoms
    BY <2>3 DEF rs, Put, IsDisk
  <2>10. DOMAIN cr = {0} /\ cr[0] = g
    BY <2>1 DEF cr, Put
  <2>11. IsDisk(d)
    <3>1. d = [atoms |-> d.atoms, root |-> d.root, roots |-> d.roots,
               crystals |-> d.crystals, latest |-> d.latest, undo |-> d.undo]
      BY <2>7, <2>8 DEF Record
    <3>2. QED
      BY <2>3, <2>4, <2>8, <2>9, <2>10, <3>1, GenesisAtomsFacts, HeightsAreNaturals
         DEF IsDisk
  <2>12. d.atoms[Architect] # Absent /\ ArchitectRecorded(d)
    BY <2>8, GenesisAtomsFacts DEF ArchitectRecorded
  <2>13. Ordered(d)
    BY <2>8, <2>9, <2>10 DEF Ordered
  <2>14. QED
    BY <1>1, <2>1, <2>2, <2>8, <2>9, <2>10, <2>11, <2>12, <2>13 DEF d
<1>4. QED
  BY <1>2, <1>3

(* Everything but the order of the writes, which CrashKeepsWriteOrder      *)
(* claims only until the first reorganisation.                             *)
CrashBase ==
    /\ EngineInv /\ MemoryMatchesDisk
    /\ flushing \in BOOLEAN /\ restarts \in 0..MaxRestarts
    /\ Disk \in crashable
    /\ \A s \in crashable : IsDisk(s) /\ ArchitectRecorded(s)
    /\ AckedCrystalsSurvive

LEMMA CrashInvParts ==
    CrashInv <=> CrashBase /\ CrashKeepsWriteOrder
<1>1. CrashBase => CrashBase /\ LogsKeepArchitect(undo)
  BY DEF CrashBase, EngineInv
<1>2. CrashInv => LogsKeepArchitect(undo)
  BY DEF CrashInv, ArchitectRecorded, Disk
<1>3. QED
  BY <1>1, <1>2 DEF CrashInv, CrashBase, EngineInv

LEMMA OrderIsOrdered ==
    CrashKeepsWriteOrder <=> ("reorg" \notin events => \A s \in crashable : Ordered(s))
  BY DEF CrashKeepsWriteOrder, Ordered

LEMMA StartsWell ==
    ASSUME NEW s, IsDisk(s), ArchitectRecorded(s), StartFrom(s),
           events \subseteq Events, restarts \in 0..MaxRestarts
    PROVE  /\ CrashBase'
           /\ events' = events
           /\ Ordered(s) => \A t \in crashable' : Ordered(t)
<1> DEFINE d == AfterGenesis(s)
<1>1. /\ IsDisk(d) /\ ArchitectRecorded(d) /\ d.atoms[Architect] # Absent
      /\ s.atoms[Architect] = Absent => d.atoms = GenesisAtoms
      /\ DOMAIN s.roots \subseteq DOMAIN d.roots
      /\ DOMAIN s.crystals \subseteq DOMAIN d.crystals
      /\ \A h \in DOMAIN s.crystals : d.crystals[h] = s.crystals[h]
      /\ Ordered(s) => Ordered(d)
      /\ RestoredIndex(s) \in Heights
      /\ d.latest \in DOMAIN d.crystals => d.latest = RestoredIndex(s)
  BY AfterGenesisKeeps
<1>2. /\ dbAtoms' = d.atoms /\ dbRoot' = d.root /\ roots' = d.roots
      /\ crystals' = d.crystals /\ latest' = d.latest /\ undo' = d.undo
      /\ atoms' = d.atoms /\ idx' = RestoredIndex(s) /\ chamber' = {}
      /\ hist' = [h \in {idx'} |-> atoms']
      /\ crashable' = Between(s, d) /\ acked' = s.crystals /\ flushing' = FALSE
      /\ restarts < MaxRestarts /\ restarts' = restarts + 1
      /\ events' = events
  BY DEF StartFrom
<1> HIDE DEF d
<1>3. TypeOK'
  BY <1>1, <1>2 DEF TypeOK, IsDisk
<1>4. IndexMatchesTip' /\ MemoryMatchesDisk'
  BY <1>1, <1>2 DEF IndexMatchesTip, HasLatest, MemoryMatchesDisk
<1>5. EngineInv'
  BY <1>1, <1>2, <1>3, <1>4 DEF EngineInv, ArchitectRecorded
<1>6. Disk' = d
  BY <1>1, <1>2 DEF Disk, IsDisk
<1>7. Disk' \in crashable'
  BY <1>2, <1>6, BetweenEnds
<1>8. \A t \in crashable' : /\ IsDisk(t) /\ ArchitectRecorded(t)
                            /\ t.crystals = s.crystals \/ t.crystals = d.crystals
  BY <1>1, <1>2, BetweenKeeps
<1>9. AckedCrystalsSurvive'
  BY <1>1, <1>2, <1>8 DEF AckedCrystalsSurvive
<1>10. Ordered(s) => \A t \in crashable' : Ordered(t)
  BY <1>1, <1>2, BetweenOrdered
<1>11. flushing' \in BOOLEAN
  BY <1>2
<1>12. restarts' \in 0..MaxRestarts
  BY <1>2, RestartsAssumption
<1>13. QED
  BY <1>2, <1>4, <1>5, <1>7, <1>8, <1>9, <1>10, <1>11, <1>12 DEF CrashBase

-----------------------------------------------------------------------------
(* The invariant is inductive *)

LEMMA CrashInit == DInit => CrashInv
<1> SUFFICES ASSUME DInit PROVE CrashInv
  OBVIOUS
<1>1. ChainInv /\ MemoryMatchesDisk /\ events = {}
  BY ChainInit DEF DInit, Init, MemoryMatchesDisk
<1>2. TypeOK /\ IndexMatchesTip
  BY <1>1 DEF ChainInv
<1>3. atoms = GenesisAtoms /\ dbAtoms = GenesisAtoms /\ DOMAIN undo = {}
      /\ latest = 0 /\ DOMAIN crystals = {0} /\ DOMAIN roots = {0}
  BY DEF DInit, Init
<1>4. EngineInv
  BY <1>2, <1>3, GenesisAtomsFacts DEF EngineInv, LogsKeepArchitect
<1>5. IsDisk(EmptyDisk) /\ ArchitectRecorded(EmptyDisk) /\ Ordered(EmptyDisk)
      /\ EmptyDisk.atoms = NoAtoms /\ DOMAIN EmptyDisk.roots = {}
      /\ DOMAIN EmptyDisk.crystals = {}
  BY GenesisAtomsFacts DEF EmptyDisk, IsDisk, ArchitectRecorded, Ordered, LogsKeepArchitect
<1>6. IsDisk(Disk) /\ ArchitectRecorded(Disk) /\ Ordered(Disk)
      /\ Disk.atoms = GenesisAtoms
  BY <1>2, <1>3, DiskIsRecord, GenesisAtomsFacts
     DEF Disk, ArchitectRecorded, Ordered, LogsKeepArchitect
<1>7. \A s \in crashable : IsDisk(s) /\ ArchitectRecorded(s)
  BY <1>5, <1>6, BetweenKeeps, GenesisAtomsFacts DEF DInit
<1>8. \A s \in crashable : Ordered(s)
  BY <1>5, <1>6, BetweenOrdered DEF DInit
<1>9. Disk \in crashable
  BY BetweenEnds DEF DInit
<1>10. AckedCrystalsSurvive
  BY <1>5 DEF DInit, AckedCrystalsSurvive
<1>11. flushing \in BOOLEAN
  BY DEF DInit
<1>12. restarts \in 0..MaxRestarts
  BY RestartsAssumption DEF DInit
<1>13. QED
  BY <1>1, <1>4, <1>7, <1>8, <1>9, <1>10, <1>11, <1>12, CrashInvParts, OrderIsOrdered DEF CrashBase

(* Mining or receiving a crystal adds the states between the old records   *)
(* and the new ones to what a crash may leave.                             *)
LEMMA WritesOnTip ==
    ASSUME CrashInv, MineBlock \/ AcceptChild \/ AcceptAsGenesis,
           crashable' = crashable \cup Between(Disk, Disk'),
           acked' = NotReplaced(acked), flushing' \in BOOLEAN, restarts' = restarts
    PROVE  CrashInv'
<1>1. CrashBase /\ CrashKeepsWriteOrder
  BY CrashInvParts
<1>2. EngineInv' /\ Grows /\ MemoryMatchesDisk'
  BY <1>1, OnTipEngine, MemoryStep DEF CrashBase, Next
<1>3. IsDisk(Disk) /\ ArchitectRecorded(Disk) /\ dbAtoms[Architect] # Absent
  BY <1>1 DEF CrashBase, EngineInv
<1>4. IsDisk(Disk') /\ ArchitectRecorded(Disk') /\ dbAtoms'[Architect] # Absent
  <2>1. TypeOK' => IsDisk(Disk')
    BY DEF TypeOK, IsDisk, Disk
  <2>2. QED
    BY <1>2, <2>1 DEF EngineInv, ArchitectRecorded, Disk
<1>5. /\ Disk.atoms = dbAtoms /\ Disk.crystals = crystals /\ Disk.roots = roots
      /\ Disk'.atoms = dbAtoms' /\ Disk'.crystals = crystals' /\ Disk'.roots = roots'
  BY DEF Disk
<1>6. \A s \in Between(Disk, Disk') :
        IsDisk(s) /\ ArchitectRecorded(s) /\ (s.crystals = crystals \/ s.crystals = crystals')
  BY <1>3, <1>4, <1>5, BetweenKeeps
<1>7. Disk' \in crashable'
  BY BetweenEnds
<1>8. AckedCrystalsSurvive'
  <2> SUFFICES ASSUME NEW s \in crashable', NEW h \in DOMAIN acked'
               PROVE  h \in DOMAIN s.crystals /\ s.crystals[h] = acked'[h]
    BY DEF AckedCrystalsSurvive
  <2>1. /\ h \in DOMAIN acked /\ acked'[h] = acked[h]
        /\ h \in DOMAIN crystals' /\ crystals'[h] = acked[h]
    BY DEF NotReplaced
  <2>2. h \in DOMAIN crystals /\ crystals[h] = acked[h]
    BY <1>1, <1>5, <2>1 DEF CrashBase, AckedCrystalsSurvive
  <2>3. CASE s \in crashable
    BY <1>1, <2>1, <2>3 DEF CrashBase, AckedCrystalsSurvive
  <2>4. CASE s \in Between(Disk, Disk')
    BY <1>6, <2>1, <2>2, <2>4
  <2>5. QED
    BY <2>3, <2>4
<1>9. CrashKeepsWriteOrder'
  <2>1. "reorg" \in events => "reorg" \in events'
    <3>1. events \subseteq events'
      BY DEF MineBlock, AcceptChild, AcceptAsGenesis, ApplyOnTip
    <3>2. QED
      BY <3>1
  <2> SUFFICES ASSUME "reorg" \notin events', NEW s \in crashable' PROVE Ordered(s)
    BY DEF CrashKeepsWriteOrder, Ordered
  <2>2. \A t \in crashable : Ordered(t)
    BY <1>1, <2>1, OrderIsOrdered
  <2>3. Ordered(Disk) /\ Ordered(Disk')
    BY <1>1, <1>2, <2>2 DEF CrashBase, Grows
  <2>4. CASE s \in Between(Disk, Disk')
    BY <1>2, <1>3, <1>4, <1>5, <2>3, <2>4, BetweenOrdered DEF Grows
  <2>5. QED
    BY <2>2, <2>4
<1>10. CrashBase'
  BY <1>1, <1>2, <1>6, <1>7, <1>8 DEF CrashBase
<1>11. QED
  BY <1>9, <1>10, CrashInvParts DEF CrashInv, CrashBase, EngineInv, ArchitectRecorded, Disk

(* A reorganisation starts from its own flush: what a crash may leave is   *)
(* between the rolled-back records and the new ones.                       *)
LEMMA WritesReorg ==
    ASSUME CrashInv, Reorg
    PROVE  CrashInv'
<1>1. PICK a \in Heights :
        /\ ReorgSucceedsTo(a) \/ ReorgRefusedAt(a) \/ ReorgMismatchAt(a)
        /\ crashable' = Between(RolledBack(a), Disk')
        /\ acked' = NotReplaced(Cut(crystals, a))
  BY DEF Reorg
<1>2. CrashBase
  BY CrashInvParts
<1>3. /\ EngineInv' /\ "reorg" \in events'
      /\ IsDisk(RolledBack(a)) /\ ArchitectRecorded(RolledBack(a))
      /\ RolledBack(a).atoms[Architect] # Absent
      /\ RolledBack(a).crystals = Cut(crystals, a)
  BY <1>1, <1>2, ReorgEngine DEF CrashBase
<1>4. MemoryMatchesDisk'
  BY <1>1, <1>2, MemoryStep DEF CrashBase, Next, ReorgSucceeds, ReorgRefused, ReorgMismatch
<1>5. IsDisk(Disk') /\ ArchitectRecorded(Disk') /\ Disk'.atoms[Architect] # Absent
      /\ Disk'.crystals = crystals'
  <2>1. TypeOK' => IsDisk(Disk')
    BY DEF TypeOK, IsDisk, Disk
  <2>2. QED
    BY <1>3, <2>1 DEF EngineInv, ArchitectRecorded, Disk
<1>6. \A s \in crashable' :
        /\ IsDisk(s) /\ ArchitectRecorded(s)
        /\ s.crystals = Cut(crystals, a) \/ s.crystals = crystals'
  BY <1>1, <1>3, <1>5, BetweenKeeps
<1>7. Disk' \in crashable'
  BY <1>1, BetweenEnds
<1>8. AckedCrystalsSurvive'
  <2>1. \A h \in DOMAIN acked' :
          /\ h \in DOMAIN Cut(crystals, a) /\ acked'[h] = Cut(crystals, a)[h]
          /\ h \in DOMAIN crystals' /\ acked'[h] = crystals'[h]
    BY <1>1 DEF NotReplaced
  <2>2. QED
    BY <1>6, <2>1 DEF AckedCrystalsSurvive
<1>9. flushing' \in BOOLEAN /\ restarts' \in 0..MaxRestarts
  BY <1>2 DEF CrashBase, Reorg
<1>10. QED
  BY <1>3, <1>4, <1>6, <1>7, <1>8, <1>9 DEF CrashInv, CrashKeepsWriteOrder, EngineInv

(* A crash, or an authenticated AdminShutdown, at any moment. *)
LEMMA CrashKeeps ==
    ASSUME CrashInv, Crash
    PROVE  CrashInv'
<1>1. PICK s \in crashable : StartFrom(s)
  BY DEF Crash
<1>2. CrashBase /\ CrashKeepsWriteOrder
  BY CrashInvParts
<1>3. /\ IsDisk(s) /\ ArchitectRecorded(s) /\ restarts \in 0..MaxRestarts
      /\ events \subseteq Events
  BY <1>1, <1>2 DEF CrashBase, EngineInv, TypeOK
<1>4. /\ CrashBase' /\ events' = events
      /\ Ordered(s) => \A t \in crashable' : Ordered(t)
  BY <1>1, <1>3, StartsWell
<1>5. CrashKeepsWriteOrder'
  BY <1>1, <1>2, <1>4, OrderIsOrdered DEF CrashKeepsWriteOrder, Ordered
<1>6. QED
  BY <1>4, <1>5 DEF CrashInv, CrashBase, EngineInv

(* What ctrl-c writes before it exits: the atoms in memory, and the root   *)
(* of the current index; the crystals, latest_index and the undo logs stay.*)
LEMMA ShutdownRecords ==
    ASSUME CrashInv
    PROVE  /\ IsDisk(ShutdownCommit) /\ ArchitectRecorded(ShutdownCommit)
           /\ ShutdownCommit.atoms[Architect] # Absent
           /\ MemoryMatchesDisk /\ "mismatch" \notin events => ShutdownCommit.atoms = atoms
           /\ ShutdownCommit.crystals = crystals /\ ShutdownCommit.latest = latest
           /\ Ordered(Disk) => Ordered(ShutdownCommit)
<1> DEFINE rt == [k \in Keys |-> IF atoms[k] = Absent THEN dbRoot[k] ELSE atoms[k]]
           at == [k \in Keys |-> IF atoms[k] = Absent THEN dbAtoms[k] ELSE atoms[k]]
           rs == Put(roots, idx, rt)
           d == ShutdownCommit
<1>t. TypeOK /\ atoms[Architect] # Absent /\ Architect \in Keys /\ LogsKeepArchitect(undo)
  BY ConstantsAssumption DEF CrashInv, ArchitectRecorded, Disk
<1>1. at \in Atoms /\ rt \in Atoms /\ at[Architect] # Absent
  BY <1>t DEF TypeOK, Atoms
<1>2. MemoryMatchesDisk /\ "mismatch" \notin events => at = atoms
  BY <1>t DEF MemoryMatchesDisk, TypeOK, Atoms
<1>3. d = [Disk EXCEPT !.atoms = at, !.root = rt, !.roots = rs]
  BY DEF ShutdownCommit, Disk
<1> HIDE DEF rt, at
<1>4. /\ DOMAIN rs = DOMAIN roots \cup {idx} /\ DOMAIN rs \subseteq Heights
      /\ \A h \in DOMAIN rs : rs[h] \in Atoms
  BY <1>1, <1>t DEF Put, TypeOK
<1> HIDE DEF rs, d
<1>5. d = Record(at, rt, rs, crystals, latest, undo)
  BY <1>3 DEF Disk, Record
<1>6. /\ d.atoms = at /\ d.root = rt /\ d.roots = rs
      /\ d.crystals = crystals /\ d.latest = latest /\ d.undo = undo
  BY <1>5 DEF Record
<1>7. d = [atoms |-> d.atoms, root |-> d.root, roots |-> d.roots,
           crystals |-> d.crystals, latest |-> d.latest, undo |-> d.undo]
  BY <1>5, <1>6 DEF Record
<1>8. IsDisk(d)
  BY <1>1, <1>4, <1>6, <1>7, <1>t DEF IsDisk, TypeOK
<1>9. ArchitectRecorded(d) /\ d.atoms[Architect] # Absent
  BY <1>1, <1>6, <1>t DEF ArchitectRecorded
<1>10. Ordered(Disk) => Ordered(d)
  BY <1>4, <1>6 DEF Ordered, Disk
<1>11. QED
  BY <1>2, <1>6, <1>8, <1>9, <1>10 DEF d

LEMMA CtrlCKeeps ==
    ASSUME CrashInv, CtrlC
    PROVE  CrashInv'
<1> DEFINE s == ShutdownCommit
<1>1. StartFrom(s)
  BY DEF CtrlC
<1>2. CrashBase /\ CrashKeepsWriteOrder
  BY CrashInvParts
<1>3. IsDisk(s) /\ ArchitectRecorded(s) /\ (Ordered(Disk) => Ordered(s))
  BY ShutdownRecords
<1> HIDE DEF s
<1>4. restarts \in 0..MaxRestarts /\ events \subseteq Events /\ Disk \in crashable
  BY <1>2 DEF CrashBase, EngineInv, TypeOK
<1>5. /\ CrashBase' /\ events' = events
      /\ Ordered(s) => \A t \in crashable' : Ordered(t)
  BY <1>1, <1>3, <1>4, StartsWell
<1>6. CrashKeepsWriteOrder'
  BY <1>2, <1>3, <1>4, <1>5, OrderIsOrdered DEF CrashKeepsWriteOrder, Ordered
<1>7. QED
  BY <1>5, <1>6 DEF CrashInv, CrashBase, EngineInv

LEMMA FlushKeeps ==
    ASSUME CrashInv, Flush
    PROVE  CrashInv'
<1>1. /\ crashable' = {Disk} /\ acked' = crystals /\ flushing' = FALSE
      /\ UNCHANGED <<vars, restarts>>
  BY DEF Flush
<1>2. UNCHANGED <<atoms, idx, chamber, dbAtoms, dbRoot, roots, crystals, latest, undo,
                  hist, events, restarts>>
  BY <1>1 DEF vars, memory, disk
<1>3. Disk' = Disk /\ Disk.crystals = crystals
  BY <1>2 DEF Disk
<1>4. TypeOK' /\ IndexMatchesTip' /\ MemoryMatchesDisk'
      /\ atoms'[Architect] # Absent /\ dbAtoms'[Architect] # Absent
  BY <1>2 DEF CrashInv, TypeOK, IndexMatchesTip, HasLatest, MemoryMatchesDisk
<1>5. AckedCrystalsSurvive'
  BY <1>1, <1>3 DEF AckedCrystalsSurvive
<1>6. CrashKeepsWriteOrder'
  BY <1>1, <1>2 DEF CrashInv, CrashKeepsWriteOrder
<1>7. /\ \A s \in crashable' : IsDisk(s) /\ ArchitectRecorded(s)
      /\ Disk' \in crashable' /\ restarts' \in 0..MaxRestarts
  BY <1>1, <1>2, <1>3 DEF CrashInv
<1>8. flushing' \in BOOLEAN
  BY <1>1
<1>9. QED
  BY <1>4, <1>5, <1>6, <1>7, <1>8 DEF CrashInv

LEMMA CrashStep == CrashInv /\ [DNext]_allVars => CrashInv'
<1> SUFFICES ASSUME CrashInv, [DNext]_allVars PROVE CrashInv'
  OBVIOUS
<1>1. CASE Mine
  <2>1. flushing' \in BOOLEAN
    BY <1>1 DEF Mine
  <2>2. QED
    BY <1>1, <2>1, WritesOnTip DEF Mine
<1>2. CASE Flush
  BY <1>2, FlushKeeps
<1>3. CASE Receive
  BY <1>3, WritesOnTip DEF Receive, CrashInv
<1>4. CASE Reorg
  BY <1>4, WritesReorg
<1>5. CASE Crash \/ AdminShutdown
  BY <1>5, CrashKeeps DEF AdminShutdown
<1>6. CASE CtrlC
  BY <1>6, CtrlCKeeps
<1>7. CASE UNCHANGED allVars
  <2>1. UNCHANGED <<atoms, idx, chamber, dbAtoms, dbRoot, roots, crystals, latest, undo,
                    hist, events, crashable, flushing, acked, restarts>>
    BY <1>7 DEF allVars, durabilityVars, vars, memory, disk
  <2>2. QED
    BY <2>1 DEF CrashInv, TypeOK, IndexMatchesTip, HasLatest, MemoryMatchesDisk, Disk,
       CrashKeepsWriteOrder, AckedCrystalsSurvive
<1>8. QED
  BY <1>1, <1>2, <1>3, <1>4, <1>5, <1>6, <1>7 DEF DNext

-----------------------------------------------------------------------------
(* The theorems *)

(* The inductive invariant of the node with crashes: every database state  *)
(* a crash may leave is well formed and keeps the architect's atom.        *)
THEOREM CrashInvariant == DSpec => []CrashInv
  BY CrashInit, CrashStep, PTL DEF DSpec

(* The engine's types hold across crashes and restarts, and before the     *)
(* first reorganisation no crash leaves a tip without its crystal, its     *)
(* undo log and its root.                                                  *)
THEOREM DurableCorrect == DSpec => []DurableInv
<1>1. CrashInv => DurableInv
  <2> SUFFICES ASSUME CrashInv PROVE DurableInv
    OBVIOUS
  <2>1. DOMAIN acked \subseteq DOMAIN Disk.crystals /\ Disk.crystals = crystals
    BY DEF CrashInv, AckedCrystalsSurvive, Disk
  <2>2. QED
    BY <2>1 DEF CrashInv, DurableInv, DTypeOK, TypeOK
<1>2. QED
  BY <1>1, CrashInvariant, PTL

(* No crash loses a crystal a completed flush made durable, unless the     *)
(* engine itself has replaced it.                                          *)
THEOREM AckedSurvive == DSpec => []AckedCrystalsSurvive
<1>1. CrashInv => AckedCrystalsSurvive
  BY DEF CrashInv
<1>2. QED
  BY <1>1, CrashInvariant, PTL

(* A ctrl-c shutdown and the restart after it give back the atoms in       *)
(* memory, also after reorganisations and crashes, unless a crystal was    *)
(* refused for its state root, and the height if the tip exists.           *)
THEOREM CtrlCCorrect == DSpec => CtrlCKeepsState
<1> DEFINE Step == CtrlC /\ "mismatch" \notin events
                      => atoms' = atoms /\ (HasLatest => idx' = idx)
<1>1. CrashInv /\ [DNext]_allVars => [Step]_allVars
  <2> SUFFICES ASSUME CrashInv, CtrlC, "mismatch" \notin events
               PROVE  atoms' = atoms /\ (HasLatest => idx' = idx)
    OBVIOUS
  <2> DEFINE s == ShutdownCommit
  <2>1. /\ s.atoms = atoms /\ s.atoms[Architect] # Absent
        /\ s.crystals = crystals /\ s.latest = latest
    BY ShutdownRecords DEF CrashInv
  <2>2. StartFrom(s)
    BY DEF CtrlC
  <2> HIDE DEF s
  <2>3. AfterGenesis(s) = s
    BY <2>1, GenesisAtomsFacts DEF AfterGenesis
  <2>4. atoms' = s.atoms /\ idx' = RestoredIndex(s)
    BY <2>2, <2>3 DEF StartFrom
  <2>5. HasLatest => RestoredIndex(s) = idx
    BY <2>1 DEF RestoredIndex, HasLatest, CrashInv, IndexMatchesTip, TypeOK
  <2>6. QED
    BY <2>1, <2>4, <2>5
<1>2. DSpec => [][Step]_allVars
  BY <1>1, CrashInvariant, PTL DEF DSpec
<1>3. QED
  BY <1>2 DEF CtrlCKeepsState

=============================================================================
