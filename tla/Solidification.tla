--------------------------- MODULE Solidification ---------------------------
(***************************************************************************)
(* The engine of one Primus node: how a crystal (block) is mined, received *)
(* from the network, solidified into memory and into the sled database,    *)
(* and rolled back by a chain reorganisation.                              *)
(*                                                                         *)
(* Every operation below runs under the engine mutex, so each is one       *)
(* action.  The in-memory state (StateTree) and the database are separate  *)
(* variables because the code updates them at different moments and not    *)
(* always together.  Crashes are in module Durability, which extends this  *)
(* one; the PVM is the constant operator Execute, modelled in module PVM.  *)
(***************************************************************************)
EXTENDS Naturals, FiniteSets, FiniteSetsExt

CONSTANTS
    Keys,               \* public keys of atoms
    Architect,          \* the key that receives mining rewards
    Values,             \* contents of a materialised atom
    Absent,             \* no atom under this key
    GenesisValue,       \* the architect's atom in the genesis changeset
    Reactions,          \* user reactions
    Reward,             \* the MiningReward reaction
    Sender(_),          \* the key of a user reaction's sender
    Execute(_, _, _),   \* PVM: atoms, crystal index, reactions -> changeset
    PvmErr,             \* ... or this, when the PVM returns Err
    Density(_),         \* calculate_density: the hash of a crystal
    NoHash,             \* the all-zero hash
    UnknownHash,        \* the hash of a crystal this node does not hold
    ZeroRoot,           \* the all-zero state root of an unsealed crystal
    WrongRoot,          \* any state root other than the one calculated here
    None,               \* latest_index before the first crystal
    Energies,           \* cumulative energies a peer's crystal may claim
    Payloads,           \* the sets of reactions a peer's crystal may carry
    MaxHeight,          \* bound of the model: largest crystal index
    FINALITY_DEPTH,
    UNDO_WINDOW

Heights == 0..MaxHeight
AllReactions == Reactions \cup {Reward}

(* A state of the ledger; it also stands for the root of the trie that     *)
(* holds exactly these atoms (the hash is taken to be collision free).     *)
Atoms == [Keys -> Values \cup {Absent}]
Changesets == UNION {[S -> Values] : S \in SUBSET Keys}
PreImages  == UNION {[S -> Values \cup {Absent}] : S \in SUBSET Keys}
Roots == Atoms \cup {ZeroRoot, WrongRoot}

ASSUME ConstantsAssumption ==
    /\ MaxHeight \in Nat /\ FINALITY_DEPTH \in Nat /\ UNDO_WINDOW \in Nat
    /\ Architect \in Keys
    /\ GenesisValue \in Values
    /\ Absent \notin Values
    /\ Energies \subseteq Nat
    /\ Payloads \subseteq SUBSET AllReactions
    /\ ZeroRoot \notin Atoms /\ WrongRoot \notin Atoms
    /\ None \notin Heights

ASSUME ExecuteAssumption ==
    /\ PvmErr \notin Changesets
    /\ \A at \in Atoms, i \in Heights, R \in SUBSET AllReactions :
          Execute(at, i, R) \in Changesets \cup {PvmErr}

VARIABLES
    (* memory: StateTree and the chamber *)
    atoms,              \* StateTree::atoms
    idx,                \* StateTree::current_crystal_index
    chamber,            \* ReactionChamber::volatile_reactions
    (* sled; a table maps the indices for which a record exists *)
    dbAtoms,            \* atom_{pk}
    dbRoot,             \* mpt_root and the trie below it
    roots,              \* mpt_root_{index}
    crystals,           \* crystal_{index}
    latest,             \* latest_index
    undo,               \* undo_{index}: the pre-images of the keys it wrote
    (* history, read by no action *)
    hist,               \* the atoms when the tip of this chain was height h
    events              \* which of the three unusual outcomes have occurred

memory == <<atoms, idx, chamber>>
disk == <<dbAtoms, dbRoot, roots, crystals, latest, undo>>
vars == <<memory, disk, hist, events>>

Events == {"reorg", "reorg_failed", "mismatch"}

IsCrystal(c) ==
    /\ c = [index |-> c.index, prev |-> c.prev, energy |-> c.energy,
            reactions |-> c.reactions, root |-> c.root]
    /\ c.index \in Heights
    /\ c.energy \in Nat
    /\ c.reactions \subseteq AllReactions
    /\ c.root \in Roots

-----------------------------------------------------------------------------
(* Helpers *)

(* Apply a changeset, or the pre-images of one, to a ledger state. *)
Override(at, cs) == [k \in Keys |-> IF k \in DOMAIN cs THEN cs[k] ELSE at[k]]

(* Mutant: the undo log records the values after the changeset. *)
PostImageOf(at, cs) == cs

(* UndoLog: the value in memory of every key the changeset writes. *)
PreImageOf(at, cs) == [k \in DOMAIN cs |-> at[k]]

(* Insert a record into a table. *)
Put(table, h, v) ==
    [g \in DOMAIN table \cup {h} |-> IF g = h THEN v ELSE table[g]]

(* get_crystal_latest: the crystal latest_index points at, if it exists. *)
HasLatest == latest \in DOMAIN crystals
LatestCrystal == crystals[latest]

(* Mutant: the undo window is one log too short. *)
PruneTooMany(un, height) ==
    [h \in {g \in DOMAIN un : g + UNDO_WINDOW > height} |-> un[h]]

(* prune_undo_window(height): drop every undo log below height - WINDOW.   *)
Prune(un, height) ==
    [h \in {g \in DOMAIN un : g + UNDO_WINDOW >= height} |-> un[h]]

(* Mutant: the record of the old tip survives the rollback. *)
CutKeepingTip(table, a) ==
    [h \in {g \in DOMAIN table : g <= a \/ g >= idx} |-> table[h]]

(* Drop the records of the rolled-back heights (a, idx]. *)
Cut(table, a) ==
    [h \in {g \in DOMAIN table : g <= a \/ g > idx} |-> table[h]]

(* The heights in (a, top] whose undo log in un restores key k. *)
Restoring(un, a, top, k) ==
    {h \in DOMAIN un : a < h /\ h <= top /\ k \in DOMAIN un[h]}

(* Undo logs are applied from the tip downwards, so what remains under a   *)
(* key is the pre-image recorded by the lowest rolled-back height.         *)
Rewound(at, un, a, top) ==
    [k \in Keys |-> IF Restoring(un, a, top, k) = {} THEN at[k]
                    ELSE un[Min(Restoring(un, a, top, k))][k]]

RollBack(at, a) == Rewound(at, undo, a, idx)

(* perform_reorg step 1: a is the highest local crystal below the fork's   *)
(* first crystal that is its parent, and height 0 when there is none.      *)
IsParent(c, h) ==
    h < c.index /\ h \in DOMAIN crystals /\ Density(crystals[h]) = c.prev

CommonAncestor(c, a) ==
    \/ IsParent(c, a) /\ \A h \in Heights : IsParent(c, h) => h <= a
    \/ a = 0 /\ \A h \in Heights : ~IsParent(c, h)

(* local_tip.saturating_sub(fork_base.index.saturating_sub(1)) *)
RollbackDepth(c) ==
    LET base == IF c.index = 0 THEN 0 ELSE c.index - 1
    IN  IF idx < base THEN 0 ELSE idx - base

-----------------------------------------------------------------------------
(* After genesis: PrimusProcessor::new on an empty directory. *)

GenesisAtoms == [k \in Keys |-> IF k = Architect THEN GenesisValue ELSE Absent]

GenesisCrystal ==
    [index |-> 0, prev |-> NoHash, energy |-> 0, reactions |-> {},
     root |-> GenesisAtoms]

Init ==
    /\ atoms = GenesisAtoms /\ idx = 0 /\ chamber = {}
    /\ dbAtoms = GenesisAtoms /\ dbRoot = GenesisAtoms
    /\ roots = [h \in {0} |-> GenesisAtoms]
    /\ crystals = [h \in {0} |-> GenesisCrystal]
    /\ latest = 0
    /\ undo = [h \in {} |-> {}]
    /\ hist = [h \in {0} |-> GenesisAtoms]
    /\ events = {}

-----------------------------------------------------------------------------
(* finalize_solidification of crystal c, started from memory atoms at, the *)
(* raw atom records da, and the tables cr, un and (history) hi.  The trie  *)
(* is always the current one: nothing ever rolls it back.                  *)

(* Mutant: the root is taken before the changeset is inserted in the trie. *)
RootBefore(c, at) == dbRoot

Calculated(c, at) == Override(dbRoot, Execute(at, c.index, c.reactions))

Executes(c, at) == Execute(at, c.index, c.reactions) # PvmErr

(* Mutant: commit_changeset inserts into the trie but forgets atom_{pk}. *)
CommitTrieOnly(c, at, da) ==
    /\ dbAtoms' = da
    /\ dbRoot' = Calculated(c, at)
    /\ roots' = Put(roots, c.index, Calculated(c, at))

(* commit_changeset, which runs before the state root is compared. *)
CommitChangeset(c, at, da) ==
    /\ dbAtoms' = Override(da, Execute(at, c.index, c.reactions))
    /\ dbRoot' = Calculated(c, at)
    /\ roots' = Put(roots, c.index, Calculated(c, at))

FinalizeSolidification(c, at, da, cr, un, hi, ch) ==
    LET cs == Execute(at, c.index, c.reactions) IN
    /\ Executes(c, at)
    /\ c.root \in {ZeroRoot, Calculated(c, at)}
    /\ CommitChangeset(c, at, da)
    /\ undo' = Prune(Put(un, c.index, PreImageOf(at, cs)), c.index)
    /\ crystals' = Put(cr, c.index, [c EXCEPT !.root = Calculated(c, at)])
    /\ latest' = c.index
    /\ atoms' = Override(at, cs)
    /\ idx' = c.index
    /\ chamber' = ch \ c.reactions
    /\ hist' = Put(hi, c.index, Override(at, cs))

(* The same call when the crystal carries a different state root: the      *)
(* error is returned after the changeset was committed to the database.    *)
FinalizeMismatch(c, at, da) ==
    /\ Executes(c, at)
    /\ c.root \notin {ZeroRoot, Calculated(c, at)}
    /\ CommitChangeset(c, at, da)

-----------------------------------------------------------------------------
(* engine.rs: mine_block *)

(* prepare_next_physical_state: with no latest crystal the next index is 1 *)
(* on top of the zero hash.                                                *)
NextCrystal(R) ==
    [index     |-> (IF HasLatest THEN LatestCrystal.index ELSE 0) + 1,
     prev      |-> IF HasLatest THEN Density(LatestCrystal) ELSE NoHash,
     energy    |-> IF HasLatest THEN LatestCrystal.energy ELSE 0,
     reactions |-> R,
     root      |-> ZeroRoot]

(* synthesize_with_gravity keeps at most one reaction per sender; which    *)
(* ones evaporate depends on the heat.                                     *)
Clusters(pool) ==
    {S \in SUBSET pool : \A r, s \in S : Sender(r) = Sender(s) => r = s}

(* The PVM pre-filter tries every reaction alone, and the reward is put in *)
(* front when the architect's atom exists.                                 *)
Confirmed(cluster) ==
    {r \in cluster : Execute(atoms, idx, {r}) # PvmErr}
        \cup (IF atoms[Architect] = Absent THEN {} ELSE {Reward})

(* mine_block with the reactions rxs drained from the mempool.  The        *)
(* chamber is drained whether or not a crystal comes out of it.            *)
MineBlock ==
    \E rxs \in SUBSET Reactions :
    \E cluster \in Clusters(chamber \cup rxs) :
        LET c == NextCrystal(Confirmed(cluster)) IN
        /\ c.index \in Heights
        /\ \/ FinalizeSolidification(c, atoms, dbAtoms, crystals, undo, hist, {})
           \/ /\ chamber' = {}          \* PoW unsolved, or the PVM failed
              /\ UNCHANGED <<atoms, idx, disk, hist>>
        /\ UNCHANGED events

(* processor.rs: process_network_reaction; an overheated chamber refuses. *)
ProcessNetworkReaction ==
    \E r \in Reactions :
        /\ atoms[Sender(r)] # Absent \/ Sender(r) = Architect
        /\ chamber' = chamber \cup {r}
        /\ UNCHANGED <<atoms, idx, disk, hist, events>>

-----------------------------------------------------------------------------
(* processor.rs: process_network_crystal.  verify_pow compares a hash with *)
(* a target that depends on the local chamber: both outcomes are possible, *)
(* and where a failure changes nothing it is a stuttering step.            *)

(* A peer's crystal before its state root is looked at.  All parents this  *)
(* node does not hold behave alike.                                        *)
Incoming ==
    [index : Heights,
     prev : {UnknownHash} \cup
            {Density(crystals[h]) : h \in DOMAIN crystals},
     energy : Energies,
     reactions : Payloads,
     root : {ZeroRoot}]

(* The same crystal with any state root it may carry; all roots other than *)
(* zero and the one calculated here, from memory atoms at, behave alike.   *)
Claims(c, at) ==
    {[c EXCEPT !.root = r] :
        r \in {ZeroRoot, WrongRoot} \cup
              (IF Executes(c, at) THEN {Calculated(c, at)} ELSE {})}

(* Solidify c on top of the current state, or fail on its state root. *)
ApplyOnTip(c) ==
    \/ /\ FinalizeSolidification(c, atoms, dbAtoms, crystals, undo, hist, chamber)
       /\ UNCHANGED events
    \/ /\ FinalizeMismatch(c, atoms, dbAtoms)
       /\ events' = events \cup {"mismatch"}
       /\ UNCHANGED <<memory, crystals, latest, undo, hist>>

(* The child of the local tip. *)
AcceptChild ==
    \E h \in Incoming :
        /\ HasLatest
        /\ h.index = LatestCrystal.index + 1
        /\ h.prev = Density(LatestCrystal)
        /\ \E c \in Claims(h, atoms) : ApplyOnTip(c)

(* get_crystal_latest returned None: whatever arrives is taken for genesis. *)
AcceptAsGenesis ==
    \E h \in Incoming :
        /\ ~HasLatest
        /\ \E c \in Claims(h, atoms) : ApplyOnTip(c)

(* A heavier crystal that is not a child of the tip. *)
TriggersReorg(c) ==
    /\ HasLatest
    /\ \/ /\ c.index = LatestCrystal.index + 1
          /\ c.prev # Density(LatestCrystal)
          /\ c.energy > LatestCrystal.energy + 1
       \/ /\ c.index = LatestCrystal.index
          /\ c.energy > LatestCrystal.energy

(* Mutant: a missing undo log is skipped. *)
IgnoreMissingUndo(a) == a <= idx

(* perform_reorg step 2: the undo log of every height above a exists. *)
CanRollBack(a) == \A h \in Heights : a < h /\ h <= idx => h \in DOMAIN undo

(* What steps 3 and 4 of perform_reorg leave when step 5 fails: memory and *)
(* the records are rewound to height a, latest_index is not.               *)
Rewind(a) ==
    /\ atoms' = RollBack(atoms, a)
    /\ idx' = a
    /\ crystals' = Cut(crystals, a)
    /\ undo' = Cut(undo, a)
    /\ hist' = Cut(hist, a)
    /\ UNCHANGED <<chamber, latest>>

(* perform_reorg(vec![c]) up to the first write, for common ancestor a. *)
ReorgAllowed(c, a) ==
    /\ TriggersReorg(c)
    /\ RollbackDepth(c) <= FINALITY_DEPTH
    /\ CommonAncestor(c, a)
    /\ CanRollBack(a)

(* The fork's crystal replaces the rolled-back ones. *)
ReorgSucceedsTo(a) ==
    /\ \E h \in Incoming :
          /\ ReorgAllowed(h, a)
          /\ \E c \in Claims(h, RollBack(atoms, a)) :
                FinalizeSolidification(c, RollBack(atoms, a), RollBack(dbAtoms, a),
                    Cut(crystals, a), Cut(undo, a), Cut(hist, a), chamber)
    /\ events' = events \cup {"reorg"}

(* verify_pow or the PVM refuses the fork's crystal after the rollback. *)
ReorgRefusedAt(a) ==
    /\ \E h \in Incoming : ReorgAllowed(h, a)
    /\ Rewind(a)
    /\ dbAtoms' = RollBack(dbAtoms, a)
    /\ events' = events \cup {"reorg", "reorg_failed"}
    /\ UNCHANGED <<dbRoot, roots>>

(* Its state root does not match, after the rollback and the commit. *)
ReorgMismatchAt(a) ==
    /\ \E h \in Incoming :
          /\ ReorgAllowed(h, a)
          /\ \E c \in Claims(h, RollBack(atoms, a)) :
                FinalizeMismatch(c, RollBack(atoms, a), RollBack(dbAtoms, a))
    /\ Rewind(a)
    /\ events' = events \cup {"reorg", "reorg_failed", "mismatch"}

ReorgSucceeds == \E a \in Heights : ReorgSucceedsTo(a)
ReorgRefused  == \E a \in Heights : ReorgRefusedAt(a)
ReorgMismatch == \E a \in Heights : ReorgMismatchAt(a)

Next ==
    \/ MineBlock
    \/ ProcessNetworkReaction
    \/ AcceptChild
    \/ AcceptAsGenesis
    \/ ReorgSucceeds
    \/ ReorgRefused
    \/ ReorgMismatch

Spec == Init /\ [][Next]_vars

-----------------------------------------------------------------------------
TypeOK ==
    /\ atoms \in Atoms /\ idx \in Heights /\ chamber \subseteq AllReactions
    /\ dbAtoms \in Atoms /\ dbRoot \in Atoms
    /\ DOMAIN roots \subseteq Heights /\ \A h \in DOMAIN roots : roots[h] \in Atoms
    /\ DOMAIN crystals \subseteq Heights
    /\ \A h \in DOMAIN crystals : IsCrystal(crystals[h]) /\ crystals[h].index = h
    /\ latest \in Heights \cup {None}
    /\ DOMAIN undo \subseteq Heights /\ \A h \in DOMAIN undo : undo[h] \in PreImages
    /\ DOMAIN hist \subseteq Heights /\ \A h \in DOMAIN hist : hist[h] \in Atoms
    /\ events \subseteq Events

(* The undo logs a reorg reads really rewind the ledger: rolling memory    *)
(* back to any earlier height of this chain for which perform_reorg finds  *)
(* its undo logs yields the atoms the node had at that height.  (Until a   *)
(* reorg has failed half way: see LatestExists.)                           *)
UndoRestoresHistory ==
    "reorg_failed" \notin events =>
        \A a \in DOMAIN hist :
            a <= idx /\ CanRollBack(a) => RollBack(atoms, a) = hist[a]

(* Memory and the atom records agree after every call of                   *)
(* finalize_solidification and perform_reorg, whatever its outcome, unless *)
(* a crystal was refused for its state root.                               *)
MemoryMatchesDisk == "mismatch" \notin events => dbAtoms = atoms

(* Whenever latest_index points at a stored crystal, that crystal's index  *)
(* is the index in memory, even after a reorg or a crystal has failed: the *)
(* PVM and the miner never work from two different heights.                *)
IndexMatchesTip == HasLatest => latest = idx

(* prune_undo_window keeps no undo log more than UNDO_WINDOW below the tip, *)
(* which is what bounds the depth of a reorg.                              *)
UndoWindowBound ==
    \A h \in DOMAIN undo : h + UNDO_WINDOW >= idx

(* Until a reorg or a crystal fails: latest_index points at a crystal,     *)
(* nothing is stored above it, every stored crystal inside the window can  *)
(* be rolled back unless an earlier reorg already used up the window, and  *)
(* root_at serves for every stored height the root in its crystal.         *)
TipConsistent ==
    events \subseteq {"reorg"} =>
        /\ HasLatest
        /\ \A h \in DOMAIN crystals \cup DOMAIN undo : h <= idx
        /\ events = {} => \A h \in Heights :
              0 < h /\ h <= idx /\ idx <= h + UNDO_WINDOW => h \in DOMAIN undo
        /\ \A h \in DOMAIN crystals :
              h \in DOMAIN roots /\ roots[h] = crystals[h].root

(* The state root sealed in the tip commits to exactly the atoms in memory *)
(* as long as no reorganisation took place and no crystal was refused.     *)
RootCommitsToAtoms ==
    events = {} => dbRoot = atoms /\ crystals[idx].root = atoms

(* A stored crystal more than UNDO_WINDOW below the tip is never replaced  *)
(* or removed (until a reorg has failed): rolling past it would need an    *)
(* undo log that prune_undo_window has removed.                            *)
DeepCrystalsImmutable ==
    [][\A h \in DOMAIN crystals :
          "reorg_failed" \notin events /\ h + UNDO_WINDOW < idx
              => h \in DOMAIN crystals' /\ crystals'[h] = crystals[h]]_vars

-----------------------------------------------------------------------------
(* The inductive invariant behind the properties above.  As long as no     *)
(* reorg failed, the tables stop at the tip, and the history has an entry  *)
(* for every stored crystal, for height 0 (where perform_reorg goes when   *)
(* it finds no parent) and, equal to the atoms in memory, for the tip.     *)
ChainShape ==
    "reorg_failed" \notin events =>
        /\ HasLatest
        /\ \A h \in DOMAIN undo \cup DOMAIN hist : h <= idx
        /\ idx \in DOMAIN hist /\ hist[idx] = atoms
        /\ {0} \cup DOMAIN crystals \subseteq DOMAIN hist

ChainInv ==
    /\ TypeOK
    /\ IndexMatchesTip
    /\ UndoWindowBound
    /\ ChainShape
    /\ UndoRestoresHistory

-----------------------------------------------------------------------------
(* What the code's comments and documents say, and the code does not do.   *)

(* processor.rs, BUG B FIX: a reorganisation cannot leave a half           *)
(* rolled-back database, so latest_index always points at a crystal.       *)
LatestExists == HasLatest

(* perform_reorg rejects a reorganisation past finality: a crystal         *)
(* FINALITY_DEPTH or more below the tip is never replaced or removed.      *)
FinalCrystalsImmutable ==
    [][\A h \in DOMAIN crystals :
          "reorg_failed" \notin events /\ h + FINALITY_DEPTH <= idx
              => h \in DOMAIN crystals' /\ crystals'[h] = crystals[h]]_vars

=============================================================================
