----------------------------- MODULE Durability -----------------------------
(***************************************************************************)
(* What a crash of the node leaves in sled, and what the node makes of it  *)
(* when it is started again.                                               *)
(*                                                                         *)
(* Sled appends every write to its log and makes the log durable at a      *)
(* flush (or earlier, in the background): a crash leaves the state after   *)
(* some prefix of the writes made since the last flush, and a transaction  *)
(* is one write.  The engine flushes at the end of mine_block, after the   *)
(* rollback of a reorganisation, and when it is shut down with ctrl-c; it  *)
(* does not flush a crystal it received, nor the genesis.                  *)
(***************************************************************************)
EXTENDS Solidification

CONSTANT MaxRestarts    \* bound of the model

ASSUME RestartsAssumption == MaxRestarts \in Nat

VARIABLES
    crashable,          \* the database states a crash may leave
    flushing,           \* mine_block has written its crystal, not flushed it
    acked,              \* the crystals a completed flush has made durable
    restarts            \* how often the node was started again

durabilityVars == <<crashable, flushing, acked, restarts>>
allVars == <<vars, durabilityVars>>

Disk == [atoms |-> dbAtoms, root |-> dbRoot, roots |-> roots,
         crystals |-> crystals, latest |-> latest, undo |-> undo]

-----------------------------------------------------------------------------
(* The order of the writes *)

(* commit_changeset inserts atom_{pk} one key at a time. *)
WithAtoms(b, e, S) ==
    [b EXCEPT !.atoms = [k \in Keys |-> IF k \in S THEN e.atoms[k] ELSE b.atoms[k]]]

(* The records of both tables, the newer one where they differ. *)
Merged(older, newer) ==
    [h \in DOMAIN older \cup DOMAIN newer |->
        IF h \in DOMAIN newer THEN newer[h] ELSE older[h]]

(* Mutant: the crystal is saved before its undo log. *)
CrystalBeforeUndo(b, e) ==
    LET rooted  == [WithAtoms(b, e, Keys) EXCEPT !.root = e.root]
        indexed == [rooted EXCEPT !.roots = e.roots]
        saved   == [indexed EXCEPT !.crystals = e.crystals]
        tipped  == [saved EXCEPT !.latest = e.latest]
    IN  {WithAtoms(b, e, S) : S \in SUBSET Keys} \cup
            {rooted, indexed, saved, tipped, e}

(* Every state finalize_solidification goes through from database state b  *)
(* to e: the atoms, mpt_root, mpt_root_{index}, undo_{index}, then the     *)
(* crystal, latest_index, and the pruning of old undo logs.  (The writes   *)
(* of a crystal refused for its state root end at mpt_root_{index}.)       *)
Between(b, e) ==
    LET rooted  == [WithAtoms(b, e, Keys) EXCEPT !.root = e.root]
        indexed == [rooted EXCEPT !.roots = e.roots]
        undone  == [indexed EXCEPT !.undo = Merged(b.undo, e.undo)]
        saved   == [undone EXCEPT !.crystals = e.crystals]
        tipped  == [saved EXCEPT !.latest = e.latest]
    IN  {WithAtoms(b, e, S) : S \in SUBSET Keys} \cup
            {rooted, indexed, undone, saved, tipped, e}

(* The transaction of perform_reorg: atoms, crystals and undo logs only. *)
RolledBack(a) ==
    [Disk EXCEPT !.atoms = RollBack(dbAtoms, a), !.crystals = Cut(crystals, a),
                 !.undo = Cut(undo, a)]

-----------------------------------------------------------------------------
(* Starting the node *)

NoAtoms == [k \in Keys |-> Absent]

EmptyDisk ==
    [atoms |-> NoAtoms, root |-> NoAtoms, roots |-> [h \in {} |-> {}],
     crystals |-> [h \in {} |-> {}], latest |-> None, undo |-> [h \in {} |-> {}]]

(* inherit_history, and StateTree::new when there is no latest crystal. *)
RestoredIndex(s) ==
    IF s.latest \in DOMAIN s.crystals THEN s.crystals[s.latest].index ELSE 0

(* try_auto_genesis runs when no atom was loaded.  Of the genesis crystal  *)
(* only the state root depends on what the trie already held.              *)
AfterGenesis(s) ==
    IF s.atoms # NoAtoms THEN s
    ELSE LET root == [s.root EXCEPT ![Architect] = GenesisValue] IN
         [s EXCEPT !.atoms = GenesisAtoms, !.root = root,
                   !.roots = Put(@, RestoredIndex(s), root),
                   !.crystals = Put(@, 0, [GenesisCrystal EXCEPT !.root = root]),
                   !.latest = 0]

(* PrimusProcessor::new on database state s: memory is loaded from it, the *)
(* undo logs and the state root are not looked at.                         *)
StartFrom(s) ==
    LET d == AfterGenesis(s) IN
    /\ dbAtoms' = d.atoms /\ dbRoot' = d.root /\ roots' = d.roots
    /\ crystals' = d.crystals /\ latest' = d.latest /\ undo' = d.undo
    /\ atoms' = d.atoms
    /\ idx' = RestoredIndex(s)
    /\ chamber' = {}
    /\ hist' = [h \in {idx'} |-> atoms']
    /\ crashable' = Between(s, d)
    /\ acked' = s.crystals
    /\ flushing' = FALSE
    /\ restarts < MaxRestarts /\ restarts' = restarts + 1
    /\ UNCHANGED events

DInit ==
    /\ Init
    /\ crashable = Between(EmptyDisk, Disk)
    /\ flushing = FALSE
    /\ acked = EmptyDisk.crystals
    /\ restarts = 0

-----------------------------------------------------------------------------
(* The engine's operations, with what a crash during or after them leaves *)

(* The crystals of a table that this step does not replace or delete. *)
NotReplaced(table) ==
    [h \in {g \in DOMAIN table : g \in DOMAIN crystals' /\ crystals'[g] = table[g]}
        |-> table[h]]

(* mine_block up to its flush; the engine mutex is kept. *)
Mine ==
    /\ ~flushing
    /\ MineBlock
    /\ crashable' = crashable \cup Between(Disk, Disk')
    /\ flushing' = (crystals' # crystals)
    /\ acked' = NotReplaced(acked)
    /\ UNCHANGED restarts

(* Mutant: mine_block returns without its flush. *)
FlushForgotten ==
    /\ flushing
    /\ flushing' = FALSE
    /\ acked' = crystals
    /\ UNCHANGED <<vars, crashable, restarts>>

Flush ==
    /\ flushing
    /\ flushing' = FALSE
    /\ crashable' = {Disk}
    /\ acked' = crystals
    /\ UNCHANGED <<vars, restarts>>

(* A crystal from the network is written without a flush. *)
Receive ==
    /\ ~flushing
    /\ AcceptChild \/ AcceptAsGenesis
    /\ crashable' = crashable \cup Between(Disk, Disk')
    /\ acked' = NotReplaced(acked)
    /\ UNCHANGED <<flushing, restarts>>

(* The rollback is flushed before the fork's crystal is solidified. *)
Reorg ==
    /\ ~flushing
    /\ \E a \in Heights :
          /\ ReorgSucceedsTo(a) \/ ReorgRefusedAt(a) \/ ReorgMismatchAt(a)
          /\ crashable' = Between(RolledBack(a), Disk')
          /\ acked' = NotReplaced(Cut(crystals, a))
    /\ UNCHANGED <<flushing, restarts>>

(* A power failure or a kill, in the middle of anything. *)
Crash == \E s \in crashable : StartFrom(s)

(* ipc.rs: an authenticated AdminShutdown calls process::exit without the  *)
(* engine mutex and without a flush.                                       *)
AdminShutdown == Crash

(* Mutant: the records are rewritten from the trie, not from memory. *)
ShutdownFromTrie ==
    [Disk EXCEPT !.atoms = dbRoot, !.roots = Put(@, idx, dbRoot)]

(* main.rs: ctrl-c commits every atom in memory once more under the        *)
(* current index, flushes, and exits.                                      *)
ShutdownCommit ==
    LET root == [k \in Keys |-> IF atoms[k] = Absent THEN dbRoot[k] ELSE atoms[k]]
        at   == [k \in Keys |-> IF atoms[k] = Absent THEN dbAtoms[k] ELSE atoms[k]]
    IN  [Disk EXCEPT !.atoms = at, !.root = root, !.roots = Put(@, idx, root)]

CtrlC ==
    /\ ~flushing
    /\ StartFrom(ShutdownCommit)

DNext ==
    \/ Mine
    \/ Flush
    \/ Receive
    \/ Reorg
    \/ Crash
    \/ AdminShutdown
    \/ CtrlC

DSpec == DInit /\ [][DNext]_allVars

-----------------------------------------------------------------------------
DTypeOK ==
    /\ TypeOK
    /\ flushing \in BOOLEAN
    /\ restarts \in 0..MaxRestarts
    /\ DOMAIN acked \subseteq Heights

(* Whatever a crash leaves, every crystal that a completed flush made      *)
(* durable is still there, unless the engine itself replaced it.           *)
AckedCrystalsSurvive ==
    \A s \in crashable : \A h \in DOMAIN acked :
        h \in DOMAIN s.crystals /\ s.crystals[h] = acked[h]

(* Before the first reorganisation: in whatever a crash leaves,            *)
(* latest_index points at a stored crystal, and that crystal (other than   *)
(* genesis) has its undo log and its mpt_root_{index}: the node that       *)
(* starts from it can roll its tip back and serve proofs for it.           *)
CrashKeepsWriteOrder ==
    events \cap {"reorg"} = {} =>
        \A s \in crashable : s.latest # None =>
            /\ s.latest \in DOMAIN s.crystals
            /\ s.latest > 0 => s.latest \in DOMAIN s.undo
            /\ s.latest \in DOMAIN s.roots

(* The engine's types hold across restarts, and so does the order of the   *)
(* writes: what a crash leaves never has a tip without its records.        *)
DurableInv == DTypeOK /\ CrashKeepsWriteOrder

(* A ctrl-c shutdown loses nothing: unless a crystal was refused for its   *)
(* state root, the restarted node has the atoms it had, also after         *)
(* reorganisations and crashes, and the height it had if its tip exists.   *)
CtrlCKeepsState ==
    [][CtrlC /\ "mismatch" \notin events
          => atoms' = atoms /\ (HasLatest => idx' = idx)]_allVars

-----------------------------------------------------------------------------
(* The inductive invariant behind the properties above. *)

IsDisk(s) ==
    /\ s = [atoms |-> s.atoms, root |-> s.root, roots |-> s.roots,
            crystals |-> s.crystals, latest |-> s.latest, undo |-> s.undo]
    /\ s.atoms \in Atoms /\ s.root \in Atoms
    /\ DOMAIN s.roots \subseteq Heights
    /\ \A h \in DOMAIN s.roots : s.roots[h] \in Atoms
    /\ DOMAIN s.crystals \subseteq Heights
    /\ \A h \in DOMAIN s.crystals :
          IsCrystal(s.crystals[h]) /\ s.crystals[h].index = h
    /\ s.latest \in Heights \cup {None}
    /\ DOMAIN s.undo \subseteq Heights
    /\ \A h \in DOMAIN s.undo : s.undo[h] \in PreImages

(* No undo log removes the architect's atom ... *)
LogsKeepArchitect(un) ==
    \A h \in DOMAIN un : Architect \in DOMAIN un[h] => un[h][Architect] # Absent

(* ... so a database without it is one whose genesis was never written.    *)
ArchitectRecorded(s) ==
    /\ LogsKeepArchitect(s.undo)
    /\ s.atoms[Architect] = Absent =>
          s.atoms = NoAtoms /\ DOMAIN s.crystals = {} /\ s.latest = None

CrashInv ==
    /\ TypeOK /\ flushing \in BOOLEAN /\ restarts \in 0..MaxRestarts
    /\ IndexMatchesTip /\ MemoryMatchesDisk
    /\ atoms[Architect] # Absent /\ dbAtoms[Architect] # Absent
    /\ Disk \in crashable
    /\ \A s \in crashable : IsDisk(s) /\ ArchitectRecorded(s)
    /\ CrashKeepsWriteOrder
    /\ AckedCrystalsSurvive

-----------------------------------------------------------------------------
(* What the documents say, and the code does not do. *)

(* Core specification, Flushing: the state is recoverable after an         *)
(* ungraceful shutdown.  Before any reorganisation or refused crystal, the *)
(* atoms a crash leaves are the ones the tip it leaves commits to.         *)
RecoveredStateMatchesTip ==
    events = {} =>
        \A s \in crashable : s.latest \in DOMAIN s.crystals =>
            s.crystals[s.latest].root = s.atoms

=============================================================================
