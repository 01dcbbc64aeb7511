-------------------------------- MODULE PVM --------------------------------
(***************************************************************************)
(* The native virtual machine: how the reactions of a crystal are executed *)
(* one after another into a changeset, which the engine applies to the     *)
(* ledger when all of them succeed and drops when one fails.               *)
(*                                                                         *)
(* Of an atom only the mass and the nonce are kept (elements evolve, but   *)
(* nothing here depends on them).  What physics.rs computes from hashes,   *)
(* temperature and stars is given by the constants Curvature and Tax; the  *)
(* complexity they lead to stays far below MAX_SAFE_COMPLEXITY.            *)
(***************************************************************************)
EXTENDS Naturals, Integers, Sequences, FiniteSets, Functions

CONSTANTS
    Keys, Architect,
    Absent,             \* no atom under this key
    NoKey,              \* no entangled partner
    Partner(_),         \* quantum_state: the partner an atom is entangled with
    Rx,                 \* the reactions that may be submitted
    Curvature(_, _),    \* heat of a reaction at a crystal index
    Tax(_, _),          \* calculate_entropy_tax, likewise
    Decay(_, _),        \* what apply_decay takes off a mass at an index
    THERMAL_CAPACITY,
    MINING_REWARD_AMOUNT,
    GenesisMass,
    MaxMass, MaxNonce,  \* u64::MAX, for saturating and checked arithmetic
    MaxBatch,           \* bound of the model: reactions in a crystal
    MaxBlocks           \* bound of the model: crystals

Masses == 0..MaxMass
Nonces == 0..MaxNonce
AtomRecords == [mass : Masses, nonce : Nonces]
UserKinds == {"transfer", "generic", "contract", "call", "unknown"}

(* nonce is the one in the sender's snapshot; snap and snapNonce are the   *)
(* mass and the nonce in the receiver's; amount is the storage cost of a   *)
(* contract's code.                                                        *)
Reactions ==
    [kind : UserKinds \cup {"reward"}, sender : Keys, receiver : Keys,
     amount : Masses, energy : Int, nonce : Nonces, snap : Masses,
     snapNonce : Nonces, signed : BOOLEAN]

ASSUME PVMAssumption ==
    /\ MaxMass \in Nat /\ MaxNonce \in Nat
    /\ THERMAL_CAPACITY \in Nat /\ MINING_REWARD_AMOUNT \in Masses
    /\ GenesisMass \in Masses
    /\ MaxBatch \in Nat /\ MaxBlocks \in Nat
    /\ IsFiniteSet(Keys)       \* byte arrays of a fixed width
    /\ Architect \in Keys /\ Absent \notin AtomRecords
    /\ Rx \subseteq Reactions
    /\ \A i \in 0..MaxBlocks, rx \in Rx :
          Curvature(rx, i) \in Nat /\ Tax(rx, i) \in Nat
    /\ \A i \in 0..MaxBlocks, m \in Masses : Decay(m, i) \in 0..m

VARIABLES
    ledger,             \* StateTree::atoms
    height,             \* StateTree::current_crystal_index
    batch,              \* the reactions of the crystal being executed
    pos,                \* the next one; 0 when no crystal is executed
    change,             \* the changeset so far
    heat,               \* total_crystal_heat
    (* history, read by no action *)
    spent,              \* <<sender, nonce>> of the user reactions committed
    spending,           \* ... and of those executed in this crystal
    issued,             \* mass that committed crystals brought into being
    issuing             \* ... and this crystal so far

pvmVars == <<ledger, height, batch, pos, change, heat,
             spent, spending, issued, issuing>>

-----------------------------------------------------------------------------
(* Helpers *)

Saturated(x, max) == IF x > max THEN max ELSE x

(* lookup_atom: the changeset first, then the state. *)
View == [k \in Keys |-> IF k \in DOMAIN change THEN change[k] ELSE ledger[k]]

NoChange == [k \in {} |-> {}]
Current == batch[pos]
IsUser(rx) == rx.kind # "reward"
Ticket(rx) == <<rx.sender, rx.nonce>>

(* The mass in all atoms. *)
Weights(at) == [k \in Keys |-> IF at[k] = Absent THEN 0 ELSE at[k].mass]
Total(at) == SumFunction(Weights(at))

-----------------------------------------------------------------------------
(* execute_single on view at, in batch b at crystal index i, with heat h   *)
(* from the reactions before: the checks.                                  *)

(* Mutant: the nonce may lie ahead of the atom's. *)
NonceNotBehind(at, rx) ==
    at[rx.sender] # Absent => rx.nonce >= at[rx.sender].nonce

(* The sequence check is skipped for a sender without an atom. *)
NonceMatches(at, rx) ==
    at[rx.sender] # Absent => rx.nonce = at[rx.sender].nonce

(* The quantum check reads the state, not the changeset. *)
PartnerActive(rx, b) ==
    ledger[rx.sender] # Absent /\ Partner(rx.sender) # NoKey =>
        \E n \in DOMAIN b : Partner(rx.sender) \in {b[n].sender, b[n].receiver}

Admissible(at, rx, b, h, i) ==
    /\ rx.signed
    /\ h + Curvature(rx, i) <= THERMAL_CAPACITY
    /\ PartnerActive(rx, b)
    /\ NonceMatches(at, rx)

(* The payload's own conditions; a ContractCall is never executed here. *)
Affordable(at, rx, i) ==
    LET exists == at[rx.sender] # Absent
        Pays(cost) == cost <= MaxMass /\ cost <= at[rx.sender].mass
    IN  \/ rx.kind = "transfer" /\ exists /\ Pays(rx.amount + rx.energy)
        \/ rx.kind = "generic" /\ exists /\ Pays(rx.energy + Tax(rx, i))
        \/ rx.kind = "generic" /\ ~exists /\ rx.sender = Architect
        \/ rx.kind = "contract" /\ exists /\ Pays(rx.amount)

Executable(at, rx, b, h, i) ==
    /\ rx.energy >= 0
    /\ \/ /\ rx.kind = "reward"
          /\ rx.receiver = Architect
          /\ at[Architect] # Absent
       \/ /\ IsUser(rx)
          /\ Admissible(at, rx, b, h, i)
          /\ Affordable(at, rx, i)

-----------------------------------------------------------------------------
(* execute_single: what the reaction writes into the changeset. *)

(* Mutant: the nonce of the sender is not advanced. *)
DebitedKeepNonce(at, rx, cost) ==
    [mass  |-> at[rx.sender].mass - cost, nonce |-> at[rx.sender].nonce]

Debited(at, rx, cost) ==
    [mass  |-> at[rx.sender].mass - cost,
     nonce |-> Saturated(at[rx.sender].nonce + 1, MaxNonce)]

Decayed(a, i) == [a EXCEPT !.mass = @ - Decay(@, i)]
Credited(a, amount) == [a EXCEPT !.mass = Saturated(@ + amount, MaxMass)]

With(at, k, a) == [at EXCEPT ![k] = a]

(* An atom that does not exist yet is made from the snapshot in the        *)
(* reaction, with the given mass.                                          *)
Materialised(at, rx, mass) ==
    IF at[rx.receiver] # Absent THEN at[rx.receiver]
    ELSE [mass |-> mass, nonce |-> rx.snapNonce]

(* Mutant: the mass in the receiver's snapshot is kept. *)
TransferKeepingSnapshot(at, rx, i) ==
    LET paid == With(at, rx.sender, Decayed(Debited(at, rx, rx.amount + rx.energy), i))
        r == Decayed(Materialised(paid, rx, rx.snap), i)
    IN  With(paid, rx.receiver, Credited(r, rx.amount))

(* The fee is burned; both atoms decay. *)
Transfer(at, rx, i) ==
    LET paid == With(at, rx.sender, Decayed(Debited(at, rx, rx.amount + rx.energy), i))
        r == Decayed(Materialised(paid, rx, 0), i)
    IN  With(paid, rx.receiver, Credited(r, rx.amount))

(* The energy goes to the receiver, whose snapshot is taken as it is when  *)
(* it has no atom, and the tax to the architect.                           *)
Generic(at, rx, i) ==
    LET s == IF at[rx.sender] # Absent
             THEN Debited(at, rx, rx.energy + Tax(rx, i))
             ELSE [mass |-> GenesisMass, nonce |-> rx.nonce]
        paid == With(at, rx.sender, s)
        sent == With(paid, rx.receiver,
                     Credited(Materialised(paid, rx, rx.snap), rx.energy))
    IN  IF Tax(rx, i) > 0 /\ sent[Architect] # Absent
        THEN With(sent, Architect, Credited(sent[Architect], Tax(rx, i)))
        ELSE sent

Deploy(at, rx) == With(at, rx.sender, Debited(at, rx, rx.amount))

(* amount and hash of a reward are not looked at. *)
MiningReward(at, rx) == With(at, Architect, Credited(at[Architect], rx.amount))

After(at, rx, i) ==
    CASE rx.kind = "reward"   -> MiningReward(at, rx)
      [] rx.kind = "transfer" -> Transfer(at, rx, i)
      [] rx.kind = "generic"  -> Generic(at, rx, i)
      [] rx.kind = "contract" -> Deploy(at, rx)

(* Mass that rx brings into being: a reward, the snapshot of a receiver    *)
(* without an atom, or the architect's own genesis.                        *)
Issue(at, rx) ==
    IF rx.kind = "reward" THEN rx.amount
    ELSE IF rx.kind # "generic" THEN 0
    ELSE (IF at[rx.sender] = Absent THEN GenesisMass ELSE 0)
             + (IF at[rx.receiver] = Absent /\ rx.receiver # rx.sender
                THEN rx.snap ELSE 0)

-----------------------------------------------------------------------------
Init ==
    /\ ledger = [k \in Keys |->
                    IF k = Architect THEN [mass |-> GenesisMass, nonce |-> 0]
                    ELSE Absent]
    /\ height = 0
    /\ batch = <<>> /\ pos = 0 /\ change = NoChange /\ heat = 0
    /\ spent = {} /\ spending = {}
    /\ issued = GenesisMass /\ issuing = 0

(* execute_payload starts on reactions b. *)
Begin(b) ==
    /\ pos = 0
    /\ height < MaxBlocks
    /\ batch' = b /\ pos' = 1
    /\ UNCHANGED <<ledger, height, change, heat, spent, spending, issued, issuing>>

Batches(n) == UNION {[1..m -> Rx] : m \in 0..n}

(* A peer's crystal may carry any reactions, in any order. *)
ReceiveCrystal == \E b \in Batches(MaxBatch) : Begin(b)

(* build_mining_reward_rx for the next crystal *)
RewardRx ==
    [kind |-> "reward", sender |-> Architect, receiver |-> Architect,
     amount |-> MINING_REWARD_AMOUNT, energy |-> 0,
     nonce |-> ledger[Architect].nonce, snap |-> ledger[Architect].mass,
     snapNonce |-> ledger[Architect].nonce, signed |-> FALSE]

(* mine_block: one reaction per sender, each of which the PVM accepts      *)
(* alone at the current index; the reward goes first.                      *)
Prefiltered(b) ==
    /\ \A m, n \in DOMAIN b : b[m].sender = b[n].sender => m = n
    /\ \A n \in DOMAIN b : Executable(ledger, b[n], <<b[n]>>, 0, height)

MineCrystal ==
    \E b \in Batches(MaxBatch - 1) :
        /\ Prefiltered(b)
        /\ Begin(IF ledger[Architect] = Absent THEN b ELSE <<RewardRx>> \o b)

(* One turn of the loop in execute_payload. *)
ExecuteSingle ==
    /\ pos \in 1..Len(batch)
    /\ Executable(View, Current, batch, heat, height + 1)
    /\ LET after == After(View, Current, height + 1)
           written == {k \in Keys : k \in DOMAIN change \/ after[k] # View[k]}
       IN  change' = [k \in written |-> after[k]]
    /\ heat' = heat + (IF IsUser(Current) THEN Curvature(Current, height + 1) ELSE 0)
    /\ pos' = pos + 1
    /\ spending' = spending \cup (IF IsUser(Current) THEN {Ticket(Current)} ELSE {})
    /\ issuing' = issuing + Issue(View, Current)
    /\ UNCHANGED <<ledger, height, batch, spent, issued>>

(* execute_payload returns: its locals are gone. *)
Return ==
    /\ batch' = <<>> /\ pos' = 0
    /\ change' = NoChange /\ heat' = 0
    /\ spending' = {} /\ issuing' = 0

(* The first error ends the batch, and the changeset is dropped. *)
Fail ==
    /\ pos \in 1..Len(batch)
    /\ ~Executable(View, Current, batch, heat, height + 1)
    /\ Return
    /\ UNCHANGED <<ledger, height, spent, issued>>

(* finalize_solidification: apply_changeset *)
Commit ==
    /\ pos = Len(batch) + 1
    /\ ledger' = View
    /\ height' = height + 1
    /\ spent' = spent \cup spending
    /\ issued' = issued + issuing
    /\ Return

Next ==
    \/ ReceiveCrystal
    \/ MineCrystal
    \/ ExecuteSingle
    \/ Fail
    \/ Commit

Spec == Init /\ [][Next]_pvmVars

-----------------------------------------------------------------------------
PVMTypeOK ==
    /\ ledger \in [Keys -> AtomRecords \cup {Absent}]
    /\ height \in 0..MaxBlocks
    /\ pos \in 0..(Len(batch) + 1)
    /\ DOMAIN change \subseteq Keys /\ \A k \in DOMAIN change : change[k] \in AtomRecords
    /\ heat \in Nat
    /\ spent \subseteq Keys \X Nonces /\ spending \subseteq Keys \X Nonces
    /\ issued \in Nat /\ issuing \in Nat

(* The sequence check: on the whole chain, and inside one crystal, no two  *)
(* executed user reactions carry the same sender and nonce, except at the  *)
(* largest nonce, from which saturating_add does not advance.  It is about *)
(* the pair: the nonce is not part of signing_digest and the signed last   *)
(* hash is not compared, so that one signature may serve several nonces    *)
(* (TransferFlow).                                                         *)
NonceSpentOnce ==
    [][ExecuteSingle /\ IsUser(Current)
          => Ticket(Current) \notin spent \cup spending
                \/ Current.nonce = MaxNonce]_pvmVars

(* No mass from nothing: the atoms never hold more than genesis, rewards   *)
(* and the snapshots that Generic took over have issued, also in the       *)
(* middle of a crystal and also when an atom is written several times.     *)
NoMassFromNothing ==
    /\ Total(ledger) <= issued
    /\ Total(View) <= issued + issuing

(* In every state, also between two reactions of one crystal: masses and   *)
(* nonces fit their width, and no mass comes from nothing.                 *)
PVMInv == PVMTypeOK /\ NoMassFromNothing

(* No reaction of a committed crystal is lost in the changeset: the nonce  *)
(* of every atom advances by the number of user reactions it sent, those   *)
(* that deploy a contract included, which the documents leave out          *)
(* (OnlyTransfersCount).                                                   *)
EveryReactionCounted ==
    [][Commit => \A k \in Keys : ledger[k] # Absent =>
          LET sent == {n \in DOMAIN batch : IsUser(batch[n]) /\ batch[n].sender = k}
          IN  ledger'[k] # Absent /\ ledger'[k].nonce =
                  Saturated(ledger[k].nonce + Cardinality(sent), MaxNonce)]_pvmVars

-----------------------------------------------------------------------------
(* A statement of the repository that the program does not keep.           *)

(* SPECIFICATION.md: the nonce is "Incremented only upon confirmed         *)
(* `Transfer` or `Generic` reactions"; the head of pvm.rs names transfers  *)
(* alone.  A Contract reaction advances it too.                            *)
OnlyTransfersCount ==
    [][Commit => \A k \in Keys : ledger[k] # Absent /\ ledger'[k] # Absent =>
          LET sent == {n \in DOMAIN batch :
                          batch[n].kind \in {"transfer", "generic"} /\ batch[n].sender = k}
          IN  ledger'[k].nonce <= ledger[k].nonce + Cardinality(sent)]_pvmVars

=============================================================================
