---------------------------- MODULE TransferFlow ----------------------------
(***************************************************************************)
(* One wallet's transfers from the user's command to the ledger: the       *)
(* terminal client, primus-cli and the node's own console read the         *)
(* wallet's state, build and sign a reaction and hand it to the node,      *)
(* which answers within a time limit; the node mines what it pooled, and   *)
(* peers, to whom it was spread, may mine it first, hand it back or write  *)
(* another nonce into it.                                                  *)
(*                                                                         *)
(* The sender's atom is its mass, its nonce and the hash of its last       *)
(* reaction.  A hash is the tuple of what is hashed, and signed: a         *)
(* transfer's amount and the sender's last hash (recipient and fee are the *)
(* same throughout), or a reward's crystal index.  The nonce is not in it. *)
(***************************************************************************)
EXTENDS Naturals, Sequences, FiniteSets

CONSTANTS
    Cmds,               \* the user's commands
    Amounts,            \* amounts that may be asked for
    Setups,             \* whose wallet, and where each command is given: see via
    Masses,             \* the wallet's mass at the start; 0: no atom yet
    PROTOCOL_MIN_FEE,
    DebugMass,          \* what primus-cli adds when it cannot read the state, 1000
    Reward,             \* MINING_REWARD_AMOUNT
    Deposit,            \* what the wallet may be sent by others
    Capacity,           \* of the wallet's mempool sector
    MaxU64,
    MaxHeight           \* bound of the model: crystals

ASSUME FlowAssumption ==
    /\ IsFiniteSet(Cmds) /\ MaxU64 \in Nat
    /\ Amounts \subseteq 0..MaxU64 /\ Masses \subseteq 0..MaxU64
    /\ \A s \in Setups : s.owner \in {"user", "architect"} /\ DOMAIN s.via = Cmds
    /\ {PROTOCOL_MIN_FEE, DebugMass, Reward, Deposit} \subseteq 1..MaxU64
    /\ Capacity \in Nat /\ MaxHeight \in Nat

NoHash == <<>>
Nothing == [mass |-> 0, nonce |-> 0, last |-> NoHash]
NoRx == [signer |-> "none", amount |-> 0, mass |-> 0, nonce |-> 0, last |-> NoHash]

VARIABLES
    owner,              \* "user" or "architect"
    via,                \* command -> "client", "cli", "console" or "legacy"
    atom,               \* the wallet's atom in engine.state
    height,             \* current_crystal_index
    pool,               \* its reactions in the mempool
    mining,             \* does the mining loop hold the engine's lock?
    batch,              \* ... and what it has drained
    spread,             \* reactions that were broadcast to peers
    cmd,                \* command -> the client's side
    job,                \* command -> the node's SubmitReaction handler
    (* history, read by no action *)
    paid                \* the wallet's transfers executed, in order

flowVars == <<owner, via, atom, height, pool, mining, batch, spread, cmd, job, paid>>
chain == <<owner, via, atom, height, paid>>
mine == <<mining, batch>>

Idle == [pc |-> "unused", amount |-> 0, snap |-> Nothing, rx |-> NoRx,
         retried |-> FALSE, out |-> "none"]

Init ==
    /\ \E s \in Setups : owner = s.owner /\ via = s.via
    /\ \E m \in Masses : atom = [Nothing EXCEPT !.mass = m]
    /\ height = 0
    /\ pool = {} /\ spread = {}
    /\ mining = FALSE /\ batch = {}
    /\ cmd = [k \in Cmds |-> Idle]
    /\ job = [k \in Cmds |-> "none"]
    /\ paid = <<>>

Hash(rx) == <<rx.amount, rx.last>>
Exists == atom # Nothing

(* Release builds wrap. *)
Wrapped(n) == n % (MaxU64 + 1)
Cost(amount) == Wrapped(amount + PROTOCOL_MIN_FEE)

End(k, out) == [cmd EXCEPT ![k].pc = "over", ![k].out = out]
Over(k) == cmd[k].pc = "over"
Local(k) == via[k] \in {"console", "legacy"}
Started(k) == cmd[k].pc \notin {"unused", "over"}

-----------------------------------------------------------------------------
(* The clients *)

(* The client's one task takes a command after it has dealt with the last; *)
(* so do a shell and the console, which takes no zero.                     *)
Command(k) ==
    /\ cmd[k].pc = "unused"
    /\ \A j \in Cmds : via[j] = via[k] => ~Started(j)
    /\ Local(k) => owner = "architect"
    /\ \E a \in Amounts :
          /\ Local(k) => a # 0
          /\ cmd' = [cmd EXCEPT ![k].amount = a, ![k].pc = "fetch"]
    /\ UNCHANGED <<chain, pool, mine, spread, job>>

(* What get_atom_state's error leads to: primus-cli goes on with made-up   *)
(* values, unless it is the retry of broadcast_tx that failed.             *)
FetchFailed(k) ==
    IF via[k] = "cli" /\ ~cmd[k].retried
    THEN [cmd EXCEPT ![k].pc = "check",
              ![k].snap = [Nothing EXCEPT !.mass = Wrapped(cmd[k].amount + PROTOCOL_MIN_FEE + DebugMass)]]
    ELSE End(k, "no state")

(* Mutant: as for GetCrystal, nothing is sent when there is nothing. *)
FetchAnswerSilent(k) ==
    /\ cmd[k].pc = "fetch" /\ ~mining /\ Exists
    /\ cmd' = [cmd EXCEPT ![k].pc = "check", ![k].snap = atom]
    /\ UNCHANGED <<chain, pool, mine, spread, job>>

(* FetchState and its answer.  A retry refreshes the nonce and the last    *)
(* hash of the builder, and checks nothing again.                          *)
FetchAnswer(k) ==
    /\ cmd[k].pc = "fetch" /\ ~mining
    /\ cmd' = IF ~Exists THEN FetchFailed(k)
              ELSE IF cmd[k].retried
              THEN [cmd EXCEPT ![k].pc = "build",
                        ![k].snap = [atom EXCEPT !.mass = cmd[k].snap.mass]]
              ELSE [cmd EXCEPT ![k].pc = "check", ![k].snap = atom]
    /\ UNCHANGED <<chain, pool, mine, spread, job>>

(* The engine is busy for five seconds; the console just waits for it. *)
FetchTimeout(k) ==
    /\ cmd[k].pc = "fetch" /\ mining
    /\ ~Local(k)
    /\ cmd' = FetchFailed(k)
    /\ UNCHANGED <<chain, pool, mine, spread, job>>

(* The caller's own look at the balance *)
Check(k) ==
    /\ cmd[k].pc = "check"
    /\ cmd' = IF cmd[k].snap.mass < Cost(cmd[k].amount) THEN End(k, "insufficient")
              ELSE [cmd EXCEPT ![k].pc = "build"]
    /\ UNCHANGED <<chain, pool, mine, spread, job>>

(* Mutant: the sum of amount and fee may wrap. *)
BuildableWrapped(c) == c.amount # 0 /\ Cost(c.amount) <= c.snap.mass

(* The guards of TransactionBuilder::build *)
Buildable(c) ==
    /\ c.amount # 0
    /\ c.amount + PROTOCOL_MIN_FEE <= MaxU64
    /\ c.amount + PROTOCOL_MIN_FEE <= c.snap.mass

Rx(c) == [signer |-> "owner", amount |-> c.amount, mass |-> c.snap.mass,
          nonce |-> c.snap.nonce, last |-> c.snap.last]

(* to_bytes writes rkyv, which the node's push_bytes reads; the console    *)
(* reads it back with bincode.                                             *)
Readable(k) == via[k] # "console"

(* build, to_bytes and, by the console, the report that it cannot be read. *)
Build(k) ==
    /\ cmd[k].pc = "build" /\ via[k] # "legacy"
    /\ \/ /\ ~Readable(k) \/ ~Buildable(cmd[k])
          /\ cmd' = End(k, "not built")
          /\ UNCHANGED job
       \/ /\ Readable(k) /\ Buildable(cmd[k])
          /\ cmd' = [cmd EXCEPT ![k].pc = "submit", ![k].rx = Rx(cmd[k])]
          /\ job' = [job EXCEPT ![k] = "queued"]
    /\ UNCHANGED <<chain, pool, mine, spread>>

(* The connection is lost; the node's handler goes on. *)
Disconnect(k) ==
    /\ cmd[k].pc = "submit"
    /\ cmd' = End(k, "unreachable")
    /\ UNCHANGED <<chain, pool, mine, spread, job>>

-----------------------------------------------------------------------------
(* The node: SubmitReaction, push_bytes and the mempool *)

(* Mutant: the client tries again whatever the error. *)
RetriesAlways(k, reply) == reply # "accepted" /\ ~cmd[k].retried

(* broadcast_tx tries once more on this answer only. *)
Retries(k, reply) == reply = "Sequence Mismatch" /\ ~cmd[k].retried

(* The handler is done; its answer is lost if nobody waits for it. *)
Reply(k, reply) ==
    /\ job' = [job EXCEPT ![k] = "done"]
    /\ cmd' = IF cmd[k].pc # "submit" THEN cmd
              ELSE IF Retries(k, reply)
              THEN [cmd EXCEPT ![k].pc = "fetch", ![k].retried = TRUE]
              ELSE End(k, reply)

(* Layer 5: a sender without mass is dropped, and told it was accepted. *)
CheckBalance(k) ==
    /\ job[k] = "queued" /\ ~mining
    /\ \/ /\ owner = "architect" \/ atom.mass > 0
          /\ job' = [job EXCEPT ![k] = "checked"]
          /\ UNCHANGED cmd
       \/ /\ owner # "architect" /\ atom.mass = 0
          /\ Reply(k, "accepted")
    /\ UNCHANGED <<chain, pool, mine, spread>>

Pooled(rx) == \E r \in pool : Hash(r) = Hash(rx)

(* SectoralMempool::push and the broadcast *)
Push(k) ==
    /\ job[k] = "checked"
    /\ \/ /\ Cardinality(pool) >= Capacity
          /\ Reply(k, "full")
          /\ UNCHANGED <<pool, spread>>
       \/ /\ Cardinality(pool) < Capacity /\ Pooled(cmd[k].rx)
          /\ Reply(k, "accepted")
          /\ UNCHANGED <<pool, spread>>
       \/ /\ Cardinality(pool) < Capacity /\ ~Pooled(cmd[k].rx)
          /\ pool' = pool \cup {cmd[k].rx}
          /\ job' = [job EXCEPT ![k] = "pushed"]
          /\ UNCHANGED <<spread, cmd>>
    /\ UNCHANGED <<chain, mine>>

Broadcast(k) ==
    /\ job[k] = "pushed"
    /\ spread' = spread \cup {cmd[k].rx}
    /\ Reply(k, "accepted")
    /\ UNCHANGED <<chain, pool, mine>>

(* Ten seconds have passed: the handler is dropped where it is. *)
SubmitTimeout(k) ==
    /\ job[k] \in {"queued", "checked", "pushed"}
    /\ Reply(k, "timed out")
    /\ UNCHANGED <<chain, pool, mine, spread>>

(* KineticEngine::build_transfer: the same reaction, without the guards *)
BuildTransfer(c) == Rx(c)

(* The console with a legacy key: the reaction goes straight into the      *)
(* mempool, to no peer.                                                    *)
LegacySend(k) ==
    LET rx == BuildTransfer(cmd[k]) IN
    /\ cmd[k].pc = "build" /\ via[k] = "legacy"
    /\ LET full == Cardinality(pool) >= Capacity
           new == ~full /\ ~Pooled(rx)
       IN  /\ pool' = IF new THEN pool \cup {rx} ELSE pool
           /\ cmd' = [End(k, IF full THEN "full" ELSE IF new THEN "accepted" ELSE "duplicate")
                      EXCEPT ![k].rx = rx]
    /\ UNCHANGED <<chain, mine, spread, job>>

-----------------------------------------------------------------------------
(* Mining *)

Drain ==
    /\ ~mining /\ height < MaxHeight
    /\ mining' = TRUE
    /\ \/ batch' = pool /\ pool' = {}
       \/ batch' = {} /\ UNCHANGED pool     \* another sector's turn
    /\ UNCHANGED <<chain, spread, cmd, job>>

(* Mutant: a nonce that is past is not refused. *)
ValidAgain(rx) == Exists /\ rx.nonce <= atom.nonce /\ rx.amount + PROTOCOL_MIN_FEE <= atom.mass

(* The virtual machine's conditions on a transfer *)
Valid(rx) == Exists /\ rx.nonce = atom.nonce /\ rx.amount + PROTOCOL_MIN_FEE <= atom.mass

Capped(n) == IF n > MaxU64 THEN MaxU64 ELSE n

(* The reward comes first in a crystal, and the last hash moves with it. *)
Rewarded == IF owner # "architect" \/ ~Exists THEN atom
            ELSE [atom EXCEPT !.mass = Capped(@ + Reward), !.last = <<0, height + 1>>]

(* The wallet's atom after a crystal with the reactions of rxs, at most    *)
(* one of a sender.                                                        *)
Crystal(rxs) ==
    /\ height' = height + 1
    /\ \/ /\ rxs = {}
          /\ atom' = Rewarded
          /\ UNCHANGED paid
       \/ \E rx \in rxs :
             /\ atom' = [mass |-> Rewarded.mass - (rx.amount + PROTOCOL_MIN_FEE),
                         nonce |-> rx.nonce + 1, last |-> Hash(rx)]
             /\ paid' = Append(paid, rx)

(* Of the drained reactions of one sender the chamber keeps at most one,   *)
(* none when they evaporate, and the pre-filter drops it when it is not    *)
(* valid now.  Without a proof of work there is no crystal.  Whatever is   *)
(* not in the crystal is gone.                                             *)
Solidify ==
    /\ mining
    /\ mining' = FALSE /\ batch' = {}
    /\ \/ \E kept \in {{}} \cup {{rx} : rx \in batch} :
             Crystal({rx \in kept : Valid(rx)})
       \/ UNCHANGED <<atom, height, paid>>
    /\ UNCHANGED <<owner, via, pool, spread, cmd, job>>

(* What others may make of the reactions they have seen: the signature     *)
(* covers the hash, and no one compares the last hash with the atom's, so  *)
(* a copy with another nonce is as good as the original.                   *)
Renonced == {[rx EXCEPT !.nonce = n] : rx \in spread, n \in 0..(MaxHeight - 1)}

(* The architect's signature is accepted on any sender's transfer. *)
Overrides ==
    IF owner = "architect" THEN {}
    ELSE {[signer |-> "architect", amount |-> a, mass |-> atom.mass,
           nonce |-> atom.nonce, last |-> atom.last] : a \in Amounts}

(* A peer sends a copy, as it was signed or not, and the mempool takes it; *)
(* it is spread further, which adds nothing to Renonced.                   *)
PeerReaction ==
    /\ Cardinality(pool) < Capacity
    /\ \E rx \in Renonced : ~Pooled(rx) /\ pool' = pool \cup {rx}
    /\ UNCHANGED <<chain, mine, spread, cmd, job>>

(* A crystal of a peer; its reward is the peer's own business. *)
PeerCrystal ==
    /\ ~mining /\ height < MaxHeight
    /\ \E rx \in Renonced \cup Overrides :
          /\ Valid(rx)
          /\ atom' = [mass |-> atom.mass - (rx.amount + PROTOCOL_MIN_FEE),
                      nonce |-> rx.nonce + 1, last |-> Hash(rx)]
          /\ paid' = Append(paid, rx)
    /\ height' = height + 1
    /\ UNCHANGED <<owner, via, pool, mine, spread, cmd, job>>

(* A crystal in which somebody sends the wallet mass *)
Receive ==
    /\ ~mining /\ height < MaxHeight
    /\ atom' = [atom EXCEPT !.mass = Capped(@ + Deposit)]
    /\ height' = height + 1
    /\ UNCHANGED <<owner, via, pool, mine, spread, cmd, job, paid>>

Node(k) == CheckBalance(k) \/ Push(k) \/ Broadcast(k)
Client(k) == FetchAnswer(k) \/ FetchTimeout(k) \/ Check(k) \/ Build(k) \/ LegacySend(k)

Next ==
    \/ \E k \in Cmds : Command(k) \/ Client(k) \/ Node(k) \/ Disconnect(k) \/ SubmitTimeout(k)
    \/ Drain \/ Solidify \/ PeerReaction \/ PeerCrystal \/ Receive

(* A request that was read is answered, a time limit runs out, and the     *)
(* mining loop, whose search is bounded, gives the engine back.  The lock  *)
(* of the engine is handed on in the order it was asked for, so that the   *)
(* mining loop cannot have it every time (SF).                             *)
Fairness ==
    /\ WF_flowVars(Solidify)
    /\ \A k \in Cmds :
          /\ WF_flowVars(Client(k)) /\ WF_flowVars(Node(k)) /\ WF_flowVars(SubmitTimeout(k))
          /\ SF_flowVars(FetchAnswer(k))

Spec == Init /\ [][Next]_flowVars /\ Fairness

-----------------------------------------------------------------------------
FlowTypeOK ==
    /\ atom.mass \in 0..MaxU64 /\ atom.nonce \in Nat
    /\ height \in 0..MaxHeight
    /\ Cardinality(pool) <= Capacity
    /\ Cardinality({Hash(r) : r \in pool}) = Cardinality(pool)
    /\ mining \/ batch = {}
    /\ \A k \in Cmds : job[k] \in {"none", "queued", "checked", "pushed", "done"}

(* As it was signed, with its nonce, a reaction is executed no more often  *)
(* than commands asked for it, whatever times out, is mined by a peer as   *)
(* well, or is read while it is being spent.                               *)
SignedPaidOnce ==
    \A a \in Amounts :
        Cardinality({i \in DOMAIN paid :
                        paid[i].amount = a /\ \E k \in Cmds : paid[i] = cmd[k].rx})
            <= Cardinality({k \in Cmds : cmd[k].pc # "unused" /\ cmd[k].amount = a})

(* Every payment has a nonce of its own, although a reaction stays in the  *)
(* mempool when a peer has mined it, and nothing but a payment takes one,  *)
(* or a reaction in the mempool would be lost.                             *)
SpentInOrder ==
    /\ atom.nonce = Len(paid)
    /\ \A i \in DOMAIN paid : paid[i].nonce = i - 1

(* No reaction is executed twice with one nonce, and the atom's fields and *)
(* the mempool stay within their bounds.                                   *)
FlowInv == FlowTypeOK /\ SignedPaidOnce /\ SpentInOrder

(* What the SDK signs is covered, at the widest amounts too, by the mass   *)
(* that the caller read or made up.                                        *)
SignedIsCovered ==
    \A k \in Cmds : cmd[k].rx # NoRx /\ via[k] # "legacy" =>
        cmd[k].amount + PROTOCOL_MIN_FEE <= cmd[k].snap.mass

Refused(k) == Over(k) /\ cmd[k].out \in {"no state", "insufficient", "not built", "full"}

(* What the wallet pays, and the architect did not sign for it, is up to   *)
(* its nonce a reaction of a command that was not refused by the caller's  *)
(* check, the builder or a full mempool; a time-out or a lost connection   *)
(* says nothing.                                                           *)
RefusedIsNotPaid ==
    \A i \in DOMAIN paid : paid[i].signer = "owner" =>
        \E k \in Cmds : cmd[k].rx # NoRx /\ Hash(cmd[k].rx) = Hash(paid[i]) /\ ~Refused(k)

(* Every command comes to an end. *)
CommandsEnd == \A k \in Cmds : Started(k) ~> Over(k)

-----------------------------------------------------------------------------
(* Statements of the repository that the program does not keep.            *)

(* pvm.rs: "Anti-replay: on_chain.nonce == rx.sender.nonce".  A wallet     *)
(* would pay no more often than it was told to; a copy with a later nonce  *)
(* is paid again.                                                          *)
PaidAtMostAsked ==
    \A a \in Amounts :
        Cardinality({i \in DOMAIN paid : paid[i].signer = "owner" /\ paid[i].amount = a})
            <= Cardinality({k \in Cmds : cmd[k].pc # "unused" /\ cmd[k].amount = a})

(* rpc.rs: "Node acknowledged the reaction and enqueued it in the mempool." *)
AckMeansEnqueued ==
    [][\A k \in Cmds : cmd[k].pc = "submit" /\ cmd'[k].out = "accepted" =>
           Pooled(cmd[k].rx) \/ cmd[k].rx \in batch \/ cmd[k].rx \in {paid[i] : i \in DOMAIN paid}]_flowVars

=============================================================================
