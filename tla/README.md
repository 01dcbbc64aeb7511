# A TLA+ verification of the Primus node

Primus is a blockchain node in Rust.  Its vocabulary: a *crystal* is a block, a *reaction* a
transaction, an *atom* an account with a *mass* (balance) and a *nonce*; *solidification* is the
execution and commitment of a crystal, the *PVM* the virtual machine that executes reactions, the
*chamber* the miner's buffer of reactions, the *architect* the key that receives mining rewards.

## 1. Inventory

| Part | State | Operations | Interacts with | What is hard |
|---|---|---|---|---|
| Processor (`primus-core/src/processor.rs`, `state.rs`) | `StateTree`: atoms, current index, metrics | `process_network_reaction`, `process_network_crystal`, `finalize_solidification`, `perform_reorg` | storage, PVM, chamber; called by the network and the miner under the engine mutex | several writes that are not atomic; errors in the middle; undo logs over several reorganisations |
| Storage (`primus-core/src/storage.rs`, `primus-storage`) | sled: `atom_{pk}`, `mpt_root`, `mpt_root_{i}`, `crystal_{i}`, `latest_index`, `undo_{i}`, trie nodes, GC log | `commit_changeset`, `save_crystal`, `save_undo_log`, `prune_undo_window`, `root_at`, `flush` | processor, engine, proofs | what is durable when; window arithmetic |
| Trie and proofs (`mpt.rs`, `mpt_store.rs`, SDK `proof.rs`) | nodes by hash, root, GC log | `insert`, `delete`, `prove`, `verify_proof`, `gc_since` | storage, proof requests, light clients | collection of nodes that are shared or being read; canonical form |
| Engine (`engine.rs`, `chamber.rs`, `gravity.rs`) | chamber, difficulty, `is_syncing`, `sync_target` | `try_auto_genesis`, `prepare_next_physical_state`, `mine_block` | mempool, PVM, processor | a batch checked one by one and executed together; proof of work over a header that changes afterwards |
| Mempool (`primus-storage/src/mempool_v2.rs`) | 256 sectors, each a data tree and a weight tree | `push`, `push_bytes`, `drain_resonant` | network, client requests, mining loop | two trees with different keys; capacity |
| PVM (`primus-vm/src/pvm.rs`, `physics.rs`) | changeset, heat, consumed entropy of one batch | `execute_single`, `execute_payload` | state view of the engine | reads of what earlier reactions wrote; saturation; the sequence of nonces |
| WASM path (`primus-vm/src/dispatch.rs`, `wasm/`) | gas, linear memory | `PayloadDispatcher::execute` | not called by the node | gas exhaustion |
| Ingress (`CoreHandleImpl` in `main.rs`, `framing.rs`) | partial streams; the locks of reassembler, engine and mempool | `push_bytes`, `on_crystal`, `feed`, `evict_expired` | network, gossip, mempool, mining loop | duplicates and collisions of streams; expiry; locks held across awaits; time-outs |
| Block sync (`primus-net-opt/src/network.rs`, `galactic_sync.rs`) | sessions, address list, syncing flag and target | `connect_to_peer`, `handle_peer_logic`, `send_to_peer`, `broadcast_message` | processor, gossip, mining loop | state read before an await and used after it; who answers whom; lost broadcasts |
| Gossip (`gossip.rs`) | identifiers of seen messages | `spread` | network, ingress | floods end only by deduplication |
| Routing table (`dht.rs`, `primus-net-opt/src/lib.rs`) | k-buckets; a lookup's queue, visited and closest nodes | `insert`, `remove`, `get_closest`, `find_node`, `ping` | network, discovery | ping without the bucket's lock; concurrent answers |
| Noise and QUIC server (`noise.rs`, `server.rs`) | sessions by address, nonces, permits | handshake, `send_gossip`, `handle_gossip_stream` | mempool | one task per stream, one counter per session, several connections per address |
| Client, SDK, command line (`primus-client`, `primus-sdk`, `primus-cli`, console in `main.rs`) | the state read, the transaction being built | `send`, `get_atom_state`, `build`, `broadcast_tx` | node | stale state, time-outs that say nothing, overflow |
| Start, crash, shutdown (`main.rs`, `ipc.rs`, `PrimusProcessor::new`) | everything above, from disk | start, ctrl-c, `AdminShutdown` | all | any prefix of the writes may survive |
| Setup, discovery, NAT, cryptography | files, sockets | – | – | – |

What makes them correct:

* *Processor and storage.*  A reorganisation really restores the ledger of the ancestor; memory and
  disk agree; the miner and the PVM work from one height; deep crystals are not replaced; roots commit
  to the ledger.
* *Crash and restart.*  What was flushed is there; the order of writes leaves a database from which the
  tip can be rolled back and proved.
* *Trie.*  The root is a function of the ledger; proofs verify and speak of the ledger that was asked
  for; collection takes nothing that is needed, and what is garbage as long as crystals write one key
  each (a crystal that writes several leaves the nodes between its writes behind).
* *Mempool.*  Both trees describe the same reactions; capacity; the dearest first.
* *PVM.*  No nonce of a sender is spent twice; no mass from nothing; no lost update inside a batch.
* *Network.*  A node that knows it is behind on its own branch catches up; floods end; what arrives in
  chunks is what was sent; tasks do not block each other; the routing table keeps its promise and lookups
  end.
* *Sessions.*  What is decrypted is authentic and in order; an error ends the connection.
* *Transfers.*  Nonces are spent once and in order; nothing is paid after a refusal; every command ends.

The hazards, each at its line and with the properties aimed at it, are in `PROJECT.json`.

## 2. Modules

| Module | Models |
|---|---|
| `Solidification` | The engine of one node: mining, reactions and crystals from the network, solidification, reorganisation, with memory and database as separate variables.  The PVM is the constant operator `Execute`, the hash `Density`. |
| `Durability` | Extends `Solidification` with crashes, restarts and shutdowns. |
| `Mempool` | The sectors and the part of the mining loop that drains them. |
| `PVM` | The native virtual machine, reaction by reaction, and the crystals it executes. |
| `Trie` | The Merkle-Patricia trie as operators on a store of nodes: insertion, deletion, proofs, two verifiers, collection. |
| `TrieStore` | Extends `Trie` with the state machine of one store: solidifications in their separate writes beside proof requests. |
| `GalacticSync` | Several nodes: handshakes, requests, broadcasts, relaying, the syncing flag. |
| `Ingress` | Tasks of one node that process frames under three locks: reassembly, checks, mempool, gossip. |
| `RoutingTable` | k-buckets, pings and `find_node` of one node. |
| `KnownPeers` | Abstract specification of the routing table: a bounded set of peers that changes one peer at a time. |
| `PeerSession` | The QUIC and WebTransport server: handshakes, session table, gossip streams. |
| `TransferFlow` | One wallet's transfers end to end: client, node, mempool, mining, peers. |
| `*Proofs` | TLAPS proofs: `ChainProofs` about `Solidification` and `Durability`, one module each about `Mempool`, `PVM`, `GalacticSync`, `Ingress`, `RoutingTable`, `PeerSession` and `TransferFlow`. |
| `MC_*` | Small instances for TLC. |

How they compose.  `Durability` extends `Solidification`: each of its actions is an action of the engine
together with what that action leaves a crash to find.  `TrieStore` extends `Trie`.  `RoutingTable` is
shown to implement `KnownPeers`.  `TransferFlow` is the composition of client, ingress, mempool and
engine seen from one wallet: each of these parts appears there with the steps that wallet can tell
apart, and in a module of its own in full.  `Solidification` and `PVM` meet at `Execute`:
`ExecuteAssumption` asks of the machine only that it is a function of ledger, index and reactions that
yields a changeset or an error, which is what `PVM` computes between `Begin` and `Commit` or `Fail`.
`Solidification` and `Trie` meet at the root: there a root stands for the map it commits to, which
`RootIsCanonical` and `ProofsVerify` justify.

Definitions whose comment begins with *Mutant* are variants of a definition with a plausible bug; no
specification uses them.  They show that each property can fail.

### Solidification

Each operation runs under the engine mutex from beginning to end, so each is one action, and its whole
effect, trailing pruning included, is in that action.

| Code | Model |
|---|---|
| `StateTree::atoms`, `current_crystal_index`, `volatile_reactions` | `atoms`, `idx`, `chamber` |
| `atom_{pk}`, `mpt_root` with the trie, `mpt_root_{i}`, `crystal_{i}`, `latest_index`, `undo_{i}` | `dbAtoms`, `dbRoot`, `roots`, `crystals`, `latest`, `undo` |
| `mine_block` | `MineBlock` (solidified, or the chamber emptied for nothing) |
| `process_network_reaction` | `ProcessNetworkReaction` |
| `process_network_crystal`: child of the tip; no tip; heavier fork | `AcceptChild`; `AcceptAsGenesis`; `Reorg...` |
| `finalize_solidification`: success; state root differs | `FinalizeSolidification`; `FinalizeMismatch` |
| `perform_reorg`: success; new crystal refused; its root differs | `ReorgSucceeds`; `ReorgRefused`; `ReorgMismatch` |

A trie root is represented by the map the trie holds.  That the trie is *not* rolled back by a
reorganisation is in the model: `Calculated` always starts from the current `dbRoot`.  `verify_pow`
depends on a local temperature, so it may go either way; where its failure changes nothing it is a
stuttering step, and where it comes after the rollback it is `ReorgRefused`.  `hist` and `events` are
history variables: the ledger at each height of the current branch, and which unusual outcomes have
occurred, so that properties can say from where on they no longer hold.

### Durability

`crashable` is the set of database states a crash may leave: every prefix of the writes since the last
flush, where `commit_changeset` writes one atom at a time and a sled transaction is one write.  (Sled
itself is external: its documented guarantee is assumed.)  A crash restarts the node from one of them
(`StartFrom`), running genesis if no atom is found.  `Flush` is a step of its own because a crash may
come before it.  `AdminShutdown` is a crash as far as the database goes: it exits without a flush.

### Mempool

A reaction is its hash; a weight key is a pair of energy and second of reception, ordered as the encoded
key read backwards.  `Tick` is the clock.  A push that is refused or finds the hash stutters.

### PVM

One step per reaction, because reactions see what earlier ones of the batch wrote.  Mass and nonce are
bounded by `MaxMass` and `MaxNonce`, which stand for `u64::MAX`, with the code's saturating, checked and
plain operations on them.  Heat, tax and decay, floating-point functions of hashes and temperature, are
constants.  `spent`, `spending`, `issued` and `issuing` are history.  A `MiningReward` of any amount is
accepted from a peer, as in the code.  The nonce of a reaction is that of the sender's snapshot, which
the sequence check compares and the signature does not cover: `NonceSpentOnce` is about pairs of sender
and nonce, not about signatures.

### Trie and TrieStore

A key is a sequence of nibbles, a node a record, and a hash the tuple of what is hashed, so that equal
hashes mean equal contents.  The XOR with which a branch combines its children is modelled as it acts:
`Xor` is the symmetric difference of sets of hashes, so that children with one hash cancel.  `Insert`,
`Delete`, `Prove`, `VerifyProof`, `VerifyProofPure` (the SDK's) and `GcSince` follow the recursion of the
code.  They are recursive operators, so nothing is proved about them.

A solidification is four steps (`Commit`, `Publish`, `SaveCrystal` or `StateRootMismatch`,
`PruneUndoWindow`) because a proof request is not kept out by the engine mutex: `on_get_proof` takes it
only for the database handle, reads `mpt_root` (`GetProof`) and walks the nodes later (`AnswerProof`).
Nodes are immutable under their hash, so the walk can be one step.  `content` and `served` are history:
the ledger of the trie in memory and of the root in the database.

### GalacticSync

A chain is the sequence of its miners.  `ReadStatus` and `Answer` are two steps because the handlers
read `local_state` under the mutex, release it, and act on it later; `Serve` is one step per crystal
because each lookup takes the mutex again.  Broadcasts (`gossip`) travel outside the sessions, in any
order, and may be lost.  A session that ends leaves the peer in the address list, because
`remove_peer_addr` is called without the port, so it is not dialled again.  `InventoryResponse` is
handled by the code but sent by nobody and therefore absent; with it `finish_sync` is absent.  Every node
may mine, as is the default (`main.rs:962`), so that chains fork; energies are equal everywhere, so a
branch is never given up for another.  The child of a tip may be refused (`OnCrystal`): `verify_pow`
judges it by the receiver's own temperature and difficulty.  `refused` is history.  `CatchesUp` is about
nodes that have refused nothing and whose branch no other node has left.

### Ingress

| Code | Model |
|---|---|
| tasks spawned per frame in `handle_peer_logic` and by `spread`, limited by semaphores | `task`, one per slot; `Arrive`, `Echo` |
| `chunk_reassembler`, `engine`, `mempool` mutexes | `locks`; a step that keeps no lock across an await needs it free and leaves it free |
| `ChunkReassembler::streams` | `streams`, with `old` for a stream past `CHUNK_STREAM_TTL_SECS` (`Age`) |
| `feed`; the eviction task | `Feed`; `Collect` |
| `on_crystal`, which keeps the reassembler's lock while the whole crystal is processed | `ProcessCrystal` |
| `push_bytes` after reassembly | `CheckArchitect`, `CheckBalance`, `Push`, `Broadcast` |
| the ten seconds of `SubmitReaction`, that drop the future at an await | `Timeout` |
| the mining loop: engine lock, mempool drained, `mine_block` | `MineBegin`, `MineEnd` |

A message is the sequence of blocks it is cut into, and its hash is the message.  `fed`, `filled`,
`handed`, `spoiled` and `cut` are history: the frames that were fed, how often each block was fed in its
place of its stream, how often each message was handed on as that of a stream, the streams about which
nothing is promised any more, and the reactions whose submission was cut off.  `IngressInv` bounds the
deliveries of a message by the times each of its *blocks* was fed in its place, not by the times its
frames were: two messages with one stream id may have a block in common, and then a frame of the one
completes the other.  Its part `LocksOrdered` is the reason why tasks end: nobody awaits anything
holding the mempool, the miner awaits the mempool holding the engine, and a task with a crystal awaits
the engine holding the reassembler.  The exception is a crystal's envelope whose content is an envelope
again (`Envelopes`): `on_crystal` calls itself with the reassembler's guard in hand (`main.rs:79-83`),
awaits the lock it holds and stays so (`"nested"`).  From then on nobody feeds a chunk or evicts a
stream; `TasksEnd` says that all other tasks still end, because no one holds the engine or the mempool
while awaiting the reassembler.  The lock of the network handle (`main.rs:265-267`) is left out: it is
held while sends are spawned, and none is awaited.

### RoutingTable and KnownPeers

`Ids` are bit sequences, `XorDistance` and `BucketIndex` the code's.  An insertion that finds the bucket
full waits for a ping (`task[t].at = "pinging"`) without the bucket's lock; `PingFailed` replaces
whatever the tail is by then.  `find_node` is `StartLookup`, `AskBatch`, `Answered` or `NotAnswered` for
each request in any order, `MergeOne` for each record in the order of the batch (an insertion that may
itself await a ping), and `EndRound`.  Peers answer any list of `Answers`, with the node itself and
unverifiable records among them.  `get_closest` reads all buckets in one step, although the code locks
them one after the other.  `disturbed` and `wronged` are history: whether a bucket changed under a
pending ping, and who was evicted although the ping was somebody else's.

This is code of the library: the node constructs `PrimusDHT` (`server.rs:248`, `main.rs:809`), answers
`get_closest` from it and uses its list of addresses, but builds no `KademliaEngine` and never calls
`PrimusDHT::insert`, so in the node as it is the buckets stay empty.

### PeerSession

The handshake is four steps over the three Noise messages, since the dialling side is done before the
node has checked it.  A ciphertext is the pair of its connection and its nonce and opens only with both.
`sessions` is the table by address, so two connections from one address share an entry; `Accept` takes
the entry as it is when the stream arrives (for the permit), `HandleGossip` the entry as it is when the
frame has been read (for the counter), as the code does.  `Unread` is a frame that never was read: cut off,
too large or too short; a `send_gossip` that a time-out cancels between two writes leaves such a stream.
`kept` stands for whether the codec leaves the frame's head in place: it decides between "every gossip message is refused" and the rest, and both are
explored.  `got` and `excused` are history.

### TransferFlow

Four ways of giving the command (`via`): the terminal client, `primus-cli`, the console with an SDK
wallet, and the console with a legacy key.  Each reads the state (`FetchAnswer`, `FetchTimeout`), checks
it with an unchecked sum (`Check`), builds and signs (`Build`, `LegacySend`) and waits for the node's
handler (`job`), which goes through the checks and the mempool and may be cut off by its time limit
(`SubmitTimeout`) or answer nobody (`Disconnect`).  `Solidify` is the mining loop with everything that can
happen to what it drained; `PeerCrystal` a crystal of a peer to whom the reaction was broadcast, and
`PeerReaction` a copy that a peer sends.  Neither need be verbatim: the signature covers sender,
recipient, amount, fee and the last hash (`reaction.rs:143-161`), the PVM compares none of them with the
atom but the unsigned nonce (`pvm.rs:163-172`), so a copy with another nonce is valid when the atom gets
there (`Renonced`).  The architect's signature is accepted for any sender (`Overrides`, `pvm.rs:100`).
`paid` is history.  `u64` is `0..MaxU64`, so sums wrap where the code lets them.

## 3. Runs

| Run | Bounds | Distinct states | Shows |
|---|---|---|---|
| `solidification` | 2 keys, heights 0..4, window 2, finality 1, energies {0, 2} | 58,447 | `UndoRestoresHistory`, `TipConsistent`, `RootCommitsToAtoms`, `MemoryMatchesDisk`, `IndexMatchesTip`, `DeepCrystalsImmutable` |
| `durability` | 2 keys, heights 0..2, window 1, one restart | 154,183 | `DurableInv` (the write order any crash leaves), `AckedCrystalsSurvive`, `CtrlCKeepsState` |
| `mempool` | 5 reactions, 3 sectors, capacity 2, batch 2, 4 seconds | 8,802 | `MempoolInv` (weight index sound, capacity), `DrainTakesBest` |
| `pvm` | 3 keys, 13 reactions, batches of 3, 2 crystals, masses to 7, nonces to 3 | 99,399 | `PVMInv` (no mass from nothing), `NonceSpentOnce`, `EveryReactionCounted` |
| `galactic_sync` | 2 nodes that mine, 2 crystals mined, heights 0..3, slack 1, 2 entropies | 168,799 | `SyncInv` (targets were announced), `CatchesUp`, `GossipQuiesces` |
| `trie_store` | 4 keys of 5 binary nibbles, 2 values, heights 0..3, window 1, one commit that repeats an index or writes several keys | 74,973 | `StoreInv` (nothing needed is collected), `RootIsCanonical`, `ProofsVerify`, `RepliesAreTrue`, `GarbageIsLogged` |
| `routing_table` | 5 nodes of 3 bits, one forged, buckets of 2, 2 requests at a time, a task beside the lookup | 259,200 | `TableInv`, `EvictionSound`, `LookupFindsNearest`, `LookupEnds`, `ImplementsKnownPeers` |
| `ingress` | a reaction of 2 chunks and a crystal with one stream id, a nested envelope, a whole reaction, 2 tasks, each frame once, 3 frames | 33,430 | `IngressInv`, `TimelyDelivery`, `ExpiredStreamsGo`, `TasksEnd`, `PooledIsSpread` |
| `peer_session` | 2 connections of one address, the second honest or not in two ways, 2 streams each, 1 permit | 116,541 | `SessionInv`, `OrderlyPeerKept`, `DesyncCloses`, `SilentAfterError` |
| `transfer_flow` | 2 commands, 4 combinations of interfaces, amounts {0, 2, 5, 7} of at most 7, fee 1, 2 crystals | 684,014 | `FlowInv`, `SignedIsCovered`, `RefusedIsNotPaid`, `CommandsEnd` |
| `v_latestexists`, `v_honestproofverifies` | heights 0..3, window 1; as `trie_store` | – | the two disagreements below that have a run |

Why the bounds are enough.  `solidification` has two heights more than the window, so that logs are
pruned, crystals become deep, and a branch can be replaced twice at the same height; two energies are
enough for a fork to be heavier than the tip or not, also by the margin of one.  After a
failed reorganisation behaviours go on only where it went back to height 0, and up to the next stored
crystal, which is then taken for a genesis (`AfterFailure`; every state a failure leaves is still
checked); what is proved in section 4 has no such limit.  `mempool` has two reactions of the same energy in one sector, so that they
can meet in one second, and a capacity below the number of reactions.  `pvm` has transfers in and out of
nonce order, to oneself, to the architect and to new atoms, masses that reach the maximum, heat that
exceeds the capacity, and an entangled atom.  `galactic_sync` lets both nodes mine while the one that is
behind is being served: two crystals are enough for it to fall behind, for a fork, and for a target that
is out of date.  In `trie_store` the keys share prefixes of length 0 to 3, so that extensions are split,
shortened and merged and branches at several depths appear; a proof request can be overtaken by up to
three solidifications.  `routing_table` has three nodes and a forged record that belong in a bucket of
two, which is what a ping needs, and a lookup whose answers contain the node itself.  In `ingress` two
messages collide in one stream id, each frame arrives once over the network and once more as the local
copy of the gossip service, and the mempool is smaller than what may be pushed with an expired stream;
any three of the frames suffice for a message completed by another's block, and for a nested envelope
beside two other tasks.
In `peer_session` one permit makes tasks wait, so that streams overtake each other; `transfer_flow` has
amounts whose sum with the fee wraps, a mempool of one entry, and two crystals, enough for a transfer and
its copy with the next nonce.

`CONSTRAINT`s: `AfterFailure` (see above), `BeforeAFailure` (`durability` stops at the first failure), and
`Bounded`, which stops `trie_store` after one commit that repeats an index or writes several keys.

Deadlock is not checked: every model has a bound (height, clock, restarts, copies, streams, commands) at
which it may stop.

### Fairness

* `GalacticSync`: each end of a session is weakly fair: tokio polls every ready task and TCP delivers
  what was sent while the session is open.  Reception of broadcasts is weakly fair as a whole.  Nothing
  is assumed of mining, dialling, disconnection or loss.
* `Ingress`: a task's steps are strongly fair, because a tokio mutex is handed to the waiting tasks in
  the order they asked, so a lock that is free again and again is not missed for ever; the end of
  `mine_block` (its search is bounded) and the eviction task (a loop with a timer) are weakly fair.
  Arrival, ageing, time-outs and the start of mining are not fair.
* `RoutingTable` (`FairSpec`): the steps of a lookup, and the end of a ping it awaits, are weakly fair: a
  ping has a limit of five seconds and QUIC ends idle connections.  Other tasks' insertions are not.
* `PeerSession`: a task that was started runs on (weakly fair).  What peers do is not fair.
* `TransferFlow`: the client's and the handler's steps, the time limits and `Solidify` are weakly fair;
  the answer to `FetchState` is strongly fair, again because of the order of the engine's lock.

### Disagreements found

Two have a run that expects the violation (quotations under `findings`).

* `LatestExists`: a reorganisation whose new crystal is refused leaves `latest_index` dangling.  The next
  block is then mined with index 1, and any crystal is accepted as genesis.
* `HonestProofVerifies`: when the path to a key has two Extension steps of one length, `verify_proof`
  hashes the lower one with the upper one's nibbles and rejects a proof the trie itself made
  (`mpt.rs:652`).  `ProofsVerify` is the property that remains.

For the others the module keeps the formula at its end, without a run of its own; added to the module's
configuration it gives the counterexample.

| Formula | Module | The code | Against |
|---|---|---|---|
| `FinalCrystalsImmutable` | `Solidification` | the depth compared with `FINALITY_DEPTH` is not that of the common ancestor (`processor.rs:301`) | `processor.rs:306` |
| `RecoveredStateMatchesTip` | `Durability` | a crash between the writes of a crystal leaves atoms the tip does not commit to | `primus-core/SPECIFICATION.md:148` |
| `PooledIsDrainable` | `Mempool` | two reactions with one energy in one second share a weight key (`mempool_v2.rs:88`) | `primus-types/SPECIFICATION.md:15` |
| `SyncingMeansBehind` | `GalacticSync` | nothing ever clears `is_syncing` (`network.rs:304`), so a node that was once behind stops mining | `primus-net-opt/SPECIFICATION.md:100` |
| `SdkAgreesWithNode` | `TrieStore` | the SDK's verifier treats values at branches and extensions differently (`primus-sdk/src/proof.rs:98-135`) | `primus-sdk/src/proof.rs:79-80` |
| `WindowRootsComplete` | `TrieStore` | nodes of roots inside the window may be collected, since the log names the root *before* a commit (`storage.rs:299-323`) | `storage.rs:206-207` |
| `OnlyUnresponsiveEvicted` | `RoutingTable` | the tail is replaced although it is no longer the one that was pinged (`dht.rs:156-171`) | `dht.rs:144-146` |
| `OpenIsTracked` | `PeerSession` | a newer connection of the address, or its error, removes the entry | `server.rs:447` |
| `GossipReachesMempool` | `PeerSession` | with a codec that strips the head the type is never recognised | `server.rs:14` |
| `ReassemblerComesFree` | `Ingress` | `on_crystal` calls itself with the reassembler's lock held; an envelope in an envelope never comes back (`main.rs:79-83`) | `main.rs:82` |
| `OnlyTransfersCount` | `PVM` | `Contract` reactions advance the nonce (`pvm.rs:268`), and `Generic` ones, which the second line leaves out | `primus-core/SPECIFICATION.md:34`, `pvm.rs:19` |
| `PaidAtMostAsked` | `TransferFlow` | the nonce is not signed and the signed last hash is not compared, so a transfer with its nonce raised is paid again (`reaction.rs:143-161`, `pvm.rs:163-172`) | `pvm.rs:9-10`, `primus-core/SPECIFICATION.md:34` |
| `AckMeansEnqueued` | `TransferFlow` | a sender without mass is dropped and told it was accepted (`main.rs:249-256`) | `rpc.rs:101` |

Further ones follow from the models by inspection:

* the trie keeps what abandoned crystals wrote (`processor.rs:276` says it is rebuilt);
* a crystal refused for its state root has already been committed to disk (`primus-core/SPECIFICATION.md:138`);
* the rollback is flushed before the new crystal is written, so a crash in between leaves
  `latest_index` dangling (`processor.rs:269`);
* `AdminShutdown` does not flush (`primus-core/SPECIFICATION.md:129`);
* a full sector refuses high-energy reactions (`:135`), evaporated reactions do not return to the
  mempool (`:18`);
* `Generic` moves mass (`payload.rs:47`), and the hash of a reward is not checked (`constants.rs:38`);
* reactions that pass the pre-filter alone can fail together (`engine.rs:367`);
* a node that dials a peer ahead of it is not answered (`NETWORK.md:181`), and equal energies everywhere
  mean that branches never merge (`galactic_sync.rs:47`);
* the console's `send` with an SDK wallet always fails: `sdk_tx_to_reaction_result` decodes with bincode
  what `to_bytes` wrote with rkyv (`main.rs:477-479`);
* the retry on "Sequence Mismatch" (`rpc.rs:454`) is never taken: no answer of the node contains it;
* a submission that timed out may have been pooled and be paid later (`network.rs:326-340`);
* `GetCrystal` for an unknown index is not answered, and the client waits (`network.rs:275`, `rpc.rs:471`);
* `balance --prove` takes the root first and the proof afterwards (`primus-cli/src/commands/tx.rs:84-104`);
* a wallet file that cannot be read is taken for a missing one, and may then be overwritten
  (`primus-client/src/main.rs:138`, `:213`).

## 4. Proofs

Theorems hold for every value of the constants that satisfies the named assumptions, so for any number
of keys, heights, tasks, connections or peers.

| Module | Theorem | Statement |
|---|---|---|
| `ChainProofs` | `ChainInvariant` | `Spec => []ChainInv`, which includes `TypeOK` |
| | `UndoCorrect` | `Spec => []UndoRestoresHistory` |
| | `IndexCorrect` | `Spec => []IndexMatchesTip` |
| | `UndoWindowCorrect` | `Spec => []UndoWindowBound` |
| | `MemoryOnDisk` | `Spec => []MemoryMatchesDisk` |
| | `RootCorrect` | `Spec => []RootCommitsToAtoms` |
| | `DeepCrystalsStay` | `Spec => DeepCrystalsImmutable` |
| | `TipCorrect` | `Spec => []TipConsistent` |
| | `CrashInvariant` | `DSpec => []CrashInv` |
| | `DurableCorrect` | `DSpec => []DurableInv` |
| | `AckedSurvive` | `DSpec => []AckedCrystalsSurvive` |
| | `CtrlCCorrect` | `DSpec => CtrlCKeepsState` |
| `MempoolProofs` | `MempoolCorrect` | `MempoolSpec => []MempoolInv` |
| | `DrainOrder` | `MempoolSpec => DrainTakesBest` |
| `PVMProofs` | `NoncesSpentOnce` | `Spec => NonceSpentOnce` |
| | `AllReactionsCounted` | `Spec => EveryReactionCounted` |
| | `MassConserved` | `Spec => []PVMInv` |
| `RoutingProofs` | `TableCorrect` | `Spec => []TableInv` |
| | `TableRefines` | `Spec => ImplementsKnownPeers` (refinement of `KnownPeers`) |
| | `LookupCorrect` | `Spec => []LookupFindsNearest` |
| | `EvictionCorrect` | `Spec => []EvictionSound` |
| `PeerSessionProofs` | `SessionsSound` | `Spec => []SessionInv` |
| | `OrderlyKept` | `Spec => []OrderlyPeerKept` |
| | `SilenceAfterError` | `Spec => SilentAfterError` |
| `TransferFlowProofs` | `FlowCorrect` | `Spec => []FlowInv` |
| | `SignedCovered` | `Spec => []SignedIsCovered` |
| | `RefusedUnpaid` | `Spec => []RefusedIsNotPaid` |
| `GalacticSyncProofs` | `SyncCorrect` | `Spec => []SyncInv` |
| `IngressProofs` | `IngressCorrect` | `Spec => []IngressInv` |
| | `TimelyCorrect` | `Spec => []TimelyDelivery` |

*Solidification.*  The theorems rest on `ConstantsAssumption` and `ExecuteAssumption` only (types of the
constants, and that the PVM yields a changeset or an error); no collision freedom of the hash is needed.
`UndoRestoresHistory` speaks of the ledger at an earlier height and is not inductive by itself: a step
that solidifies a crystal must know that the history has an entry for the height it builds on and that
nothing of an abandoned branch remains above it.  `ChainShape` says so: the tables stop at the tip, and
the history covers the tip, height 0 and every stored crystal.  Solidification then composes one undo
step with those below it (a key's pre-image is taken from the lowest rolled-back height that wrote it,
lemmas on `Rewound`), pruning only removes logs and so only weakens the premise `CanRollBack`, and a
reorganisation first restricts everything to the ancestor, where the invariant holds again, and then
solidifies.  `MemoryMatchesDisk` needs that both ledgers are rolled back with the same logs;
`RootCommitsToAtoms` that trie and memory receive the same changeset from the same start;
`DeepCrystalsImmutable` follows from `UndoWindowBound`: to remove a crystal at height `h` the log of `h`
must exist.  `TipConsistent` adds two facts to `ChainInv` (`TipInv`): before the first reorganisation no
undo log of the window is missing, because each solidification writes one and prunes only what falls out
of the window; and up to the first failure the root index agrees with every stored crystal: a
reorganisation leaves the roots of abandoned heights behind, but it removes their crystals, and a
crystal that is stored again at such a height writes its own root first.

*Crashes.*  A crash may leave any of the database states in `crashable`, so an invariant about the
node's memory is not enough: `CrashInv` says of every such state that it is typed and that it has the
architect's atom unless it is empty of crystals and of a tip.  The latter is what makes a restart safe
to reason about: a start that finds no architect runs genesis, and only a database whose genesis was
never completed may send it there.  That undo logs never delete the architect (`LogsKeepArchitect`) is
part of it, because a reorganisation after the restart replays them.  The proof shows it for the states
*between* two databases, field by field in the order of the writes (`BetweenForms`): if both ends are
well formed, so is all that lies between them (`BetweenKeeps`), and if nothing is removed on the way, no
tip precedes its records (`BetweenOrdered`).  `CtrlCCorrect` then follows from `MemoryMatchesDisk` and
`IndexMatchesTip`, which are part of `CrashInv` and so are shown to survive restarts.  The only further
assumption is `MaxRestarts \in Nat`.

*Mempool.*  `MempoolInv` is inductive once the pooled sets are known to be finite.  For `DrainOrder` the
positions `FirstKeys` takes are shown to be closed under "pays more" (`FirstKeysAreDearest`).

*PVM.*  That a nonce is not spent twice follows from a fact about all of the past: in the ledger, for
committed crystals, and in the view of the batch, for the crystal under execution, an atom's nonce
exceeds every nonce spent under its key, unless it stands at `MaxNonce` (`NonceInv`; the exception is
the saturation of `u64`).  `BatchOK` adds that what a batch still holds is made of well-formed
reactions. Each payload is shown to advance the sender's nonce by one and to take nobody's back
(`Advances`, `Keeps`), also when sender and receiver are one, or the receiver is new.
`AllReactionsCounted` needs the count in the middle of a crystal: at position `p` of the batch the
view's nonce is the ledger's plus the number of user reactions of that sender before `p`, saturated
(`CountInv`); saturating after each addition and saturating once are the same. `MassConserved` is about
sums over all atoms.  A sum is defined by a fold over a set, and the facts needed of it (`SumUnfolds`,
`SumChanges`: changing one atom changes the sum by the difference) are shown by induction over the
finite set of keys, where the induction is stated for the *set* of subsets for which the fact holds
(`InductionOnSet`), not for a predicate, which the provers could not instantiate.  Each payload then
changes the total by what its one or two written atoms gain and lose, a transfer of an atom to itself
included; what saturates, evaporates or is burnt only lowers it.  `Keys` is assumed finite: keys are
byte arrays of a fixed width.

*Routing table.*  `TableInv` is preserved because each of the four changes of a bucket (move to the
head, prepend, replace the tail, remove) keeps its length bound and its members, which are lemmas about
sequences.  The refinement needs more: what each of them does to the *set* of members, given that a
bucket may list a node twice after a disturbed ping.  Where the usual argument is an induction over a
sequence, the proof takes a least or greatest position (`LeastElement`, `GreatestElement`, from the
well-foundedness of the naturals). `LookupCorrect` is about sorting and truncating.  The model's sorted
lists are chosen (`CHOOSE`), so it must first be shown that they exist: the strict order by XOR distance
is total on identifiers (`CloserIsOrder`; two identifiers at one distance are equal), ranks in a finite
strict order are a bijection onto `0..n-1`, and its inverse is the sorted list (`SortedListExists`).
The invariant (`LookupOK`, `HeardOK`) then says that the peers the lookup still holds, the closest and
the queue, include the `K` nearest of everything it has heard of: what a truncation drops has `K` nearer
ones, and the `K` nearest of any subset that contains the `K` nearest are the same (`NearestOfCover`).
A peer in an answer that is skipped because it was visited had been heard of before, so it adds nothing.
`EvictionCorrect` needs to know the bucket of every awaited ping: unless disturbed, it is as it was when
the ping was sent, that is full, without the new peer and with the pinged one last (`TableCalm`); hence
the peer that `pop_back` removes is the one whose ping failed, and the one inserted is not there yet.

*Sessions.*  `ServerInv` has nine parts.  `Accepted` and `Tabled` tie streams and table entries to
connections that were admitted, from which authenticity follows; `GotBelow` says that what was decrypted
lies below the counter, from which order follows; `InTurn` says that a connection whose address is
shared with no admitted other and that has had no excuse has its counter exactly at the number of
messages taken, which is what `OrderlyPeerKept` needs; `SilentAfterError` uses that a dropped stream's
connection is out of turn for good or out of the table.

*Transfers.*  `FlowInd` follows a reaction from the command that signed it through the pool, the batch
under execution, the reactions spread to peers and the chain: each of them has, up to its nonce, the hash
of a reaction that a command signed that was not refused, or the architect signed it (`AllKnown`), two in
the pool with one hash are one (`PoolOK`), and the atom's nonce is the number of payments (`AtomOK`).
Another nonce does not change the hash, so what peers alter stays known (`RenoncedKnown`).  Two payments
of one reaction as it was signed would have one nonce, which `AtomOK` excludes; a refused command has
either never signed or has signed something that never left it.  `FlowAssumption` asks for finitely many
commands and a width.

*Synchronisation.*  A target is taken from a handshake that may be long out of date, so that
`TargetAnnounced` is not inductive.  `SyncInd` extends it to every height on its way: what is on the
wire, what a session task remembers between reading its height and answering, and what a node aims at is
in `Reached`, the heights some node has; and chains only grow.

*Ingress.*  The theorems allow any messages, any number of them with one stream id, copies, and streams
that expire at any time; of a chunked message it is assumed only that it is a sequence of blocks.  First
the reassembly: `FlattenSeq` is a recursive function, and that the concatenation of the blocks of a
message is the message (`FlattenBlocks`) is shown by induction over the *set* of lengths for which it
holds (`NaturalInduction`).  The inductive invariant `IngressInd` follows tasks, locks and streams.
`StreamsOK`: a stream has the length and the hash of a message that was sent with its id, and one block
at each index that was received, of whichever message.  `BoundOK`: a block that waits in its place in
the stream has been fed at least once more than any message of that id it belongs to was delivered.  This is what makes `HandedBound` inductive: a delivery
takes the stream away, and each of its blocks must be fed again before the next.  `OwnOK`: as long as a
stream is not spoiled it holds blocks of its own message only and lacks one of them, and a frame that
was fed is in its stream or its message has been delivered.  `TimelyDelivery` is then immediate, for a
stream that holds every block lacks none.  A stream that was
filled up by a differing block of another message fails the comparison of hashes, so `DeliveredWhole`
needs no collision-free stream ids, only collision-free hashes.  `LocksOrdered` is inductive with the types of
the tasks; a task with a nested envelope holds the reassembler, and so nobody else does.

Only model-checked:

- the properties of `TrieStore`: they rest on the recursive operators of `Trie`, in whose presence the
  prover has no arithmetic.  They also need an induction over tries: that a root determines its ledger
  does not follow from the nodes alone, since a branch hashes the XOR of its children and not their
  positions, but from every value naming the key it is stored under;
- liveness (`CatchesUp`, `GossipQuiesces`, `LookupEnds`, `ExpiredStreamsGo`, `TasksEnd`,
  `PooledIsSpread`, `DesyncCloses`, `CommandsEnd`): the prover handles neither fairness nor `ENABLED`.

## 5. Not modelled

* Errors of sled and of serialisation; the metrics record and contract code.
* Temperature, entropy and difficulty as numbers, and with them the proof-of-work search: it succeeds or
  not.  That the sealed root is set after the search (`processor.rs:202`) and that every attempt starts
  at nonce 0 (`engine.rs:427`) therefore has no consequence in a model.
* Signatures and hashes, which are perfect, except for the XOR in the trie's branches.
* The WASM path: the node does not call it.
* The eviction of identifiers by the gossip service (1,000 of 10,001, `gossip.rs:73`); `get_closest`
  reading bucket by bucket; `insert_arc`, which nothing calls.
* The Kademlia bi-streams of the server (`server.rs:472-484`) and the framing inside `NoiseStream`.
* The challenge protocol and the status requests of the administration socket; the client's polling and
  drawing; wallet files; setup, discovery and NAT: input and output, with no state the other parts read.

`PROJECT.json` lists every part with its status and the reason.
