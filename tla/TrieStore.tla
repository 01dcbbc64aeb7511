------------------------------ MODULE TrieStore ------------------------------
(***************************************************************************)
(* The state trie in the database: commits, pruning with collection of     *)
(* nodes, and the requests for proofs that run beside them.                *)
(*                                                                         *)
(* A solidification runs under the engine mutex from commit_changeset to   *)
(* prune_undo_window, but a proof request gives the mutex back as soon as  *)
(* it has a handle of the database: it reads mpt_root and then walks the   *)
(* nodes while solidifications go on.  Nodes are never overwritten with    *)
(* other contents, so when its walk is taken does not matter, only which   *)
(* nodes are there: the walk is one step.                                  *)
(***************************************************************************)
EXTENDS Trie

CONSTANTS
    Keys,           \* trie keys (SHA3 of public keys): sequences of nibbles
    Versions,       \* contents of an atom apart from its key
    Asked,          \* the keys proofs are requested for
    Changesets,     \* what a crystal may write: sequences of <<key, version>>
    UNDO_WINDOW,
    MaxHeight,      \* bound of the model: largest crystal index
    None            \* no crystal stored; no request

ASSUME TrieStoreAssumption ==
    /\ UNDO_WINDOW \in Nat /\ MaxHeight \in Nat
    /\ Keys \subseteq Seq(Nibbles)
    /\ \A k, l \in Keys : Len(k) = Len(l)

VARIABLES
    nodes,          \* mpt_nodes: hash -> node
    mptRoot,        \* MerklePatriciaTrie::root, in memory
    dbRoot,         \* mpt_root
    roots,          \* mpt_root_{index}
    gcLog,          \* mpt_gc_log: index -> root before that commit
    latest,         \* latest_index
    pc,             \* how far the running solidification is, and its index
    request,        \* a proof request: root it read, key; or None
    reply,          \* what a request has just been answered
    (* history, read by no action *)
    content,        \* key -> value inserted last
    served,         \* content when dbRoot was written
    untidy          \* commits of an index used before, or of several keys

vars == <<nodes, mptRoot, dbRoot, roots, gcLog, latest, pc, request, reply,
          content, served, untidy>>
chain == <<nodes, mptRoot, dbRoot, roots, gcLog, latest, pc, content, served, untidy>>

Value(k, version) == <<k, version>>
NoContent == [k \in Keys |-> NoValue]
Idle == [at |-> "idle", index |-> 0]

Init ==
    /\ nodes = [h \in {} |-> {}] /\ mptRoot = Zero /\ dbRoot = Zero
    /\ roots = [i \in {} |-> Zero] /\ gcLog = [i \in {} |-> Zero]
    /\ latest = None
    /\ pc = Idle /\ request = None /\ reply = None
    /\ content = NoContent /\ served = NoContent /\ untidy = 0

-----------------------------------------------------------------------------
(* commit_changeset, up to the insertion into the trie: the root before it *)
(* is logged for collection, unless the trie was empty.                    *)

InsertAll(cs) ==
    FoldLeft(LAMBDA t, u : Insert(t.nodes, t.root, u[1], Value(u[1], u[2])),
             [nodes |-> nodes, root |-> mptRoot], cs)

PutRecord(table, i, v) == (i :> v) @@ table

(* The index is that of the child of the tip or, in a reorganisation, of   *)
(* the crystal that replaces the tip; genesis when there is no tip.        *)
NextIndices == IF latest = None THEN {0} ELSE {latest, latest + 1}

Commit ==
    /\ pc = Idle
    /\ \E i \in NextIndices, cs \in Changesets :
        LET t == InsertAll(cs) IN
        /\ i <= MaxHeight
        /\ nodes' = t.nodes
        /\ mptRoot' = t.root
        /\ gcLog' = IF mptRoot = Zero THEN gcLog ELSE PutRecord(gcLog, i, mptRoot)
        /\ pc' = [at |-> "inserted", index |-> i]
        /\ content' = FoldLeft(LAMBDA m, u : [m EXCEPT ![u[1]] = Value(u[1], u[2])],
                               content, cs)
        /\ untidy' = untidy + IF i \in DOMAIN roots \/ Len(cs) > 1 THEN 1 ELSE 0
    /\ reply' = None
    /\ UNCHANGED <<dbRoot, roots, latest, request, served>>

(* ... and its last writes: mpt_root and mpt_root_{index}. *)
Publish ==
    /\ pc.at = "inserted"
    /\ dbRoot' = mptRoot
    /\ roots' = PutRecord(roots, pc.index, mptRoot)
    /\ served' = content
    /\ pc' = [pc EXCEPT !.at = "published"]
    /\ reply' = None
    /\ UNCHANGED <<nodes, mptRoot, gcLog, latest, request, content, untidy>>

(* finalize_solidification: save_crystal ... *)
SaveCrystal ==
    /\ pc.at = "published"
    /\ latest' = pc.index
    /\ pc' = [pc EXCEPT !.at = "saved"]
    /\ reply' = None
    /\ UNCHANGED <<nodes, mptRoot, dbRoot, roots, gcLog, request,
                   content, served, untidy>>

(* ... or an error after the commit: the state root does not match. *)
StateRootMismatch ==
    /\ pc.at = "published"
    /\ latest # None
    /\ pc' = Idle
    /\ reply' = None
    /\ UNCHANGED <<nodes, mptRoot, dbRoot, roots, gcLog, latest, request,
                   content, served, untidy>>

(* prune_undo_window: every logged root below the window is collected      *)
(* against the current root, and its record removed.                       *)
Expired(height) == {i \in DOMAIN gcLog : i + UNDO_WINDOW < height}

(* Mutant: a collection that takes only the root itself for live. *)
CollectAllOld(store, height) ==
    [h \in DOMAIN store \ UNION {Orphans(store, gcLog[i], {mptRoot}) : i \in Expired(height)}
        |-> store[h]]

(* Mutant: the record is removed, the nodes are not. *)
CollectNothing(store, height) == store

(* The mutex of the trie is taken for each record, but nobody else writes. *)
Collect(store, height) ==
    FoldLeft(LAMBDA s, i : GcSince(s, mptRoot, gcLog[i]), store,
             SetToSortSeq(Expired(height), <))

PruneUndoWindow ==
    /\ pc.at = "saved"
    /\ nodes' = Collect(nodes, pc.index)
    /\ gcLog' = [i \in DOMAIN gcLog \ Expired(pc.index) |-> gcLog[i]]
    /\ pc' = Idle
    /\ request' = IF request = None THEN None ELSE [request EXCEPT !.overtaken = TRUE]
    /\ reply' = None
    /\ UNCHANGED <<mptRoot, dbRoot, roots, latest, content, served, untidy>>

-----------------------------------------------------------------------------
(* on_get_proof.  overtaken and content are history: whether a             *)
(* solidification has pruned since the root was read, and what that root   *)
(* stood for.                                                              *)

(* Mutant: the root is that of the trie in memory. *)
GetProofFromMemory ==
    /\ request = None
    /\ \E k \in Asked :
        request' = [root |-> mptRoot, key |-> k, overtaken |-> FALSE, content |-> served]
    /\ reply' = None
    /\ UNCHANGED chain

GetProof ==
    /\ request = None
    /\ \E k \in Asked :
        request' = [root |-> dbRoot, key |-> k, overtaken |-> FALSE, content |-> served]
    /\ reply' = None
    /\ UNCHANGED chain

AnswerProof ==
    /\ request # None
    /\ reply' = [request |-> request,
                 proof |-> IF PathStored(nodes, request.root, request.key)
                           THEN Prove(nodes, request.root, request.key) ELSE None]
    /\ request' = None
    /\ UNCHANGED chain

Next ==
    \/ Commit
    \/ Publish
    \/ SaveCrystal
    \/ StateRootMismatch
    \/ PruneUndoWindow
    \/ GetProof
    \/ AnswerProof

Spec == Init /\ [][Next]_vars

-----------------------------------------------------------------------------
(* Reference definition: the root of the trie for a set of pairs of a      *)
(* suffix and a value, with no insertion and no store.                     *)

SharedPrefix(S) ==
    LET s == CHOOSE t \in S : TRUE IN
    Max({n \in 0..Len(s) : \A t \in S : n <= Len(t) /\ SubSeq(t, 1, n) = SubSeq(s, 1, n)})

RECURSIVE CanonicalRoot(_)
CanonicalRoot(pairs) ==
    LET suffixes == {p[1] : p \in pairs}
        m == SharedPrefix(suffixes)
        cut == {<<Drop(p[1], m), p[2]>> : p \in pairs}
        below(n) == CanonicalRoot({<<Tail(p[1]), p[2]>> : p \in {q \in cut : Head(q[1]) = n}})
        branch == Hash(Branch([n \in Nibbles |-> below(n)], NoValue))
    IN  IF pairs = {} THEN Zero
        ELSE IF Cardinality(pairs) = 1
        THEN LET p == CHOOSE q \in pairs : TRUE IN Hash(Leaf(p[1], p[2]))
        ELSE IF m = 0 THEN branch
        ELSE Hash(Extension(SubSeq(CHOOSE s \in suffixes : TRUE, 1, m), branch))

RootOf(map) == CanonicalRoot({<<k, map[k]>> : k \in {l \in Keys : map[l] # NoValue}})

Holds(store, root, map) ==
    \A k \in Keys : PathStored(store, root, k) /\ Get(store, root, k) = map[k]

-----------------------------------------------------------------------------
TrieTypeOK ==
    /\ \A h \in DOMAIN nodes : Hash(nodes[h]) = h
    /\ DOMAIN gcLog \subseteq 0..MaxHeight /\ DOMAIN roots \subseteq 0..MaxHeight
    /\ latest \in {None} \cup 0..MaxHeight
    /\ pc.at \in {"idle", "inserted", "published", "saved"}

(* Whatever has been collected, the trie in memory and the root a restart  *)
(* or a proof request reads from the database are complete and hold what   *)
(* was last committed under every key.                                     *)
RootsComplete ==
    Holds(nodes, mptRoot, content) /\ Holds(nodes, dbRoot, served)

(* Nodes are stored under their own hash, and no collection takes one away *)
(* that the trie in memory or the root in the database still needs.        *)
StoreInv == TrieTypeOK /\ RootsComplete

(* The state root is a function of the atoms: however the keys were        *)
(* inserted and overwritten, and after the deletion of any of them, the    *)
(* root is the canonical one, which is what lets nodes compare roots.      *)
RootIsCanonical ==
    /\ mptRoot = RootOf(content)
    /\ \A k \in Keys :
        LET t == Delete(nodes, mptRoot, k)
            rest == [content EXCEPT ![k] = NoValue]
        IN  t.root = RootOf(rest) /\ Holds(t.nodes, t.root, rest)

(* A proof of the current trie verifies, and the same proof with another   *)
(* value does not; excepted are paths with two equal Extension steps, for  *)
(* which verify_proof looks at the wrong part of the key.                  *)
RepeatsExtension(path) ==
    \E i, j \in DOMAIN path : i < j /\ path[i][1] = "ext" /\ path[i] = path[j]

ProofsVerify ==
    \A k \in Keys :
        LET p == Prove(nodes, mptRoot, k) IN
        /\ p.value = content[k]
        /\ ~RepeatsExtension(p.path) => VerifyProof(p)
        /\ p.value # NoValue => \A w \in Versions :
              Value(k, w) # p.value => ~VerifyProof([p EXCEPT !.value = Value(k, w)])

(* A proof request that no solidification overtakes is answered; and a     *)
(* request that is answered gets the value the ledger had when it came.    *)
RepliesAreTrue ==
    reply # None =>
        /\ reply.proof = None => reply.request.overtaken
        /\ reply.proof # None =>
              /\ reply.proof.value = reply.request.content[reply.request.key]
              /\ reply.proof.root = RootOf(reply.request.content)

(* Collection keeps up: as long as every crystal wrote one key and no      *)
(* index was committed twice, a stored node belongs to the current trie or *)
(* to one whose collection is still due.                                   *)
GarbageIsLogged ==
    untidy = 0 => DOMAIN nodes \subseteq
        Reachable(nodes, mptRoot) \cup UNION {Reachable(nodes, gcLog[i]) : i \in DOMAIN gcLog}

-----------------------------------------------------------------------------
(* What the code's comments and tests say, and the code does not do.       *)

(* mpt.rs and the property tests: every proof the trie gives verifies. *)
HonestProofVerifies ==
    \A k \in Keys : VerifyProof(Prove(nodes, mptRoot, k))

(* primus-sdk/src/proof.rs: verify_proof_pure is the same algorithm. *)
SdkAgreesWithNode ==
    \A k \in Keys :
        LET p == Prove(nodes, mptRoot, k) IN VerifyProofPure(p) = VerifyProof(p)

(* root_at: the root of an index inside the window has not been pruned. *)
WindowRootsComplete ==
    \A i \in DOMAIN roots :
        latest # None /\ i + UNDO_WINDOW >= latest =>
            \A k \in Keys : PathStored(nodes, roots[i], k)

=============================================================================
