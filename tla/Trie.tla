-------------------------------- MODULE Trie --------------------------------
(***************************************************************************)
(* The Merkle-Patricia trie of primus-storage as operators on a store of   *)
(* nodes: lookup, insertion, deletion, collection of unreachable nodes,    *)
(* proofs, and the two verifiers of proofs (the node's and the SDK's).     *)
(*                                                                         *)
(* A 32-byte string is represented by the set of digests whose XOR it is:  *)
(* XOR is symmetric difference, [0u8; 32] (and the absent root) is {}, and *)
(* a digest is the tuple that was hashed, so digests do not collide.  A    *)
(* branch hashes the XOR of its children and not their positions, as in    *)
(* the code; what keeps that sound is that the value under a key names the *)
(* key (an atom holds its public key).                                     *)
(***************************************************************************)
EXTENDS Naturals, Sequences, FiniteSets, FiniteSetsExt, SequencesExt, TLC

CONSTANTS
    Nibbles,        \* the alphabet of keys (0..15 in the code)
    NoValue         \* None, for Option<Vec<u8>>

Zero == {}          \* [0u8; 32]; also None for Option<Hash32>
ValueSlot == 16     \* the nibble that marks a value held by a branch

Xor(a, b) == (a \ b) \cup (b \ a)

(* The XOR of the hashes h[n] for n in slots. *)
XorOf(h, slots) ==
    {d \in UNION {h[n] : n \in slots} :
        Cardinality({n \in slots : d \in h[n]}) % 2 = 1}

ValueHash(v) == IF v = NoValue THEN Zero ELSE {<<"value", v>>}
BranchHash(xor) == {<<"BRANCH", xor>>}

Leaf(suffix, v) == [type |-> "leaf", suffix |-> suffix, value |-> v]
Extension(prefix, child) == [type |-> "ext", prefix |-> prefix, child |-> child]
Branch(children, v) == [type |-> "branch", children |-> children, value |-> v]
NoChildren == [n \in Nibbles |-> Zero]

(* MptNode::hash *)
Hash(node) ==
    CASE node.type = "leaf"   -> {<<"leaf", node.suffix, node.value>>}
      [] node.type = "ext"    -> {<<"ext", node.prefix, node.child>>}
      [] node.type = "branch" ->
            BranchHash(Xor(XorOf(node.children, Nibbles), ValueHash(node.value)))

(* put_node: the store with the node in it, and the node's hash. *)
Put(store, node) ==
    [nodes |-> (Hash(node) :> node) @@ store, root |-> Hash(node)]

Drop(s, n) == SubSeq(s, n + 1, Len(s))

CommonPrefix(a, b) ==
    Max({n \in 0..Min({Len(a), Len(b)}) : SubSeq(a, 1, n) = SubSeq(b, 1, n)})

-----------------------------------------------------------------------------
(* get, and whether it finds every node it asks the store for ("Node not   *)
(* found" otherwise).                                                      *)

RECURSIVE Get(_, _, _)
Get(store, root, nibbles) ==
    IF root = Zero THEN NoValue
    ELSE LET node == store[root] IN
         CASE node.type = "leaf" ->
                  IF node.suffix = nibbles THEN node.value ELSE NoValue
           [] node.type = "ext" ->
                  IF IsPrefix(node.prefix, nibbles)
                  THEN Get(store, node.child, Drop(nibbles, Len(node.prefix)))
                  ELSE NoValue
           [] node.type = "branch" ->
                  IF nibbles = <<>> THEN node.value
                  ELSE Get(store, node.children[Head(nibbles)], Tail(nibbles))

RECURSIVE PathStored(_, _, _)
PathStored(store, root, nibbles) ==
    root # Zero =>
        /\ root \in DOMAIN store
        /\ LET node == store[root] IN
           CASE node.type = "leaf" -> TRUE
             [] node.type = "ext" ->
                    IsPrefix(node.prefix, nibbles) =>
                        PathStored(store, node.child, Drop(nibbles, Len(node.prefix)))
             [] node.type = "branch" ->
                    nibbles # <<>> =>
                        PathStored(store, node.children[Head(nibbles)], Tail(nibbles))

-----------------------------------------------------------------------------
(* insert *)

(* A branch under construction; Place puts the value of a key that goes on *)
(* with nibbles[at + 1 ..] into it: in a leaf, or at the branch itself.    *)
Building(store, children) == [nodes |-> store, children |-> children, value |-> NoValue]

Place(b, nibbles, at, v) ==
    IF at = Len(nibbles) THEN [b EXCEPT !.value = v]
    ELSE LET leaf == Put(b.nodes, Leaf(Drop(nibbles, at + 1), v)) IN
         [b EXCEPT !.nodes = leaf.nodes, !.children[nibbles[at + 1]] = leaf.root]

(* Store the branch, behind an extension unless the prefix is empty. *)
PutBranch(b, prefix) ==
    LET branch == Put(b.nodes, Branch(b.children, b.value)) IN
    IF prefix = <<>> THEN branch ELSE Put(branch.nodes, Extension(prefix, branch.root))

InsertAtLeaf(store, node, nibbles, v) ==
    LET m == CommonPrefix(node.suffix, nibbles)
        old == Place(Building(store, NoChildren), node.suffix, m, node.value)
    IN  IF node.suffix = nibbles THEN Put(store, Leaf(nibbles, v))
        ELSE PutBranch(Place(old, nibbles, m, v), SubSeq(nibbles, 1, m))

(* An extension whose prefix diverges from the key after m nibbles. *)
SplitExtension(store, node, nibbles, m, v) ==
    LET old == IF m + 1 = Len(node.prefix) THEN [nodes |-> store, root |-> node.child]
               ELSE Put(store, Extension(Drop(node.prefix, m + 1), node.child))
        b == Building(old.nodes, [NoChildren EXCEPT ![node.prefix[m + 1]] = old.root])
    IN  PutBranch(Place(b, nibbles, m, v), SubSeq(nibbles, 1, m))

RECURSIVE Insert(_, _, _, _)
Insert(store, root, nibbles, v) ==
    IF root = Zero THEN Put(store, Leaf(nibbles, v))
    ELSE LET node == store[root] IN
         CASE node.type = "leaf" -> InsertAtLeaf(store, node, nibbles, v)
           [] node.type = "ext" ->
                LET m == CommonPrefix(node.prefix, nibbles) IN
                IF m < Len(node.prefix) THEN SplitExtension(store, node, nibbles, m, v)
                ELSE LET c == Insert(store, node.child, Drop(nibbles, m), v) IN
                     Put(c.nodes, Extension(node.prefix, c.root))
           [] node.type = "branch" ->
                IF nibbles = <<>> THEN Put(store, Branch(node.children, v))
                ELSE LET n == Head(nibbles)
                         c == Insert(store, node.children[n], Tail(nibbles), v)
                     IN  Put(c.nodes, Branch([node.children EXCEPT ![n] = c.root],
                                             node.value))

-----------------------------------------------------------------------------
(* delete: the store and the new root, in canonical form *)

(* Put prefix in front of what the child is: a leaf or an extension absorbs *)
(* it, a branch gets an extension.                                          *)
Absorb(t, prefix) ==
    LET node == t.nodes[t.root] IN
    CASE node.type = "leaf"   -> Put(t.nodes, Leaf(prefix \o node.suffix, node.value))
      [] node.type = "ext"    -> Put(t.nodes, Extension(prefix \o node.prefix, node.child))
      [] node.type = "branch" -> Put(t.nodes, Extension(prefix, t.root))

(* Mutant: a branch left with one child is kept as it is. *)
CanonicalBranchKept(store, children, v) == Put(store, Branch(children, v))

CanonicalBranch(store, children, v) ==
    LET remaining == {n \in Nibbles : children[n] # Zero} IN
    CASE remaining = {} /\ v = NoValue -> [nodes |-> store, root |-> Zero]
      [] remaining = {} /\ v # NoValue -> Put(store, Leaf(<<>>, v))
      [] Cardinality(remaining) = 1 /\ v = NoValue ->
            LET n == CHOOSE n \in remaining : TRUE IN
            Absorb([nodes |-> store, root |-> children[n]], <<n>>)
      [] OTHER -> Put(store, Branch(children, v))

RECURSIVE Delete(_, _, _)
Delete(store, root, nibbles) ==
    LET keep == [nodes |-> store, root |-> root] IN
    IF root = Zero THEN keep
    ELSE LET node == store[root] IN
         CASE node.type = "leaf" ->
                IF node.suffix = nibbles THEN [keep EXCEPT !.root = Zero] ELSE keep
           [] node.type = "ext" ->
                IF ~IsPrefix(node.prefix, nibbles) THEN keep
                ELSE LET c == Delete(store, node.child, Drop(nibbles, Len(node.prefix)))
                     IN  IF c.root = Zero THEN c ELSE Absorb(c, node.prefix)
           [] node.type = "branch" ->
                IF nibbles = <<>> THEN CanonicalBranch(store, node.children, NoValue)
                ELSE LET n == Head(nibbles)
                         c == Delete(store, node.children[n], Tail(nibbles))
                     IN  CanonicalBranch(c.nodes, [node.children EXCEPT ![n] = c.root],
                                         node.value)

-----------------------------------------------------------------------------
(* gc_since *)

(* collect_reachable: the hashes below a root, missing nodes included. *)
RECURSIVE Reachable(_, _)
Reachable(store, root) ==
    IF root = Zero THEN {}
    ELSE {root} \cup
         IF root \notin DOMAIN store THEN {}
         ELSE LET node == store[root] IN
              CASE node.type = "leaf"   -> {}
                [] node.type = "ext"    -> Reachable(store, node.child)
                [] node.type = "branch" ->
                      UNION {Reachable(store, node.children[n]) : n \in Nibbles}

(* delete_unreachable: what is below root, stopping at live nodes. *)
RECURSIVE Orphans(_, _, _)
Orphans(store, root, live) ==
    IF root = Zero \/ root \in live \/ root \notin DOMAIN store THEN {}
    ELSE {root} \cup
         LET node == store[root] IN
         CASE node.type = "leaf"   -> {}
           [] node.type = "ext"    -> Orphans(store, node.child, live)
           [] node.type = "branch" ->
                 UNION {Orphans(store, node.children[n], live) : n \in Nibbles}

GcSince(store, current, old) ==
    IF current = Zero THEN store
    ELSE LET orphans == Orphans(store, old, Reachable(store, current)) IN
         [h \in DOMAIN store \ orphans |-> store[h]]

-----------------------------------------------------------------------------
(* prove: the steps of the path and the siblings needed to climb it again. *)

NoProof == [value |-> NoValue, siblings |-> <<>>, path |-> <<>>]

(* Mutant: the sibling hash of a branch includes the child on the path. *)
WholeBranchHash(node, skip) == Xor(XorOf(node.children, Nibbles), ValueHash(node.value))

BranchSiblingHash(node, skip) ==
    Xor(XorOf(node.children, Nibbles \ {skip}), ValueHash(node.value))

RECURSIVE GetWithProof(_, _, _, _)
GetWithProof(store, root, nibbles, p) ==
    IF root = Zero THEN p
    ELSE LET node == store[root]
             wrong == Append(p.siblings, Hash(node))     \* exclusion
         IN
         CASE node.type = "leaf" ->
                IF node.suffix = nibbles
                THEN [p EXCEPT !.path = Append(@, <<"leaf">>), !.value = node.value]
                ELSE [p EXCEPT !.path = Append(@, <<"leaf">>), !.siblings = wrong]
           [] node.type = "ext" ->
                LET q == [p EXCEPT !.path = Append(@, <<"ext", Len(node.prefix)>>)] IN
                IF IsPrefix(node.prefix, nibbles)
                THEN GetWithProof(store, node.child, Drop(nibbles, Len(node.prefix)), q)
                ELSE [q EXCEPT !.siblings = wrong]
           [] node.type = "branch" ->
                IF nibbles = <<>>
                THEN [p EXCEPT !.path = Append(@, <<"branch", ValueSlot>>),
                               !.siblings = Append(@, XorOf(node.children, Nibbles)),
                               !.value = node.value]
                ELSE GetWithProof(store, node.children[Head(nibbles)], Tail(nibbles),
                        [p EXCEPT !.path = Append(@, <<"branch", Head(nibbles)>>),
                                  !.siblings = Append(@, BranchSiblingHash(node, Head(nibbles)))])

Prove(store, root, key) ==
    LET p == GetWithProof(store, root, key, NoProof) IN
    [trie_key |-> key, value |-> p.value, root |-> root,
     siblings |-> p.siblings, path |-> p.path]

-----------------------------------------------------------------------------
(* verify_proof *)

StepNibbles(step) ==
    CASE step[1] = "branch" -> IF step[2] < ValueSlot THEN 1 ELSE 0
      [] step[1] = "ext"    -> step[2]
      [] step[1] = "leaf"   -> 0

(* Nibbles of the key consumed by the first i steps. *)
Consumed(path, i) == FoldLeft(LAMBDA acc, s : acc + StepNibbles(s), 0, SubSeq(path, 1, i))

(* The hash of the last node of the path and the number of siblings left,   *)
(* or the rejection of the proof.                                          *)
Reject == [ok |-> FALSE, hash |-> Zero, left |-> 0]

Terminal(p) ==
    LET last == p.path[Len(p.path)]
        s == Len(p.siblings)
        start == Consumed(p.path, Len(p.path))
    IN
    CASE last[1] = "leaf" /\ p.value # NoValue ->
            IF start > Len(p.trie_key) THEN Reject
            ELSE [ok |-> TRUE, left |-> s, hash |-> Hash(Leaf(Drop(p.trie_key, start), p.value))]
      [] last[1] = "leaf" /\ p.value = NoValue ->
            IF s = 0 THEN Reject ELSE [ok |-> TRUE, left |-> s - 1, hash |-> p.siblings[s]]
      [] last[1] = "ext" ->
            IF s = 0 \/ p.value # NoValue THEN Reject
            ELSE [ok |-> TRUE, left |-> s - 1, hash |-> p.siblings[s]]
      [] last[1] = "branch" ->
            IF s = 0 \/ (last[2] # ValueSlot /\ p.value # NoValue) THEN Reject
            ELSE [ok |-> TRUE, left |-> s - 1,
                  hash |-> BranchHash(Xor(p.siblings[s], ValueHash(p.value)))]

(* The position in the key at which the prefix of an Extension step begins. *)
(* The loop stops at the first step EQUAL to the one being processed.       *)
PrefixStart(path, step) ==
    Consumed(path, Min({j \in DOMAIN path : path[j] = step}) - 1)

(* Climb from step i of the path to the root. *)
RECURSIVE Climb(_, _, _)
Climb(p, i, at) ==
    IF i = 0 \/ ~at.ok THEN at
    ELSE LET step == p.path[i]
             start == PrefixStart(p.path, step)
         IN
         CASE step[1] = "branch" ->
                IF at.left = 0 THEN Reject
                ELSE Climb(p, i - 1, [ok |-> TRUE, left |-> at.left - 1,
                                      hash |-> BranchHash(Xor(p.siblings[at.left], at.hash))])
           [] step[1] = "ext" ->
                IF start + step[2] > Len(p.trie_key) THEN Reject
                ELSE Climb(p, i - 1, [at EXCEPT !.hash =
                        Hash(Extension(SubSeq(p.trie_key, start + 1, start + step[2]), at.hash))])
           [] step[1] = "leaf" -> Reject

VerifyProof(p) ==
    IF p.path = <<>> THEN p.root = Zero /\ p.value = NoValue
    ELSE LET top == Climb(p, Len(p.path) - 1, Terminal(p)) IN top.ok /\ top.hash = p.root

-----------------------------------------------------------------------------
(* The SDK: verify_proof_pure and verify_balance_proof *)

(* LeafRepr and ExtRepr are serialised without the tag of the enum, and a  *)
(* branch hashes nibble, child and sibling: digests of their own kinds.    *)
RECURSIVE SdkClimb(_, _, _, _, _)
SdkClimb(p, i, left, pos, hash) ==
    IF i = 0 THEN hash = p.root
    ELSE LET step == p.path[i] IN
         CASE step[1] = "branch" ->
                /\ left > 0
                /\ SdkClimb(p, i - 1, left - 1, pos - 1,
                        {<<"sdk_branch", step[2], hash, p.siblings[left]>>})
           [] step[1] = "ext" ->
                SdkClimb(p, i - 1, left, pos - step[2],
                    {<<"sdk_ext", SubSeq(p.trie_key, pos - step[2] + 1, pos), hash>>})
           [] step[1] = "leaf" -> FALSE

VerifyProofPure(p) ==
    IF p.path = <<>> THEN p.root = Zero /\ p.value = NoValue
    ELSE /\ p.path[Len(p.path)] = <<"leaf">>
         /\ \/ p.value = NoValue
            \/ SdkClimb(p, Len(p.path) - 1, Len(p.siblings), Len(p.trie_key),
                   {<<"sdk_leaf", Drop(p.trie_key, Consumed(p.path, Len(p.path))), p.value>>})

(* Ok(_) rather than Err(_): young enough, for the trusted root, and valid. *)
VerifyBalanceProof(p, expected_root, age, max_age) ==
    age <= max_age /\ p.root = expected_root /\ VerifyProofPure(p)

=============================================================================
