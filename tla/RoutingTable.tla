---------------------------- MODULE RoutingTable ----------------------------
(***************************************************************************)
(* The Kademlia table of one node and its iterative lookup.                *)
(*                                                                         *)
(* A bucket has its own lock.  RoutingTable::insert gives the lock back    *)
(* while it pings the tail of a full bucket and takes it again to replace  *)
(* "the tail", whichever node that is by then: two steps, between which    *)
(* other tasks insert, refresh and remove.  find_node is a task of its own *)
(* that asks a batch of peers at once and inserts every peer it is told    *)
(* of.  Node records are represented by their node ids, which are          *)
(* sequences of bits; whether a record is authentic is a property of it.   *)
(***************************************************************************)
EXTENDS Naturals, Sequences, FiniteSets, Functions

CONSTANTS
    Ids,            \* node ids: sequences of NBUCKETS bits
    LocalId,        \* the id of this node
    Forged,         \* ids whose record fails PrimusNR::verify
    Targets,        \* ids lookups are started for
    Answers,        \* what a peer may answer to FIND_NODE: sequences of ids
    Tasks,          \* tasks that insert peers they have shaken hands with
    Lookup,         \* the task that runs find_node
    K,              \* BUCKET_SIZE
    ALPHA,
    NBUCKETS

ASSUME RoutingAssumption ==
    /\ Ids \subseteq [1..NBUCKETS -> {0, 1}]
    /\ LocalId \in Ids /\ Forged \subseteq Ids /\ Targets \subseteq Ids
    /\ Answers \subseteq Seq(Ids)
    /\ Lookup \notin Tasks
    /\ K \in Nat \ {0} /\ ALPHA \in Nat \ {0} /\ NBUCKETS \in Nat \ {0}

(* xor_distance, as a sequence of bits *)
XorDistance(a, b) == [i \in 1..NBUCKETS |-> IF a[i] = b[i] THEN 0 ELSE 1]

(* bucket_index: the position of the first bit set; NBUCKETS - 1 for zero  *)
BucketIndex(d) ==
    IF \E i \in 1..NBUCKETS : d[i] = 1
    THEN (CHOOSE i \in 1..NBUCKETS : d[i] = 1 /\ \A j \in 1..NBUCKETS : j < i => d[j] = 0) - 1
    ELSE NBUCKETS - 1

BucketOf(id) == BucketIndex(XorDistance(LocalId, id))

(* a is strictly closer to the target than b: byte-wise comparison. *)
Closer(a, b, target) ==
    LET d == XorDistance(a, target)
        e == XorDistance(b, target)
    IN  \E i \in 1..NBUCKETS : d[i] < e[i] /\ \A j \in 1..NBUCKETS : j < i => d[j] = e[j]

VARIABLES
    buckets,        \* bucket index -> ids, most recently seen first
    task,           \* task -> the insertion that awaits a ping, if any
    lookup,         \* the state of find_node
    (* history, read by no action *)
    disturbed,      \* some bucket changed while another task awaited a ping on it
    wronged,        \* ids removed by replace_tail that were not the pinged ones
    heard           \* ids the running lookup started from or was told of

vars == <<buckets, task, lookup, disturbed, wronged, heard>>

Callers == Tasks \cup {Lookup}

Quiet == [at |-> "idle", id |-> LocalId, tail |-> LocalId]
NoLookup ==
    [at |-> "idle", target |-> LocalId, queue |-> <<>>, closest |-> {},
     visited |-> {}, batch |-> <<>>, pending |-> {}, answers |-> <<>>, found |-> FALSE]

Init ==
    /\ buckets = [b \in 0..(NBUCKETS - 1) |-> <<>>]
    /\ task = [t \in Callers |-> Quiet]
    /\ lookup = NoLookup
    /\ disturbed = FALSE /\ wronged = {} /\ heard = {}

-----------------------------------------------------------------------------
(* KBucket *)

RemoveAt(s, p) == SubSeq(s, 1, p - 1) \o SubSeq(s, p + 1, Len(s))
Position(s, id) == CHOOSE p \in DOMAIN s : s[p] = id /\ \A q \in DOMAIN s : s[q] = id => p <= q
MoveToHead(s, id) == <<id>> \o RemoveAt(s, Position(s, id))

(* The elements of a sequence at a set of positions, in their order. *)
Nth(S, j) == CHOOSE i \in S : Cardinality({h \in S : h <= i}) = j
Subsequence(s, S) == [j \in 1..Cardinality(S) |-> s[Nth(S, j)]]

(* Mutant: retain with the test the wrong way round. *)
WithoutOthers(s, id) == Subsequence(s, {i \in DOMAIN s : s[i] = id})

Without(s, id) == Subsequence(s, {i \in DOMAIN s : s[i] # id})

(* Mutant: the new node is put in front and the tail is kept. *)
ReplaceTailKeeping(s, id) == IF s = <<>> THEN s ELSE <<id>> \o s

(* replace_tail: nothing happens to a bucket that has become empty. *)
ReplaceTail(s, id) ==
    IF s = <<>> THEN s ELSE <<id>> \o SubSeq(s, 1, Len(s) - 1)

-----------------------------------------------------------------------------
(* RoutingTable::insert, up to the ping.  A task that changes bucket b     *)
(* disturbs those who await a ping on it.                                  *)

Disturbs(t, b) ==
    \E u \in Callers \ {t} : task[u].at = "pinging" /\ BucketOf(task[u].id) = b

Accepts(id) == id # LocalId /\ id \notin Forged

(* Mutant: a node that is present is refreshed without leaving its place. *)
InsertTwice(t, id) ==
    LET b == BucketOf(id) IN
    \/ /\ ~Accepts(id)
       /\ UNCHANGED <<buckets, task, disturbed>>
    \/ /\ Accepts(id) /\ Len(buckets[b]) < K
       /\ buckets' = [buckets EXCEPT ![b] = <<id>> \o @]
       /\ disturbed' = (disturbed \/ Disturbs(t, b))
       /\ UNCHANGED task
    \/ /\ Accepts(id) /\ Len(buckets[b]) >= K
       /\ task' = [task EXCEPT ![t] =
                      [at |-> "pinging", id |-> id, tail |-> buckets[b][Len(buckets[b])]]]
       /\ UNCHANGED <<buckets, disturbed>>

Insert(t, id) ==
    LET b == BucketOf(id) IN
    \/ /\ ~Accepts(id)
       /\ UNCHANGED <<buckets, task, disturbed>>
    \/ /\ Accepts(id) /\ id \in Range(buckets[b])
       /\ buckets' = [buckets EXCEPT ![b] = MoveToHead(@, id)]
       /\ disturbed' = (disturbed \/ Disturbs(t, b))
       /\ UNCHANGED task
    \/ /\ Accepts(id) /\ id \notin Range(buckets[b]) /\ Len(buckets[b]) < K
       /\ buckets' = [buckets EXCEPT ![b] = <<id>> \o @]
       /\ disturbed' = (disturbed \/ Disturbs(t, b))
       /\ UNCHANGED task
    \/ /\ Accepts(id) /\ id \notin Range(buckets[b]) /\ Len(buckets[b]) >= K
       /\ task' = [task EXCEPT ![t] =
                      [at |-> "pinging", id |-> id, tail |-> buckets[b][Len(buckets[b])]]]
       /\ UNCHANGED <<buckets, disturbed>>

InsertPeer(t) ==
    /\ task[t].at = "idle"
    /\ \E id \in Ids : Insert(t, id)
    /\ UNCHANGED <<lookup, wronged, heard>>

(* The tail answers within the five seconds ... *)
PingAnswered(t) ==
    /\ task[t].at = "pinging"
    /\ task' = [task EXCEPT ![t] = Quiet]
    /\ UNCHANGED <<buckets, lookup, disturbed, wronged, heard>>

(* ... or does not, be it down or slow: the tail of now is replaced. *)
PingFailed(t) ==
    LET b == BucketOf(task[t].id)
        s == buckets[b]
    IN
    /\ task[t].at = "pinging"
    /\ buckets' = [buckets EXCEPT ![b] = ReplaceTail(s, task[t].id)]
    /\ wronged' = IF s = <<>> \/ s[Len(s)] = task[t].tail THEN wronged
                  ELSE wronged \cup {s[Len(s)]}
    /\ disturbed' = (disturbed \/ Disturbs(t, b))
    /\ task' = [task EXCEPT ![t] = Quiet]
    /\ UNCHANGED <<lookup, heard>>

-----------------------------------------------------------------------------
(* find_node *)

(* The n nearest elements of a set, and a set in order of distance. *)
Nearest(S, n, target) ==
    {a \in S : Cardinality({c \in S : Closer(c, a, target)}) < n}

InOrder(S, target) ==
    CHOOSE s \in [1..Cardinality(S) -> S] :
        /\ Range(s) = S
        /\ \A i, j \in DOMAIN s : i < j => ~Closer(s[j], s[i], target)

(* get_closest_arc: the entries of all buckets in order of distance, a     *)
(* node that is in a bucket twice being there twice, cut to K entries.     *)
Entries == UNION {{<<b, i>> : i \in DOMAIN buckets[b]} : b \in DOMAIN buckets}
IdAt(e) == buckets[e[1]][e[2]]
SortedEntries(target) ==
    CHOOSE s \in [1..Cardinality(Entries) -> Entries] :
        /\ Range(s) = Entries
        /\ \A i, j \in DOMAIN s : i < j => ~Closer(IdAt(s[j]), IdAt(s[i]), target)
Truncate(s, n) == IF Len(s) <= n THEN s ELSE SubSeq(s, 1, n)

GetClosest(target) ==
    LET s == SortedEntries(target) IN Truncate([i \in DOMAIN s |-> IdAt(s[i])], K)

(* find_node returns closest; its other variables are gone. *)
Returned(closest) ==
    [NoLookup EXCEPT !.target = lookup.target, !.closest = closest]

StartLookup ==
    /\ lookup.at = "idle"
    /\ task[Lookup].at = "idle"
    /\ \E target \in Targets :
        /\ lookup' = [NoLookup EXCEPT !.at = "asking", !.target = target,
                         !.queue = GetClosest(target), !.visited = {LocalId}]
        /\ heard' = Range(GetClosest(target))
    /\ UNCHANGED <<buckets, task, disturbed, wronged>>

(* The first ALPHA entries of the queue that have not been asked. *)
Batch ==
    LET q == lookup.queue
    IN  Truncate(Subsequence(q, {i \in DOMAIN q : q[i] \notin lookup.visited}), ALPHA)

(* Mutant: the nodes asked are not recorded as visited. *)
AskBatchForgetting ==
    /\ lookup.at = "asking"
    /\ lookup' = IF Batch = <<>> THEN Returned(lookup.closest)
                 ELSE [lookup EXCEPT !.at = "waiting", !.batch = Batch,
                          !.pending = DOMAIN Batch,
                          !.answers = [i \in DOMAIN Batch |-> <<>>],
                          !.found = FALSE]
    /\ UNCHANGED <<buckets, task, disturbed, wronged, heard>>

(* A batch is asked; the lookup ends when there is nobody left to ask. *)
AskBatch ==
    /\ lookup.at = "asking"
    /\ lookup' = IF Batch = <<>> THEN Returned(lookup.closest)
                 ELSE [lookup EXCEPT !.at = "waiting", !.batch = Batch,
                          !.pending = DOMAIN Batch,
                          !.answers = [i \in DOMAIN Batch |-> <<>>],
                          !.visited = @ \cup Range(Batch),
                          !.found = FALSE]
    /\ UNCHANGED <<buckets, task, disturbed, wronged, heard>>

(* send_find_node returns a list of records ... *)
Answered(i) ==
    /\ lookup.at = "waiting" /\ i \in lookup.pending
    /\ \E ids \in Answers :
        lookup' = [lookup EXCEPT !.pending = @ \ {i}, !.answers[i] = ids]
    /\ UNCHANGED <<buckets, task, disturbed, wronged, heard>>

(* ... or fails: mark_failed removes the peer from the table. *)
NotAnswered(i) ==
    LET id == lookup.batch[i]
        b == BucketOf(id)
    IN
    /\ lookup.at = "waiting" /\ i \in lookup.pending
    /\ lookup' = [lookup EXCEPT !.pending = @ \ {i}]
    /\ buckets' = [buckets EXCEPT ![b] = Without(@, id)]
    /\ disturbed' = (disturbed \/ Disturbs(Lookup, b))
    /\ UNCHANGED <<task, wronged, heard>>

(* join_all has returned: the answers are taken in the order of the batch, *)
(* record by record, each inserted into the table (with the ping, if need  *)
(* be, awaited) and queued unless it was asked already.                    *)
NextAnswer(i) ==
    /\ i \in DOMAIN lookup.answers /\ lookup.answers[i] # <<>>
    /\ \A j \in DOMAIN lookup.answers : j < i => lookup.answers[j] = <<>>
AllMerged == \A i \in DOMAIN lookup.answers : lookup.answers[i] = <<>>

MergeOne(i) ==
    LET id == Head(lookup.answers[i])
        fresh == id \notin lookup.visited
    IN
    /\ lookup.at = "waiting" /\ lookup.pending = {} /\ NextAnswer(i)
    /\ task[Lookup].at = "idle"
    /\ Insert(Lookup, id)
    /\ lookup' = [lookup EXCEPT !.answers[i] = Tail(@),
                     !.queue = IF fresh THEN Append(@, id) ELSE @,
                     !.found = @ \/ fresh]
    /\ heard' = heard \cup ({id} \ {LocalId})
    /\ UNCHANGED wronged

(* Mutant: the list is cut before the new nodes are sorted into it. *)
ClosestUnsorted == lookup.closest \cup Range(Truncate(lookup.queue, K - Cardinality(lookup.closest)))

(* closest: extended by the queue, sorted, deduplicated, truncated. *)
Closest == Nearest(lookup.closest \cup Range(lookup.queue), K, lookup.target)

EndRound ==
    LET left == Closest \ lookup.visited IN
    /\ lookup.at = "waiting" /\ lookup.pending = {} /\ AllMerged
    /\ task[Lookup].at = "idle"
    /\ lookup' = IF ~lookup.found THEN Returned(lookup.closest)
                 ELSE IF left = {} THEN Returned(Closest)
                 ELSE [lookup EXCEPT !.at = "asking", !.closest = Closest,
                          !.queue = InOrder(left, lookup.target),
                          !.batch = <<>>, !.answers = <<>>, !.found = FALSE]
    /\ UNCHANGED <<buckets, task, disturbed, wronged, heard>>

FindNode ==
    \/ AskBatch
    \/ EndRound
    \/ \E i \in 1..ALPHA : Answered(i) \/ NotAnswered(i) \/ MergeOne(i)

Next ==
    \/ \E t \in Tasks : InsertPeer(t)
    \/ \E t \in Callers : PingAnswered(t) \/ PingFailed(t)
    \/ StartLookup
    \/ FindNode

(* A ping ends within five seconds and QUIC ends an idle connection, so    *)
(* the steps of a running lookup are taken sooner or later.                *)
Fairness ==
    /\ WF_vars(FindNode)
    /\ WF_vars(PingAnswered(Lookup) \/ PingFailed(Lookup))

Spec == Init /\ [][Next]_vars
FairSpec == Spec /\ Fairness

-----------------------------------------------------------------------------
IsLookup(l) ==
    /\ l.at \in {"idle", "asking", "waiting"}
    /\ l.target \in Ids /\ l.closest \subseteq Ids /\ l.visited \subseteq Ids
    /\ l.queue \in Seq(Ids) /\ l.batch \in Seq(Ids)
    /\ l.at = "asking" => Len(l.queue) <= K
    /\ Len(l.batch) <= ALPHA /\ l.pending \subseteq DOMAIN l.batch

RoutingTypeOK ==
    /\ buckets \in [0..(NBUCKETS - 1) -> Seq(Ids)]
    /\ task \in [Callers -> [at : {"idle", "pinging"}, id : Ids, tail : Ids]]
    /\ disturbed \in BOOLEAN

(* However the insertions interleave, a bucket never exceeds K entries and *)
(* holds only authentic peers of its own distance, never the node itself;  *)
(* nor does a ping that is awaited stand for another kind of peer.         *)
BucketsSound ==
    /\ \A b \in DOMAIN buckets :
          /\ Len(buckets[b]) <= K
          /\ \A i \in DOMAIN buckets[b] :
                Accepts(buckets[b][i]) /\ BucketOf(buckets[b][i]) = b
    /\ \A t \in Callers : task[t].at = "pinging" => Accepts(task[t].id)

(* Whatever tasks await pings meanwhile, the table stays well formed. *)
TableInv == RoutingTypeOK /\ BucketsSound

(* As long as no bucket changes under a pending ping, a bucket lists each  *)
(* peer once, a lookup asks each peer once, and the only peers evicted are *)
(* those whose own ping failed.                                            *)
Distinct(s) == \A i, j \in DOMAIN s : s[i] = s[j] => i = j

EvictionSound ==
    ~disturbed =>
        /\ wronged = {}
        /\ \A b \in DOMAIN buckets : Distinct(buckets[b])
        /\ Distinct(lookup.batch)

(* A lookup that has learned anything returns the K nearest of all the     *)
(* nodes it started from or was told of.                                   *)
LookupFindsNearest ==
    /\ IsLookup(lookup)
    /\ lookup.at = "idle" /\ lookup.closest # {} =>
          lookup.closest = Nearest(heard, K, lookup.target)

(* Nobody is asked twice, so every lookup ends, whatever peers answer. *)
LookupEnds == lookup.at # "idle" ~> lookup.at = "idle"

(* The table implements a set of peers that changes one peer at a time. *)
Known == UNION {Range(buckets[b]) : b \in DOMAIN buckets}
AcceptablePeers == {id \in Ids : Accepts(id)}
Abstract == INSTANCE KnownPeers WITH
    Peers <- AcceptablePeers, Region <- BucketOf, Capacity <- K, known <- Known
ImplementsKnownPeers == Abstract!Spec

-----------------------------------------------------------------------------
(* dht.rs, RoutingTable::insert: "If tail is unresponsive, it is replaced  *)
(* by the new peer" - no other node is.                                    *)
OnlyUnresponsiveEvicted == wronged = {}

=============================================================================
