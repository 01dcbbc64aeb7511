---------------------------- MODULE GalacticSync ----------------------------
(***************************************************************************)
(* How nodes learn of each other's chains over TCP: the two handshakes a   *)
(* dialling node sends, the request for missing crystals, the broadcast    *)
(* and the relaying of new crystals, and the syncing flag that suspends    *)
(* the mining loop.                                                        *)
(*                                                                         *)
(* A crystal is the chain that ends in it, a sequence of the miners of its *)
(* crystals.  All of them have the same cumulative energy, because         *)
(* prepare_next_physical_state passes the parent's on unchanged, so that   *)
(* no crystal ever triggers a reorganisation (module Solidification), and  *)
(* branches that have parted never merge.                                  *)
(*                                                                         *)
(* GetPeers and PeersResponse are left out: what they lead to, dialling an *)
(* address that is not yet listed, is always possible here.                *)
(***************************************************************************)
EXTENDS Naturals, Sequences, SequencesExt, FiniteSets

CONSTANTS
    Nodes,
    Miners,             \* nodes started without --no-mining
    Founder,            \* the node that mined the chain so far
    Seeds,              \* <<n, p>>: n is given p's address
    Entropies,          \* values of global_metrics.entropy
    SYNC_SLACK,         \* a Handshake this far ahead sets a target; 5
    MaxHeight,          \* bound of the model: longest chain
    MaxMined            \* bound of the model: crystals mined from the start on

ASSUME SyncAssumption ==
    /\ Miners \subseteq Nodes /\ Founder \in Nodes
    /\ Seeds \subseteq {s \in Nodes \X Nodes : s[1] # s[2]}
    /\ Entropies \subseteq Nat /\ Entropies # {}
    /\ SYNC_SLACK \in Nat /\ MaxHeight \in Nat /\ MaxMined \in Nat

Heights == 0..MaxHeight
Chains == UNION {[1..h -> Nodes] : h \in Heights}

(* A TCP session: the node that dialled and the one that listened. *)
Sessions == Seeds
Ends(s) == {s[1], s[2]}
Other(s, n) == IF n = s[1] THEN s[2] ELSE s[1]
Endpoints == {e \in Sessions \X Nodes : e[2] \in Ends(e[1])}

Status(kind, h, x) == [kind |-> kind, height |-> h, entropy |-> x]
Request(i, j) == [kind |-> "request", first |-> i, last |-> j]
Response(c) == [kind |-> "crystal", crystal |-> c]
Idle == [kind |-> "idle"]

VARIABLES
    chain,              \* the crystals a node has stored
    entropy,            \* global_metrics.entropy
    syncing, target,    \* is_syncing and sync_target
    peers,              \* addr_peers: whom a node will not dial again
    session,            \* a session is "none", "open" or "closed"
    wire,               \* frames in flight to each end of a session
    task,               \* what handle_peer_logic is doing at each end
    gossip,             \* NewCrystal messages in flight: <<to, crystal>>
    seen,               \* GossipService::seen_messages
    mined,              \* crystals mined so far, for the bound
    refused             \* history: nodes that refused a child of their tip

chainVars == <<chain, entropy>>
boundVars == <<mined, refused>>
syncVars == <<syncing, target>>
netVars == <<peers, session>>
sessionVars == <<wire, task>>
gossipVars == <<gossip, seen>>
vars == <<chainVars, syncVars, netVars, sessionVars, gossipVars, boundVars>>

Height(n) == Len(chain[n])

(* A node that was away holds a prefix of the founder's chain. *)
Init ==
    /\ \E top \in Heights : chain \in
          {f \in [Nodes -> {[i \in 1..h |-> Founder] : h \in 0..top}] :
              Len(f[Founder]) = top}
    /\ entropy \in [Nodes -> Entropies]
    /\ syncing = [n \in Nodes |-> FALSE]
    /\ target = [n \in Nodes |-> 0]
    /\ peers = [n \in Nodes |-> {}]
    /\ session = [s \in Sessions |-> "none"]
    /\ wire = [e \in Endpoints |-> <<>>]
    /\ task = [e \in Endpoints |-> Idle]
    /\ gossip = {}
    /\ seen = [n \in Nodes |-> {}]
    /\ mined = 0 /\ refused = {}

-----------------------------------------------------------------------------
(* Chains *)

(* process_network_crystal: the child of the tip. *)
Extends(n, c) == Len(c) = Height(n) + 1 /\ Front(c) = chain[n]

(* It returns Ok for a crystal at or below the tip, and an error for a     *)
(* crystal with another parent or beyond the next index.                   *)
Known(n, c) == Len(c) <= Height(n)

(* on_crystal.  The child of the tip is stored, and solidification leaves  *)
(* some entropy in the metrics; or it is refused: verify_pow judges it by  *)
(* this node's temperature and difficulty, and the PVM and the state root  *)
(* may fail too.                                                           *)
OnCrystal(n, c) ==
    \/ /\ Extends(n, c)
       /\ chain' = [chain EXCEPT ![n] = c]
       /\ \E x \in Entropies : entropy' = [entropy EXCEPT ![n] = x]
       /\ UNCHANGED refused
    \/ /\ Extends(n, c)
       /\ refused' = refused \cup {n}
       /\ UNCHANGED chainVars
    \/ /\ ~Extends(n, c)
       /\ UNCHANGED <<chainVars, refused>>

(* broadcast_message to the listed peers *)
Sent(n, c) == {<<p, c>> : p \in peers[n]}

(* The mining loop: a node that is syncing does not mine. *)
Mine(n) ==
    /\ n \in Miners
    /\ ~syncing[n]
    /\ Height(n) < MaxHeight /\ mined < MaxMined
    /\ mined' = mined + 1
    /\ LET c == Append(chain[n], n) IN
          /\ chain' = [chain EXCEPT ![n] = c]
          /\ gossip' = gossip \cup Sent(n, c)
    /\ \E x \in Entropies : entropy' = [entropy EXCEPT ![n] = x]
    /\ UNCHANGED <<syncVars, netVars, sessionVars, seen, refused>>

(* Mutant: every copy is relayed. *)
RelayAlways(n, c) ==
    /\ gossip' = (gossip \ {<<n, c>>}) \cup Sent(n, c)
    /\ UNCHANGED seen

(* GossipService::spread: once per message, to all listed peers; the       *)
(* sender is not left out, its address has no port.                        *)
Relay(n, c) ==
    IF c \in seen[n]
    THEN gossip' = gossip \ {<<n, c>>} /\ UNCHANGED seen
    ELSE /\ gossip' = (gossip \ {<<n, c>>}) \cup Sent(n, c)
         /\ seen' = [seen EXCEPT ![n] = @ \cup {c}]

(* NewCrystal: processed in a task of its own, relayed if that went well. *)
ReceiveNewCrystal(n, c) ==
    /\ <<n, c>> \in gossip
    /\ OnCrystal(n, c)
    /\ IF Known(n, c) \/ chain'[n] = c
       THEN Relay(n, c)
       ELSE gossip' = gossip \ {<<n, c>>} /\ UNCHANGED seen
    /\ UNCHANGED <<syncVars, netVars, sessionVars, mined>>

(* send_to_peer failed; nobody tries again. *)
LoseNewCrystal(m) ==
    /\ m \in gossip
    /\ gossip' = gossip \ {m}
    /\ UNCHANGED <<chainVars, syncVars, netVars, sessionVars, seen, boundVars>>

-----------------------------------------------------------------------------
(* network.rs *)

(* connect_to_peer: an address that is listed is not dialled. *)
Dial(s) ==
    /\ s[2] \notin peers[s[1]]
    /\ peers' = [peers EXCEPT ![s[1]] = @ \cup {s[2]}]
    /\ wire' = [wire EXCEPT ![<<s, s[2]>>] =
                   <<Status("handshake", Height(s[1]), entropy[s[1]]),
                     Status("status", Height(s[1]), entropy[s[1]])>>]
    /\ session' = [session EXCEPT ![s] = "open"]
    /\ UNCHANGED <<chainVars, syncVars, task, gossipVars, boundVars>>

(* handle_peer_logic reads a frame when it has finished the one before. *)
Ready(e, kinds) ==
    /\ task[e] = Idle
    /\ wire[e] # <<>>
    /\ Head(wire[e]).kind \in kinds

Popped(e) == [wire EXCEPT ![e] = Tail(@)]

(* A handshake of either sort: the peer is listed under the address it     *)
(* gave, and local_state is read under the engine mutex.                   *)
ReadStatus(e) ==
    /\ Ready(e, {"handshake", "status"})
    /\ LET f == Head(wire[e]) n == e[2] IN
          /\ task' = [task EXCEPT ![e] =
                 [kind |-> "answer", to |-> f, height |-> Height(n),
                  entropy |-> entropy[n]]]
          /\ peers' = IF f.kind = "handshake"
                      THEN [peers EXCEPT ![n] = @ \cup {Other(e[1], n)}]
                      ELSE peers
    /\ wire' = Popped(e)
    /\ UNCHANGED <<chainVars, syncVars, session, gossipVars, boundVars>>

(* is_more_dominant_than, with all energies equal *)
MoreDominant(f, t) ==
    f.height > t.height \/ (f.height = t.height /\ f.entropy > t.entropy)

(* Mutant: the target is the height after the one announced. *)
TargetBeyond(n, h) ==
    /\ syncing' = [syncing EXCEPT ![n] = TRUE]
    /\ target' = [target EXCEPT ![n] = h + 1]

SetSyncTarget(n, h) ==
    /\ syncing' = [syncing EXCEPT ![n] = TRUE]
    /\ target' = [target EXCEPT ![n] = h]

(* Mutant: the first missing crystal is not requested. *)
MissingTooLate(f, t) == Request(t.height + 2, f.height)

Missing(f, t) == Request(t.height + 1, f.height)

(* The rest of the two handlers works with the state that was read, which  *)
(* may have changed since.                                                 *)
Answer(e) ==
    LET t == task[e]
        f == t.to
        n == e[2]
        back == <<e[1], Other(e[1], n)>>
        Reply(frames) == wire' = [wire EXCEPT ![back] = @ \o frames]
    IN
    /\ t.kind = "answer"
    /\ \/ /\ f.kind = "handshake"
          /\ f.entropy > t.entropy \/ f.height > t.height
          /\ IF f.height > t.height + SYNC_SLACK
             THEN SetSyncTarget(n, f.height) ELSE UNCHANGED syncVars
          /\ Reply(<<Status("status", t.height, t.entropy), Missing(f, t)>>)
       \/ /\ f.kind = "status"
          /\ MoreDominant(f, t)
          /\ SetSyncTarget(n, f.height)
          /\ Reply(<<Missing(f, t)>>)
       \/ /\ IF f.kind = "handshake"
             THEN f.entropy <= t.entropy /\ f.height <= t.height
             ELSE ~MoreDominant(f, t)
          /\ UNCHANGED <<syncVars, wire>>
    /\ task' = [task EXCEPT ![e] = Idle]
    /\ UNCHANGED <<chainVars, netVars, gossipVars, boundVars>>

(* RequestCrystals: one lookup under the engine mutex per index. *)
ReadRequest(e) ==
    /\ Ready(e, {"request"})
    /\ task' = [task EXCEPT ![e] =
           [kind |-> "serve", next |-> Head(wire[e]).first, last |-> Head(wire[e]).last]]
    /\ wire' = Popped(e)
    /\ UNCHANGED <<chainVars, syncVars, netVars, gossipVars, boundVars>>

Serve(e) ==
    LET t == task[e]
        n == e[2]
        back == <<e[1], Other(e[1], n)>>
    IN
    /\ t.kind = "serve"
    /\ IF t.next > t.last
       THEN /\ task' = [task EXCEPT ![e] = Idle]
            /\ UNCHANGED wire
       ELSE /\ task' = [task EXCEPT ![e].next = @ + 1]
            /\ wire' = IF t.next <= Height(n)
                       THEN [wire EXCEPT ![back] =
                                Append(@, Response(SubSeq(chain[n], 1, t.next)))]
                       ELSE wire
    /\ UNCHANGED <<chainVars, syncVars, netVars, gossipVars, boundVars>>

ReadCrystal(e) ==
    /\ Ready(e, {"crystal"})
    /\ OnCrystal(e[2], Head(wire[e]).crystal)
    /\ wire' = Popped(e)
    /\ UNCHANGED <<syncVars, netVars, task, gossipVars, mined>>

Handle(e) == ReadStatus(e) \/ Answer(e) \/ ReadRequest(e) \/ Serve(e) \/ ReadCrystal(e)

(* A session ends.  remove_peer_addr is called with the address without    *)
(* its port, which is not in the list.                                     *)
Disconnect(s) ==
    /\ session[s] = "open"
    /\ session' = [session EXCEPT ![s] = "closed"]
    /\ wire' = [e \in Endpoints |-> IF e[1] = s THEN <<>> ELSE wire[e]]
    /\ task' = [e \in Endpoints |-> IF e[1] = s THEN Idle ELSE task[e]]
    /\ UNCHANGED <<chainVars, syncVars, peers, gossipVars, boundVars>>

Next ==
    \/ \E n \in Nodes : Mine(n)
    \/ \E m \in gossip : ReceiveNewCrystal(m[1], m[2]) \/ LoseNewCrystal(m)
    \/ \E s \in Sessions : Dial(s) \/ Disconnect(s)
    \/ \E e \in Endpoints : Handle(e)

(* Sessions and broadcast messages make progress: TCP delivers what was    *)
(* sent on an open session and tokio runs every task that is ready.        *)
Fairness ==
    /\ \A e \in Endpoints : WF_vars(Handle(e))
    /\ WF_vars(\E m \in gossip : ReceiveNewCrystal(m[1], m[2]))

Spec == Init /\ [][Next]_vars /\ Fairness

-----------------------------------------------------------------------------
SyncTypeOK ==
    /\ chain \in [Nodes -> Chains] /\ entropy \in [Nodes -> Entropies]
    /\ syncing \in [Nodes -> BOOLEAN] /\ target \in [Nodes -> Heights]
    /\ peers \in [Nodes -> SUBSET Nodes]
    /\ session \in [Sessions -> {"none", "open", "closed"}]
    /\ DOMAIN wire = Endpoints /\ DOMAIN task = Endpoints
    /\ \A e \in Endpoints : task[e].kind \in {"idle", "answer", "serve"}
    /\ gossip \subseteq Nodes \X Chains /\ seen \in [Nodes -> SUBSET Chains]
    /\ mined \in 0..MaxMined /\ refused \subseteq Nodes

Closed(n) == \E s \in Sessions : n \in Ends(s) /\ session[s] = "closed"

(* The node has mined, or was given, a branch that some other node has not. *)
Parted(n) ==
    \E m \in Nodes : ~IsPrefix(chain[n], chain[m]) /\ ~IsPrefix(chain[m], chain[n])

(* A node that was given a sync target reaches it, unless a session of its *)
(* own is closed, it refused a crystal, or it and another node have mined  *)
(* on different branches: the crystals requested, which may be requested   *)
(* twice, race with broadcast ones and with this node's own mining, and    *)
(* start from a height that was read before the target was set, arrive in  *)
(* an order in which each extends the tip.                                 *)
CatchesUp ==
    \A n \in Nodes, h \in Heights :
        (syncing[n] /\ target[n] = h) ~>
            (Height(n) >= h \/ Closed(n) \/ n \in refused \/ Parted(n))

(* The relaying of a crystal dies out although NewCrystal messages do not  *)
(* lose time to live and are sent back to where they came from.            *)
GossipQuiesces == <>[](gossip = {})

(* A node never aims at a height no node has: targets come from handshakes *)
(* that may be stale when they are answered, but chains do not shrink.     *)
TargetAnnounced == \A n \in Nodes : \E m \in Nodes : target[n] <= Height(m)

(* Types, and that no node runs after a height that nobody announced. *)
SyncInv == SyncTypeOK /\ TargetAnnounced

-----------------------------------------------------------------------------
(* What the documents say, and the code does not do. *)

(* Network specification: is_syncing is true if the node is catching up to *)
(* a sync target.                                                          *)
SyncingMeansBehind == \A n \in Nodes : syncing[n] => Height(n) < target[n]

=============================================================================
