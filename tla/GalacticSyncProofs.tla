------------------------ MODULE GalacticSyncProofs ------------------------
(***************************************************************************)
(* No node of the network ever aims at a height that no node has reached,  *)
(* however stale the handshakes, requests and crystals in flight are: for  *)
(* every set of nodes, sessions and miners, and any length of the chain.   *)
(***************************************************************************)
EXTENDS GalacticSync, SequenceTheorems, TLAPS

(* The heights some node has, or had: chains do not shrink. *)
Reached == {h \in Heights : \E m \in Nodes : h <= Height(m)}

(* What may be in flight and what a session's task may hold, where R are   *)
(* the heights that may be announced.                                      *)
StatusFrames(R) == [kind : {"handshake", "status"}, height : R, entropy : Entropies]
RequestFrames == [kind : {"request"}, first : Nat, last : Nat]
CrystalFrames == [kind : {"crystal"}, crystal : Chains]
Frames(R) == StatusFrames(R) \cup RequestFrames \cup CrystalFrames

AnswerTasks(R) == [kind : {"answer"}, to : StatusFrames(R), height : R, entropy : Entropies]
ServeTasks == [kind : {"serve"}, next : Nat, last : Nat]
SessionTasks(R) == {Idle} \cup AnswerTasks(R) \cup ServeTasks

ChainsOK ==
    /\ chain \in [Nodes -> Chains] /\ entropy \in [Nodes -> Entropies]
    /\ peers \in [Nodes -> SUBSET Nodes]
    /\ session \in [Sessions -> {"none", "open", "closed"}]
    /\ gossip \subseteq Nodes \X Chains /\ seen \in [Nodes -> SUBSET Chains]
    /\ mined \in 0..MaxMined /\ refused \subseteq Nodes

(* Every height that is announced, remembered or aimed at was reached. *)
HeightsOK ==
    /\ syncing \in [Nodes -> BOOLEAN]
    /\ target \in [Nodes -> Reached]
    /\ wire \in [Endpoints -> Seq(Frames(Reached))]
    /\ task \in [Endpoints -> SessionTasks(Reached)]

SyncInd == ChainsOK /\ HeightsOK

-----------------------------------------------------------------------------
(* Operators *)

LEMMA EndpointFacts ==
    ASSUME NEW e \in Endpoints
    PROVE  /\ e[1] \in Sessions /\ e[2] \in Nodes
           /\ Other(e[1], e[2]) \in Nodes
           /\ <<e[1], Other(e[1], e[2])>> \in Endpoints
    BY SyncAssumption DEF Endpoints, Sessions, Ends, Other

LEMMA DialledEndpoint ==
    ASSUME NEW s \in Sessions
    PROVE  s[1] \in Nodes /\ s[2] \in Nodes /\ <<s, s[2]>> \in Endpoints
    BY SyncAssumption DEF Endpoints, Sessions, Ends

LEMMA ChainFacts ==
    ASSUME NEW c \in Chains
    PROVE  c \in Seq(Nodes) /\ Len(c) \in Heights /\ Len(c) \in Nat
<1>1. PICK h \in Heights : c \in [1..h -> Nodes]
    BY DEF Chains
<1>2. h \in Nat
    BY <1>1, SyncAssumption DEF Heights
<1>3. c \in Seq(Nodes) /\ Len(c) = h
    BY <1>1, <1>2
<1> QED BY <1>1, <1>2, <1>3

LEMMA ChainOfLength ==
    ASSUME NEW c \in Seq(Nodes), Len(c) <= MaxHeight
    PROVE  c \in Chains
<1>1. Len(c) \in Heights /\ c \in [1..Len(c) -> Nodes]
    BY SyncAssumption DEF Heights
<1> QED BY <1>1 DEF Chains

(* Frames and tasks that announce heights of a set announce those of a     *)
(* larger one.                                                             *)
LEMMA MoreHeights ==
    ASSUME NEW R, NEW S, R \subseteq S
    PROVE  /\ \A f : f \in Frames(R) => f \in Frames(S)
           /\ \A w : w \in Seq(Frames(R)) => w \in Seq(Frames(S))
           /\ \A t : t \in SessionTasks(R) => t \in SessionTasks(S)
<1>0. \A f : f \in StatusFrames(R) => f \in StatusFrames(S)
    BY DEF StatusFrames
<1>1. \A f : f \in Frames(R) => f \in Frames(S)
    BY <1>0 DEF Frames
<1>2. ASSUME NEW w, w \in Seq(Frames(R)) PROVE w \in Seq(Frames(S))
    BY <1>1, <1>2
<1>3. \A t : t \in AnswerTasks(R) => t \in AnswerTasks(S)
    BY <1>0 DEF AnswerTasks
<1>4. \A t : t \in SessionTasks(R) => t \in SessionTasks(S)
    BY <1>3 DEF SessionTasks
<1> QED BY <1>1, <1>2, <1>4

LEMMA KindsOfFrames ==
    ASSUME NEW R, NEW f \in Frames(R)
    PROVE  /\ f.kind \in {"handshake", "status"} => f \in StatusFrames(R)
           /\ f.kind = "request" => f \in RequestFrames
           /\ f.kind = "crystal" => f \in CrystalFrames
    BY DEF Frames, StatusFrames, RequestFrames, CrystalFrames

LEMMA KindsOfTasks ==
    ASSUME NEW R, NEW t \in SessionTasks(R)
    PROVE  /\ t.kind = "answer" => t \in AnswerTasks(R)
           /\ t.kind = "serve" => t \in ServeTasks
           /\ t.kind \in {"idle", "answer", "serve"}
    BY DEF SessionTasks, AnswerTasks, ServeTasks, Idle

(* A node's own height can be announced. *)
LEMMA OwnHeight ==
    ASSUME ChainsOK, NEW n \in Nodes
    PROVE  Height(n) \in Reached /\ Height(n) \in Heights /\ Height(n) \in Nat /\ chain[n] \in Chains
<1>1. chain[n] \in Chains
    BY DEF ChainsOK
<1>2. Len(chain[n]) \in Heights /\ Len(chain[n]) \in Nat
    BY <1>1, ChainFacts
<1> QED BY <1>1, <1>2 DEF Reached, Height

(* A longer chain here makes no height unreached. *)
LEMMA ReachedGrows ==
    ASSUME ChainsOK, ChainsOK', \A n \in Nodes : Height(n) <= Height(n)'
    PROVE  Reached \subseteq Reached'
<1> SUFFICES ASSUME NEW h \in Heights, NEW m \in Nodes, h <= Height(m)
             PROVE  h <= Height(m)'
    BY DEF Reached
<1>1. Height(m) \in Nat
    BY OwnHeight
<1>2. Height(m)' \in Nat
  <2>1. chain'[m] \in Chains
      BY DEF ChainsOK
  <2> QED BY <2>1, ChainFacts DEF Height
<1>3. h \in Nat /\ Height(m) <= Height(m)'
    BY SyncAssumption DEF Heights
<1> QED BY <1>1, <1>2, <1>3

(* What was announced stays announced when wire, task and target are left  *)
(* alone.                                                                  *)
LEMMA StillReached ==
    ASSUME HeightsOK, Reached \subseteq Reached'
    PROVE  /\ target \in [Nodes -> Reached']
           /\ wire \in [Endpoints -> Seq(Frames(Reached'))]
           /\ task \in [Endpoints -> SessionTasks(Reached')]
<1>1. target \in [Nodes -> Reached']
    BY DEF HeightsOK
<1>2. /\ \A w : w \in Seq(Frames(Reached)) => w \in Seq(Frames(Reached'))
      /\ \A t : t \in SessionTasks(Reached) => t \in SessionTasks(Reached')
    BY MoreHeights
<1> QED BY <1>1, <1>2 DEF HeightsOK

-----------------------------------------------------------------------------
(* Steps *)

(* on_crystal leaves chains, and makes none shorter. *)
LEMMA OnCrystalStep ==
    ASSUME ChainsOK, NEW n \in Nodes, NEW c \in Chains, OnCrystal(n, c)
    PROVE  /\ chain' \in [Nodes -> Chains] /\ entropy' \in [Nodes -> Entropies]
           /\ refused' \subseteq Nodes
           /\ \A m \in Nodes : Height(m) <= Height(m)'
<1>0. \A m \in Nodes : Height(m) \in Nat
    BY OwnHeight
<1>1. chain \in [Nodes -> Chains] /\ entropy \in [Nodes -> Entropies]
    BY DEF ChainsOK
<1>2. refused' \subseteq Nodes
    BY DEF OnCrystal, ChainsOK
<1>3. CASE chain' # chain \/ entropy' # entropy
  <2>0. Extends(n, c)
      BY <1>3 DEF OnCrystal, chainVars
  <2>1. PICK x \in Entropies : entropy' = [entropy EXCEPT ![n] = x]
      BY <1>3 DEF OnCrystal, chainVars
  <2>2. chain' = [chain EXCEPT ![n] = c] /\ Len(c) = Height(n) + 1
      BY <1>3, <2>0 DEF OnCrystal, Extends, chainVars
  <2>3. ASSUME NEW m \in Nodes PROVE Height(m) <= Height(m)'
    <3>1. CASE m = n
        BY <1>0, <1>1, <2>2, <3>1 DEF Height
    <3>2. CASE m # n
        BY <1>0, <1>1, <2>2, <3>2 DEF Height
    <3> QED BY <3>1, <3>2
  <2> QED BY <1>1, <1>2, <2>1, <2>2, <2>3
<1>4. CASE chain' = chain /\ entropy' = entropy
    BY <1>0, <1>1, <1>2, <1>4 DEF Height
<1> QED BY <1>3, <1>4

LEMMA MineStep ==
    ASSUME SyncInd, NEW n \in Nodes, Mine(n)
    PROVE  SyncInd'
<1> DEFINE c == Append(chain[n], n)
<1>0. ChainsOK /\ HeightsOK
    BY DEF SyncInd
<1>1. chain[n] \in Seq(Nodes) /\ Height(n) < MaxHeight /\ Height(n) \in Nat
    BY <1>0, OwnHeight, ChainFacts DEF Mine
<1>2. c \in Seq(Nodes) /\ Len(c) = Height(n) + 1
    BY <1>1 DEF Height
<1>3. c \in Chains
  <2>1. Len(c) <= MaxHeight
      BY <1>1, <1>2, SyncAssumption
  <2> HIDE DEF c
  <2> QED BY <1>2, <2>1, ChainOfLength
<1>4. PICK x \in Entropies : entropy' = [entropy EXCEPT ![n] = x]
    BY DEF Mine
<1>5. /\ chain' = [chain EXCEPT ![n] = c] /\ gossip' = gossip \cup Sent(n, c)
      /\ UNCHANGED <<syncing, target, peers, session, wire, task, seen, refused>>
    BY DEF Mine, syncVars, netVars, sessionVars, boundVars
<1> HIDE DEF c
<1>6. Sent(n, c) \subseteq Nodes \X Chains
    BY <1>0, <1>3 DEF Sent, ChainsOK
<1>7. mined' \in 0..MaxMined
    BY <1>0, SyncAssumption DEF ChainsOK, Mine
<1>8. ChainsOK'
    BY <1>0, <1>3, <1>4, <1>5, <1>6, <1>7 DEF ChainsOK
<1>9. ASSUME NEW m \in Nodes PROVE Height(m) <= Height(m)'
  <2>1. Height(m) \in Nat
      BY <1>0, OwnHeight
  <2>2. chain \in [Nodes -> Chains]
      BY <1>0 DEF ChainsOK
  <2> QED BY <1>2, <1>5, <2>1, <2>2 DEF Height
<1>10. HeightsOK'
    BY <1>0, <1>5, <1>8, <1>9, ReachedGrows, StillReached DEF HeightsOK
<1> QED BY <1>8, <1>10 DEF SyncInd

LEMMA RelayStep ==
    ASSUME ChainsOK, NEW n \in Nodes, NEW c \in Chains, Relay(n, c)
    PROVE  gossip' \subseteq Nodes \X Chains /\ seen' \in [Nodes -> SUBSET Chains]
<1>1. /\ gossip \subseteq Nodes \X Chains /\ seen \in [Nodes -> SUBSET Chains]
      /\ Sent(n, c) \subseteq Nodes \X Chains
    BY DEF Sent, ChainsOK
<1> QED BY <1>1 DEF Relay

LEMMA ReceiveStep ==
    ASSUME SyncInd, NEW m \in gossip, ReceiveNewCrystal(m[1], m[2])
    PROVE  SyncInd'
<1>0. ChainsOK /\ HeightsOK
    BY DEF SyncInd
<1>1. m[1] \in Nodes /\ m[2] \in Chains
    BY <1>0 DEF ChainsOK
<1>2. /\ OnCrystal(m[1], m[2])
      /\ UNCHANGED <<syncing, target, peers, session, wire, task, mined>>
      /\ Relay(m[1], m[2]) \/ (gossip' = gossip \ {<<m[1], m[2]>>} /\ seen' = seen)
    BY DEF ReceiveNewCrystal, syncVars, netVars, sessionVars
<1>3. /\ chain' \in [Nodes -> Chains] /\ entropy' \in [Nodes -> Entropies]
      /\ refused' \subseteq Nodes
      /\ \A k \in Nodes : Height(k) <= Height(k)'
    BY <1>0, <1>1, <1>2, OnCrystalStep
<1>4. gossip' \subseteq Nodes \X Chains /\ seen' \in [Nodes -> SUBSET Chains]
  <2>1. CASE Relay(m[1], m[2])
      BY <1>0, <1>1, <2>1, RelayStep
  <2>2. CASE gossip' = gossip \ {<<m[1], m[2]>>} /\ seen' = seen
      BY <1>0, <2>2 DEF ChainsOK
  <2> QED BY <1>2, <2>1, <2>2
<1>5. ChainsOK'
    BY <1>0, <1>2, <1>3, <1>4 DEF ChainsOK
<1>6. HeightsOK'
    BY <1>0, <1>2, <1>3, <1>5, ReachedGrows, StillReached DEF HeightsOK
<1> QED BY <1>5, <1>6 DEF SyncInd

(* Steps that leave the chains alone leave the heights alone. *)
LEMMA SameReached ==
    ASSUME UNCHANGED chain
    PROVE  Reached' = Reached
    BY DEF Reached, Height

LEMMA LoseStep ==
    ASSUME SyncInd, NEW m \in gossip, LoseNewCrystal(m)
    PROVE  SyncInd'
<1>1. /\ gossip' = gossip \ {m}
      /\ UNCHANGED <<chain, entropy, syncing, target, peers, session, wire, task, seen, mined,
                     refused>>
    BY DEF LoseNewCrystal, chainVars, syncVars, netVars, sessionVars, boundVars
<1>2. Reached' = Reached
    BY <1>1, SameReached
<1>3. ChainsOK'
    BY <1>1 DEF ChainsOK, SyncInd
<1>4. HeightsOK'
    BY <1>1, <1>2 DEF HeightsOK, SyncInd
<1> QED BY <1>3, <1>4 DEF SyncInd

LEMMA DialStep ==
    ASSUME SyncInd, NEW s \in Sessions, Dial(s)
    PROVE  SyncInd'
<1> DEFINE h == Height(s[1])
           x == entropy[s[1]]
           w == <<Status("handshake", h, x), Status("status", h, x)>>
<1>0. ChainsOK /\ HeightsOK
    BY DEF SyncInd
<1>1. s[1] \in Nodes /\ s[2] \in Nodes /\ <<s, s[2]>> \in Endpoints
    BY DialledEndpoint
<1>2. h \in Reached /\ x \in Entropies
    BY <1>0, <1>1, OwnHeight DEF ChainsOK
<1>3. /\ peers' = [peers EXCEPT ![s[1]] = @ \cup {s[2]}]
      /\ wire' = [wire EXCEPT ![<<s, s[2]>>] = w]
      /\ session' = [session EXCEPT ![s] = "open"]
      /\ UNCHANGED <<chain, entropy, syncing, target, task, gossip, seen, mined, refused>>
    BY DEF Dial, chainVars, syncVars, gossipVars, boundVars
<1>4. Reached' = Reached
    BY <1>3, SameReached
<1> HIDE DEF h, x
<1>5. w \in Seq(Frames(Reached))
  <2>1. Status("handshake", h, x) \in Frames(Reached) /\ Status("status", h, x) \in Frames(Reached)
      BY <1>2 DEF Status, Frames, StatusFrames
  <2> QED BY <2>1
<1> HIDE DEF w
<1>6. ChainsOK'
    BY <1>0, <1>1, <1>3 DEF ChainsOK
<1>7. HeightsOK'
    BY <1>0, <1>1, <1>3, <1>4, <1>5 DEF HeightsOK
<1> QED BY <1>6, <1>7 DEF SyncInd

LEMMA DisconnectStep ==
    ASSUME SyncInd, NEW s \in Sessions, Disconnect(s)
    PROVE  SyncInd'
<1>0. ChainsOK /\ HeightsOK
    BY DEF SyncInd
<1>1. /\ session' = [session EXCEPT ![s] = "closed"]
      /\ wire' = [e \in Endpoints |-> IF e[1] = s THEN <<>> ELSE wire[e]]
      /\ task' = [e \in Endpoints |-> IF e[1] = s THEN Idle ELSE task[e]]
      /\ UNCHANGED <<chain, entropy, syncing, target, peers, gossip, seen, mined, refused>>
    BY DEF Disconnect, chainVars, syncVars, gossipVars, boundVars
<1>2. Reached' = Reached
    BY <1>1, SameReached
<1>3. Idle \in SessionTasks(Reached) /\ <<>> \in Seq(Frames(Reached))
    BY DEF SessionTasks
<1>4. ChainsOK'
    BY <1>0, <1>1 DEF ChainsOK
<1>5. HeightsOK'
    BY <1>0, <1>1, <1>2, <1>3 DEF HeightsOK
<1> QED BY <1>4, <1>5 DEF SyncInd

-----------------------------------------------------------------------------
(* The frame a session reads, and the frames after it. *)
LEMMA ReadFrame ==
    ASSUME HeightsOK, NEW e \in Endpoints, NEW kinds, Ready(e, kinds)
    PROVE  /\ Head(wire[e]) \in Frames(Reached) /\ Head(wire[e]).kind \in kinds
           /\ Popped(e) \in [Endpoints -> Seq(Frames(Reached))]
<1>1. wire[e] \in Seq(Frames(Reached)) /\ wire[e] # <<>>
    BY DEF HeightsOK, Ready
<1>2. Head(wire[e]) \in Frames(Reached) /\ Tail(wire[e]) \in Seq(Frames(Reached))
    BY <1>1, HeadTailProperties
<1> QED BY <1>2 DEF HeightsOK, Ready, Popped

LEMMA ReadStatusStep ==
    ASSUME SyncInd, NEW e \in Endpoints, ReadStatus(e)
    PROVE  SyncInd'
<1> DEFINE f == Head(wire[e])
           n == e[2]
           t == [kind |-> "answer", to |-> f, height |-> Height(n), entropy |-> entropy[n]]
<1>0. ChainsOK /\ HeightsOK
    BY DEF SyncInd
<1>1. n \in Nodes /\ Other(e[1], n) \in Nodes
    BY EndpointFacts
<1>2. /\ f \in Frames(Reached) /\ f.kind \in {"handshake", "status"}
      /\ Popped(e) \in [Endpoints -> Seq(Frames(Reached))]
    BY <1>0, ReadFrame DEF ReadStatus
<1>3. /\ task' = [task EXCEPT ![e] = t] /\ wire' = Popped(e)
      /\ peers' = peers \/ peers' = [peers EXCEPT ![n] = @ \cup {Other(e[1], n)}]
      /\ UNCHANGED <<chain, entropy, syncing, target, session, gossip, seen, mined, refused>>
    BY DEF ReadStatus, chainVars, syncVars, gossipVars, boundVars
<1>4. Reached' = Reached
    BY <1>3, SameReached
<1>5. t \in SessionTasks(Reached)
  <2>1. f \in StatusFrames(Reached)
      BY <1>2, KindsOfFrames
  <2>2. Height(n) \in Reached /\ entropy[n] \in Entropies
      BY <1>0, <1>1, OwnHeight DEF ChainsOK
  <2> HIDE DEF f, n
  <2> QED BY <2>1, <2>2 DEF SessionTasks, AnswerTasks
<1> HIDE DEF t, n, f
<1>6. peers' \in [Nodes -> SUBSET Nodes]
    BY <1>0, <1>1, <1>3 DEF ChainsOK
<1>7. ChainsOK'
    BY <1>0, <1>3, <1>6 DEF ChainsOK
<1>8. HeightsOK'
    BY <1>0, <1>2, <1>3, <1>4, <1>5 DEF HeightsOK
<1> QED BY <1>7, <1>8 DEF SyncInd

(* Frames are put on the other end's wire. *)
LEMMA Replied ==
    ASSUME HeightsOK, NEW b \in Endpoints, NEW frames \in Seq(Frames(Reached))
    PROVE  [wire EXCEPT ![b] = @ \o frames] \in [Endpoints -> Seq(Frames(Reached))]
<1>1. wire[b] \in Seq(Frames(Reached))
    BY DEF HeightsOK
<1>2. wire[b] \o frames \in Seq(Frames(Reached))
    BY <1>1
<1> QED BY <1>2 DEF HeightsOK

LEMMA AnswerStep ==
    ASSUME SyncInd, NEW e \in Endpoints, Answer(e)
    PROVE  SyncInd'
<1> DEFINE t == task[e]
           f == t.to
           n == e[2]
           back == <<e[1], Other(e[1], n)>>
<1>0. ChainsOK /\ HeightsOK
    BY DEF SyncInd
<1>1. n \in Nodes /\ back \in Endpoints
    BY EndpointFacts
<1>2. t \in AnswerTasks(Reached)
  <2>1. t \in SessionTasks(Reached) /\ t.kind = "answer"
      BY <1>0 DEF HeightsOK, Answer
  <2> QED BY <2>1, KindsOfTasks
<1>3. /\ f \in StatusFrames(Reached) /\ t.height \in Reached /\ t.entropy \in Entropies
      /\ f.height \in Reached
    BY <1>2 DEF AnswerTasks, StatusFrames
<1>4. /\ task' = [task EXCEPT ![e] = Idle]
      /\ UNCHANGED <<chain, entropy, peers, session, gossip, seen, mined, refused>>
    BY DEF Answer, chainVars, netVars, gossipVars, boundVars
<1>5. Reached' = Reached
    BY <1>4, SameReached
<1>6. \/ /\ syncing' = syncing /\ target' = target
      \/ /\ syncing' = [syncing EXCEPT ![n] = TRUE]
         /\ target' = [target EXCEPT ![n] = f.height]
    BY DEF Answer, SetSyncTarget, syncVars
<1>7. \/ wire' = wire
      \/ wire' = [wire EXCEPT ![back] = @ \o <<Status("status", t.height, t.entropy), Missing(f, t)>>]
      \/ wire' = [wire EXCEPT ![back] = @ \o <<Missing(f, t)>>]
    BY DEF Answer
<1>8. Missing(f, t) \in Frames(Reached) /\ Status("status", t.height, t.entropy) \in Frames(Reached)
  <2>1. \A h \in Reached : h \in Nat
      BY SyncAssumption DEF Reached, Heights
  <2>2. t.height + 1 \in Nat /\ f.height \in Nat
      BY <1>3, <2>1
  <2>3. Missing(f, t) \in Frames(Reached)
      BY <2>2 DEF Missing, Request, Frames, RequestFrames
  <2>4. Status("status", t.height, t.entropy) \in Frames(Reached)
      BY <1>3 DEF Status, Frames, StatusFrames
  <2> QED BY <2>3, <2>4
<1> DEFINE one == <<Missing(f, t)>>
           two == <<Status("status", t.height, t.entropy), Missing(f, t)>>
<1>9. one \in Seq(Frames(Reached)) /\ two \in Seq(Frames(Reached))
    BY <1>8
<1>10. \/ wire' = wire
       \/ wire' = [wire EXCEPT ![back] = @ \o two]
       \/ wire' = [wire EXCEPT ![back] = @ \o one]
    BY <1>7
<1> HIDE DEF one, two, back, n, f, t
<1>11. wire' \in [Endpoints -> Seq(Frames(Reached))]
  <2>1. wire \in [Endpoints -> Seq(Frames(Reached))]
      BY <1>0 DEF HeightsOK
  <2>2. /\ [wire EXCEPT ![back] = @ \o two] \in [Endpoints -> Seq(Frames(Reached))]
        /\ [wire EXCEPT ![back] = @ \o one] \in [Endpoints -> Seq(Frames(Reached))]
      BY <1>0, <1>1, <1>9, Replied
  <2> QED BY <1>10, <2>1, <2>2
<1>12. target' \in [Nodes -> Reached]
    BY <1>0, <1>1, <1>3, <1>6 DEF HeightsOK
<1>13. syncing' \in [Nodes -> BOOLEAN]
    BY <1>0, <1>1, <1>6 DEF HeightsOK
<1>14. task' \in [Endpoints -> SessionTasks(Reached)]
    BY <1>0, <1>4 DEF HeightsOK, SessionTasks
<1>15. ChainsOK'
    BY <1>0, <1>4 DEF ChainsOK
<1>16. HeightsOK'
    BY <1>5, <1>11, <1>12, <1>13, <1>14 DEF HeightsOK
<1> QED BY <1>15, <1>16 DEF SyncInd

LEMMA ReadRequestStep ==
    ASSUME SyncInd, NEW e \in Endpoints, ReadRequest(e)
    PROVE  SyncInd'
<1> DEFINE f == Head(wire[e])
           t == [kind |-> "serve", next |-> f.first, last |-> f.last]
<1>0. ChainsOK /\ HeightsOK
    BY DEF SyncInd
<1>1. /\ f \in Frames(Reached) /\ f.kind = "request"
      /\ Popped(e) \in [Endpoints -> Seq(Frames(Reached))]
    BY <1>0, ReadFrame DEF ReadRequest
<1>2. /\ task' = [task EXCEPT ![e] = t] /\ wire' = Popped(e)
      /\ UNCHANGED <<chain, entropy, syncing, target, peers, session, gossip, seen, mined, refused>>
    BY DEF ReadRequest, chainVars, syncVars, netVars, gossipVars, boundVars
<1>3. Reached' = Reached
    BY <1>2, SameReached
<1>4. t \in SessionTasks(Reached)
  <2>1. f.first \in Nat /\ f.last \in Nat
      BY <1>1, KindsOfFrames DEF RequestFrames
  <2> HIDE DEF f
  <2> QED BY <2>1 DEF SessionTasks, ServeTasks
<1> HIDE DEF t
<1>5. ChainsOK'
    BY <1>0, <1>2 DEF ChainsOK
<1>6. HeightsOK'
    BY <1>0, <1>1, <1>2, <1>3, <1>4 DEF HeightsOK
<1> QED BY <1>5, <1>6 DEF SyncInd

(* What is served is a chain: the part of the node's own up to an index. *)
LEMMA ServeStep ==
    ASSUME SyncInd, NEW e \in Endpoints, Serve(e)
    PROVE  SyncInd'
<1> DEFINE t == task[e]
           n == e[2]
           back == <<e[1], Other(e[1], n)>>
           c == SubSeq(chain[n], 1, t.next)
<1>0. ChainsOK /\ HeightsOK
    BY DEF SyncInd
<1>1. n \in Nodes /\ back \in Endpoints
    BY EndpointFacts
<1>2. t.next \in Nat /\ t.last \in Nat /\ t \in ServeTasks
  <2>1. t \in SessionTasks(Reached) /\ t.kind = "serve"
      BY <1>0 DEF HeightsOK, Serve
  <2> QED BY <2>1, KindsOfTasks DEF ServeTasks
<1>3. UNCHANGED <<chain, entropy, syncing, target, peers, session, gossip, seen, mined, refused>>
    BY DEF Serve, chainVars, syncVars, netVars, gossipVars, boundVars
<1>4. Reached' = Reached
    BY <1>3, SameReached
<1>5. ChainsOK'
    BY <1>0, <1>3 DEF ChainsOK
<1>6. task' \in [Endpoints -> SessionTasks(Reached)]
  <2>1. CASE task' = [task EXCEPT ![e] = Idle]
      BY <1>0, <2>1 DEF HeightsOK, SessionTasks
  <2>2. CASE task' = [task EXCEPT ![e].next = @ + 1]
    <3> DEFINE u == [t EXCEPT !.next = @ + 1]
    <3>1. u \in SessionTasks(Reached)
        BY <1>2 DEF ServeTasks, SessionTasks
    <3>2. task' = [task EXCEPT ![e] = u]
        BY <2>2
    <3> HIDE DEF u
    <3> QED BY <1>0, <3>1, <3>2 DEF HeightsOK
  <2> QED BY <2>1, <2>2 DEF Serve
<1>7. wire' \in [Endpoints -> Seq(Frames(Reached))]
  <2>1. wire \in [Endpoints -> Seq(Frames(Reached))]
      BY <1>0 DEF HeightsOK
  <2>2. CASE wire' = wire
      BY <2>1, <2>2
  <2>3. CASE t.next <= Height(n) /\ wire' = [wire EXCEPT ![back] = Append(@, Response(c))]
    <3>1. chain[n] \in Seq(Nodes) /\ Height(n) \in Nat /\ Height(n) <= MaxHeight
        BY <1>0, <1>1, OwnHeight, ChainFacts, SyncAssumption DEF Heights
    <3>2. c \in Seq(Nodes) /\ Len(c) = t.next
      <4> DEFINE k == t.next
                 r == chain[n]
      <4>1. r \in Seq(Nodes) /\ k \in Nat /\ k <= Len(r)
          BY <1>2, <2>3, <3>1 DEF Height
      <4> HIDE DEF k, r
      <4>2. SubSeq(r, 1, k) \in Seq(Nodes) /\ Len(SubSeq(r, 1, k)) = k
          BY <4>1
      <4> QED BY <4>2 DEF k, r
    <3>3. Len(c) <= MaxHeight
        BY <1>2, <2>3, <3>1, <3>2, SyncAssumption
    <3>4. c \in Chains
      <4> HIDE DEF c
      <4> QED BY <3>2, <3>3, ChainOfLength
    <3> HIDE DEF c
    <3>5. Response(c) \in Frames(Reached)
        BY <3>4 DEF Response, Frames, CrystalFrames
    <3>6. wire[back] \in Seq(Frames(Reached))
        BY <1>1, <2>1
    <3>7. Append(wire[back], Response(c)) \in Seq(Frames(Reached))
      <4> HIDE DEF back
      <4> QED BY <3>5, <3>6
    <3> HIDE DEF back
    <3> QED BY <1>1, <2>1, <2>3, <3>7
  <2> QED BY <2>2, <2>3 DEF Serve
<1>8. HeightsOK'
    BY <1>0, <1>3, <1>4, <1>6, <1>7 DEF HeightsOK
<1> QED BY <1>5, <1>8 DEF SyncInd

LEMMA ReadCrystalStep ==
    ASSUME SyncInd, NEW e \in Endpoints, ReadCrystal(e)
    PROVE  SyncInd'
<1> DEFINE f == Head(wire[e])
<1>0. ChainsOK /\ HeightsOK
    BY DEF SyncInd
<1>1. /\ f \in Frames(Reached) /\ f.kind = "crystal"
      /\ Popped(e) \in [Endpoints -> Seq(Frames(Reached))]
    BY <1>0, ReadFrame DEF ReadCrystal
<1>2. e[2] \in Nodes /\ f.crystal \in Chains
  <2>1. f \in CrystalFrames
      BY <1>1, KindsOfFrames
  <2> HIDE DEF f
  <2> QED BY <2>1, EndpointFacts DEF CrystalFrames
<1>3. /\ OnCrystal(e[2], f.crystal) /\ wire' = Popped(e)
      /\ UNCHANGED <<syncing, target, peers, session, task, gossip, seen, mined>>
    BY DEF ReadCrystal, syncVars, netVars, gossipVars
<1> HIDE DEF f
<1>4. /\ chain' \in [Nodes -> Chains] /\ entropy' \in [Nodes -> Entropies]
      /\ refused' \subseteq Nodes
      /\ \A k \in Nodes : Height(k) <= Height(k)'
    BY <1>0, <1>2, <1>3, OnCrystalStep
<1>5. ChainsOK'
    BY <1>0, <1>3, <1>4 DEF ChainsOK
<1>6. Reached \subseteq Reached'
    BY <1>0, <1>4, <1>5, ReachedGrows
<1>7. wire' \in [Endpoints -> Seq(Frames(Reached'))]
  <2>1. \A w : w \in Seq(Frames(Reached)) => w \in Seq(Frames(Reached'))
      BY <1>6, MoreHeights
  <2> QED BY <1>1, <1>3, <2>1
<1>8. HeightsOK'
    BY <1>0, <1>3, <1>6, <1>7, StillReached DEF HeightsOK
<1> QED BY <1>5, <1>8 DEF SyncInd

LEMMA SyncSteps == SyncInd /\ [Next]_vars => SyncInd'
<1> SUFFICES ASSUME SyncInd, [Next]_vars PROVE SyncInd'
    OBVIOUS
<1>1. CASE UNCHANGED vars
  <2>1. /\ UNCHANGED <<chain, entropy, syncing, target, peers, session, wire, task, gossip, seen,
                     mined, refused>>
      BY <1>1 DEF vars, chainVars, syncVars, netVars, sessionVars, gossipVars, boundVars
  <2> QED BY <2>1, SameReached DEF SyncInd, ChainsOK, HeightsOK
<1> QED BY <1>1, MineStep, ReceiveStep, LoseStep, DialStep, DisconnectStep, ReadStatusStep,
           AnswerStep, ReadRequestStep, ServeStep, ReadCrystalStep DEF Next, Handle

LEMMA SyncInit == Init => SyncInd
<1> SUFFICES ASSUME Init PROVE SyncInd
    OBVIOUS
<1> USE SyncAssumption
<1>1. chain \in [Nodes -> Chains]
  <2>1. PICK top \in Heights :
            chain \in [Nodes -> {[i \in 1..h |-> Founder] : h \in 0..top}]
      BY DEF Init
  <2>2. ASSUME NEW h \in 0..top PROVE [i \in 1..h |-> Founder] \in Chains
    <3>1. h \in Heights
        BY DEF Heights
    <3> QED BY <3>1 DEF Chains
  <2> QED BY <2>1, <2>2
<1>2. ChainsOK
    BY <1>1 DEF Init, ChainsOK
<1>3. 0 \in Reached
  <2>1. Height(Founder) \in Nat /\ 0 \in Heights
      BY <1>2, OwnHeight DEF Heights
  <2> QED BY <2>1 DEF Reached
<1>4. <<>> \in Seq(Frames(Reached)) /\ Idle \in SessionTasks(Reached)
    BY DEF SessionTasks
<1>5. HeightsOK
    BY <1>3, <1>4 DEF Init, HeightsOK
<1> QED BY <1>2, <1>5 DEF SyncInd

LEMMA SyncIndImplies == SyncInd => SyncInv
<1> SUFFICES ASSUME SyncInd PROVE SyncInv
    OBVIOUS
<1>1. \A e \in Endpoints : task[e].kind \in {"idle", "answer", "serve"}
    BY KindsOfTasks DEF SyncInd, HeightsOK
<1>2. target \in [Nodes -> Heights]
    BY DEF SyncInd, HeightsOK, Reached
<1>3. SyncTypeOK
    BY <1>1, <1>2 DEF SyncInd, ChainsOK, HeightsOK, SyncTypeOK
<1>4. TargetAnnounced
    BY DEF SyncInd, HeightsOK, Reached, TargetAnnounced
<1> QED BY <1>3, <1>4 DEF SyncInv

(* The sync target of a node is a height that some node has, although it   *)
(* comes from handshakes that waited on the wire, and is set after the     *)
(* node's own height was read: so nobody waits for crystals that were      *)
(* never mined.                                                            *)
THEOREM SyncCorrect == Spec => []SyncInv
<1>1. Init => SyncInd
    BY SyncInit
<1>2. SyncInd /\ [Next]_vars => SyncInd'
    BY SyncSteps
<1>3. SyncInd => SyncInv
    BY SyncIndImplies
<1> QED BY <1>1, <1>2, <1>3, PTL DEF Spec

=============================================================================
