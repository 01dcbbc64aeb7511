------------------------- MODULE PeerSessionProofs -------------------------
(***************************************************************************)
(* The sessions of the QUIC server, for any number of connections, streams *)
(* and permits and any sharing of addresses: what is decrypted is          *)
(* authentic and in order, a connection is lost only for a reason, and an  *)
(* error is not stepped over.                                              *)
(***************************************************************************)
EXTENDS PeerSession, FiniteSetTheorems, SequenceTheorems, TLAPS

StreamStates ==
    {"unused", "sealed", "opened", "queued", "handled", "failing", "done", "dropped"}

(* Another connection of the same address got a session. *)
Shared(c) == \E d \in Conns \ {c} : Addr[d] = Addr[c] /\ shake[d] = "up"

TypeInv ==
    /\ peer \in Peers /\ kept \in BOOLEAN
    /\ shake \in [Conns -> {"none", "dialled", "answered", "completed", "up", "failed"}]
    /\ open \subseteq Conns /\ excused \subseteq Conns
    /\ sessions \in [Addrs -> Conns \cup {NoSession}]
    /\ sendNonce \in [Conns -> 0..MaxStreams]
    /\ recvNonce \in [Conns -> Nat]
    /\ stream \in [Streams -> StreamStates]
    /\ held \in [Streams -> Conns \cup {NoSession}]
    /\ got \in [Conns -> Seq(Nonces)]

(* A session in the table is that of an admitted connection of its address. *)
Tabled ==
    \A c \in Conns, a \in Addrs : sessions[a] = c => Addr[c] = a /\ shake[c] = "up"

(* Streams are taken from admitted connections only, and a connection one  *)
(* of whose streams was dropped is out of the table for good.              *)
Accepted ==
    \A s \in Streams :
        /\ stream[s] \in {"queued", "handled", "failing", "done", "dropped"}
               => shake[s[1]] = "up"
        /\ stream[s] = "dropped" => sessions[Addr[s[1]]] # s[1]

GotBelow == \A c \in Conns : \A i \in DOMAIN got[c] : got[c][i] < recvNonce[c]

(* The counter of a connection that has its address for itself is where    *)
(* its peer's is.                                                          *)
InTurn ==
    \A c \in Conns : shake[c] = "up" /\ c \notin excused /\ ~Shared(c) =>
        sessions[Addr[c]] = c /\ recvNonce[c] = Len(got[c])

PermitsKept == \A d \in Conns : Cardinality(InHand(d)) <= Permits

ServerInv ==
    /\ TypeInv /\ Tabled /\ Accepted /\ GossipAuthentic
    /\ GotBelow /\ GossipInOrder /\ InTurn /\ OrderlyPeerKept /\ PermitsKept

-----------------------------------------------------------------------------
LEMMA Constants ==
    /\ IsFiniteSet(Conns) /\ NoSession \notin Conns /\ DOMAIN Addr = Conns
    /\ MaxStreams \in Nat /\ Permits \in Nat /\ Permits # 0
BY SessionAssumption, Zenon

LEMMA PeerKinds ==
    ASSUME NEW p \in Peers, NEW c \in Conns
    PROVE  p[c] \in {"good", "forged record", "foreign key"}
<1>1. Peers \subseteq [Conns -> {"good", "forged record", "foreign key"}]
    BY SessionAssumption, Zenon
<1> QED BY <1>1

LEMMA StreamFields ==
    ASSUME NEW s \in Streams
    PROVE  /\ s[1] \in Conns /\ s[2] \in Nonces /\ s[2] \in Nat
           /\ Addr[s[1]] \in Addrs
BY Constants DEF Streams, Nonces, Addrs

LEMMA StreamsFinite == IsFiniteSet(Streams)
<1>1. IsFiniteSet(Nonces)
    BY FS_Interval, Constants DEF Nonces
<1> QED BY <1>1, FS_Product, Constants DEF Streams

LEMMA InitHolds == Init => ServerInv
<1> SUFFICES ASSUME Init PROVE ServerInv
    OBVIOUS
<1>1. TypeInv
  <2>1. kept \in BOOLEAN
      BY SessionAssumption, Zenon DEF Init
  <2> QED BY <2>1, Constants DEF Init, TypeInv, StreamStates, Nonces
<1>2. Tabled /\ Accepted /\ GossipAuthentic
    BY <1>1, StreamFields, Constants DEF Init, Tabled, Accepted, GossipAuthentic, Addrs
<1>3. GotBelow /\ GossipInOrder /\ InTurn /\ OrderlyPeerKept
    BY <1>1 DEF Init, GotBelow, GossipInOrder, InTurn, OrderlyPeerKept, TypeInv
<1>4. PermitsKept
  <2>1. \A d \in Conns : InHand(d) = {}
      BY DEF Init, InHand
  <2> QED BY <2>1, FS_EmptySet, Constants DEF PermitsKept
<1> QED BY <1>1, <1>2, <1>3, <1>4 DEF ServerInv

LEMMA TypeStep == TypeInv /\ [Next]_vars => TypeInv'
<1> SUFFICES ASSUME TypeInv, [Next]_vars PROVE TypeInv'
    OBVIOUS
<1> USE Constants DEF TypeInv, StreamStates
<1>1. ASSUME NEW c \in Conns, Handshake(c) \/ Hangup(c) PROVE TypeInv'
  <2>1. Addr[c] \in Addrs
      BY DEF Addrs
  <2>2. CASE Dial(c) \/ Answer(c) \/ Complete(c) \/ Hangup(c)
      BY <2>2 DEF Dial, Answer, Complete, Hangup, streamVars, nonceVars
  <2>3. CASE Admit(c)
    <3>1. /\ peer' = peer /\ kept' = kept /\ stream' = stream /\ held' = held
          /\ sendNonce' = sendNonce /\ got' = got /\ excused' = excused
        BY <2>3 DEF Admit, streamVars
    <3>2. /\ shake' \in [Conns -> {"none", "dialled", "answered", "completed", "up", "failed"}]
          /\ open' \subseteq Conns
        BY <2>3 DEF Admit
    <3>3. /\ sessions' \in [Addrs -> Conns \cup {NoSession}]
          /\ recvNonce' \in [Conns -> Nat]
      <4>1. CASE sessions' = [sessions EXCEPT ![Addr[c]] = c]
                 /\ recvNonce' = [recvNonce EXCEPT ![c] = 0]
          BY <2>1, <4>1
      <4>2. CASE sessions' = sessions /\ recvNonce' = recvNonce
          BY <4>2
      <4> QED BY <2>3, <4>1, <4>2 DEF Admit
    <3> QED BY <3>1, <3>2, <3>3
  <2> QED BY <1>1, <2>2, <2>3 DEF Handshake
<1>2. ASSUME NEW c \in Conns, Seal(c) PROVE TypeInv'
  <2>1. sendNonce[c] \in 0..(MaxStreams - 1) /\ <<c, sendNonce[c]>> \in Streams
      BY <1>2 DEF Seal, Streams, Nonces
  <2> QED BY <1>2, <2>1 DEF Seal
<1>3. ASSUME NEW s \in Streams, OpenStream(s) \/ Accept(s) \/ TakePermit(s) \/ DropConnection(s)
      PROVE  TypeInv'
  <2>1. CASE OpenStream(s) \/ TakePermit(s)
      BY <2>1 DEF OpenStream, TakePermit, nonceVars
  <2>2. CASE Accept(s)
    <3>1. sessions[Addr[s[1]]] \in Conns \cup {NoSession}
        BY StreamFields
    <3> QED BY <2>2, <3>1 DEF Accept, nonceVars
  <2>3. CASE DropConnection(s)
      BY <2>3 DEF DropConnection, nonceVars
  <2> QED BY <1>3, <2>1, <2>2, <2>3
<1>4. ASSUME NEW s \in Streams, HandleGossip(s) PROVE TypeInv'
  <2>1. s[1] \in Conns /\ s[2] \in Nonces /\ Addr[s[1]] \in Addrs
      BY StreamFields
  <2>2. Append(got[s[1]], s[2]) \in Seq(Nonces)
      BY <2>1
  <2>3. got' \in [Conns -> Seq(Nonces)]
    <3>1. got' = got \/ got' = [got EXCEPT ![s[1]] = Append(@, s[2])]
        BY <1>4 DEF HandleGossip, Unread, Read
    <3> QED BY <2>1, <2>2, <3>1
  <2>4. recvNonce' \in [Conns -> Nat]
      BY <1>4, <2>1 DEF HandleGossip, Unread, Read, PushBytes
  <2> QED BY <1>4, <2>1, <2>3, <2>4 DEF HandleGossip, Unread, Read, PushBytes
<1>5. CASE UNCHANGED vars
    BY <1>5 DEF vars
<1> QED BY <1>1, <1>2, <1>3, <1>4, <1>5 DEF Next, Gossip

-----------------------------------------------------------------------------
(* The permits *)

LEMMA PermitStep ==
    ASSUME TypeInv, PermitsKept, [Next]_vars
    PROVE  PermitsKept'
<1>1. ASSUME \A s \in Streams : stream'[s] \in {"handled", "failing"} =>
                 stream[s] \in {"handled", "failing"} /\ held'[s] = held[s]
      PROVE  PermitsKept'
  <2> SUFFICES ASSUME NEW d \in Conns PROVE Cardinality(InHand(d)') <= Permits
      BY DEF PermitsKept
  <2>1. InHand(d)' \subseteq InHand(d) /\ IsFiniteSet(InHand(d))
      BY <1>1, StreamsFinite, FS_Subset DEF InHand
  <2>2. /\ Cardinality(InHand(d)') <= Cardinality(InHand(d))
        /\ Cardinality(InHand(d)') \in Nat /\ Cardinality(InHand(d)) \in Nat
      BY <2>1, FS_Subset, FS_CardinalityType
  <2> QED BY <2>2, Constants DEF PermitsKept
<1>2. ASSUME NEW s \in Streams, TakePermit(s) PROVE PermitsKept'
  <2> SUFFICES ASSUME NEW d \in Conns PROVE Cardinality(InHand(d)') <= Permits
      BY DEF PermitsKept
  <2>1. IsFiniteSet(InHand(d))
      BY StreamsFinite, FS_Subset DEF InHand
  <2>2. CASE held[s] = d
    <3>1. InHand(d)' = InHand(d) \cup {s} /\ s \notin InHand(d)
        BY <1>2, <2>2 DEF TakePermit, InHand, TypeInv
    <3>2. Cardinality(InHand(d)') = Cardinality(InHand(d)) + 1
        BY <2>1, <3>1, FS_AddElement
    <3>3. Cardinality(InHand(d)) < Permits /\ Cardinality(InHand(d)) \in Nat
        BY <1>2, <2>1, <2>2, FS_CardinalityType DEF TakePermit
    <3> QED BY <3>2, <3>3, Constants
  <2>3. CASE held[s] # d
    <3>1. InHand(d)' = InHand(d)
        BY <1>2, <2>3 DEF TakePermit, InHand, TypeInv
    <3> QED BY <3>1 DEF PermitsKept
  <2> QED BY <2>2, <2>3
<1>3. ASSUME NEW c \in Conns, Handshake(c) \/ Hangup(c) PROVE PermitsKept'
    BY <1>1, <1>3 DEF Handshake, Dial, Answer, Complete, Admit, Hangup, streamVars
<1>4. ASSUME NEW c \in Conns, Seal(c) PROVE PermitsKept'
    BY <1>1, <1>4 DEF Seal, TypeInv
<1>5. ASSUME NEW s \in Streams,
             OpenStream(s) \/ Accept(s) \/ HandleGossip(s) \/ DropConnection(s)
      PROVE  PermitsKept'
    BY <1>1, <1>5 DEF OpenStream, Accept, HandleGossip, Unread, Read, PushBytes, DropConnection, TypeInv
<1>6. CASE UNCHANGED vars
    BY <1>1, <1>6 DEF vars
<1> QED BY <1>2, <1>3, <1>4, <1>5, <1>6 DEF Next, Gossip

-----------------------------------------------------------------------------
(* The table, the streams and who is behind them *)

LEMMA TableStep ==
    ASSUME TypeInv, Tabled, Accepted, GossipAuthentic, [Next]_vars
    PROVE  Tabled' /\ Accepted' /\ GossipAuthentic'
<1> USE Constants, StreamFields
<1>1. ASSUME NEW c \in Conns, Dial(c) \/ Answer(c) \/ Complete(c) \/ Hangup(c)
      PROVE  Tabled' /\ Accepted' /\ GossipAuthentic'
  <2>1. /\ sessions' = sessions /\ stream' = stream /\ got' = got /\ peer' = peer
        /\ shake[c] # "up" \/ shake' = shake
        /\ \A d \in Conns \ {c} : shake'[d] = shake[d]
        /\ shake'[c] # "up" \/ shake'[c] = shake[c]
      BY <1>1 DEF Dial, Answer, Complete, Hangup, streamVars, TypeInv
  <2>2. \A d \in Conns : shake'[d] = "up" <=> shake[d] = "up"
      BY <2>1
  <2> QED BY <2>1, <2>2 DEF Tabled, Accepted, GossipAuthentic
<1>2. ASSUME NEW c \in Conns, Admit(c)
      PROVE  Tabled' /\ Accepted' /\ GossipAuthentic'
  <2>0. Addr[c] \in Addrs /\ shake[c] = "completed" /\ stream' = stream /\ got' = got /\ peer' = peer
      BY <1>2 DEF Admit, streamVars, Addrs
  <2>1. got[c] = <<>>
      BY <2>0 DEF GossipAuthentic
  <2>2. \A s \in Streams : s[1] = c =>
            stream[s] \notin {"queued", "handled", "failing", "done", "dropped"}
      BY <2>0 DEF Accepted
  <2>3. CASE Admits(c)
    <3>1. /\ shake' = [shake EXCEPT ![c] = "up"]
          /\ sessions' = [sessions EXCEPT ![Addr[c]] = c]
        BY <1>2, <2>3 DEF Admit
    <3>2. peer[c] = "good"
      <4>1. peer[c] \in {"good", "forged record", "foreign key"}
          BY PeerKinds DEF TypeInv
      <4> QED BY <2>3, <4>1 DEF Admits, Verifies, Binds
    <3>3. Tabled'
        BY <2>0, <3>1 DEF Tabled, TypeInv
    <3>4. Accepted'
        BY <2>0, <2>2, <3>1 DEF Accepted, TypeInv
    <3>5. GossipAuthentic'
        BY <2>0, <3>1, <3>2 DEF GossipAuthentic, TypeInv
    <3> QED BY <3>3, <3>4, <3>5
  <2>4. CASE ~Admits(c)
    <3>1. shake' = [shake EXCEPT ![c] = "failed"] /\ sessions' = sessions
        BY <1>2, <2>4 DEF Admit
    <3>2. \A d \in Conns : shake'[d] = "up" <=> shake[d] = "up"
        BY <2>0, <3>1 DEF TypeInv
    <3> QED BY <2>0, <3>1, <3>2 DEF Tabled, Accepted, GossipAuthentic
  <2> QED BY <2>3, <2>4
<1>3. ASSUME NEW c \in Conns, Seal(c)
      PROVE  Tabled' /\ Accepted' /\ GossipAuthentic'
    BY <1>3 DEF Seal, Tabled, Accepted, GossipAuthentic, TypeInv
<1>4. ASSUME NEW s \in Streams, OpenStream(s) \/ TakePermit(s)
      PROVE  Tabled' /\ Accepted' /\ GossipAuthentic'
    BY <1>4 DEF OpenStream, TakePermit, Tabled, Accepted, GossipAuthentic, TypeInv
<1>5. ASSUME NEW s \in Streams, Accept(s)
      PROVE  Tabled' /\ Accepted' /\ GossipAuthentic'
    BY <1>5 DEF Accept, Tabled, Accepted, GossipAuthentic, TypeInv
<1>6. ASSUME NEW s \in Streams, HandleGossip(s)
      PROVE  Tabled' /\ Accepted' /\ GossipAuthentic'
  <2>1. /\ sessions' = sessions /\ shake' = shake /\ peer' = peer
        /\ stream[s] = "handled"
        /\ stream' = [stream EXCEPT ![s] = "done"] \/ stream' = [stream EXCEPT ![s] = "failing"]
        /\ \A d \in Conns \ {s[1]} : got'[d] = got[d]
      BY <1>6 DEF HandleGossip, Unread, Read, PushBytes, TypeInv
  <2>2. shake[s[1]] = "up"
      BY <2>1 DEF Accepted
  <2> QED BY <2>1, <2>2 DEF Tabled, Accepted, GossipAuthentic, TypeInv
<1>7. ASSUME NEW s \in Streams, DropConnection(s)
      PROVE  Tabled' /\ Accepted' /\ GossipAuthentic'
  <2>1. /\ sessions' = [sessions EXCEPT ![Addr[s[1]]] = NoSession]
        /\ shake' = shake /\ peer' = peer /\ got' = got
        /\ stream[s] = "failing" /\ stream' = [stream EXCEPT ![s] = "dropped"]
      BY <1>7 DEF DropConnection
  <2> QED BY <2>1 DEF Tabled, Accepted, GossipAuthentic, TypeInv
<1>8. CASE UNCHANGED vars
    BY <1>8 DEF vars, Tabled, Accepted, GossipAuthentic
<1> QED BY <1>1, <1>2, <1>3, <1>4, <1>5, <1>6, <1>7, <1>8 DEF Next, Gossip, Handshake

-----------------------------------------------------------------------------
(* The counters *)

(* A step that leaves the counters and the messages alone, or resets the   *)
(* counter of a connection that has decrypted nothing.                     *)
LEMMA OrderStep ==
    ASSUME TypeInv, Accepted, GossipAuthentic, GotBelow, GossipInOrder, [Next]_vars
    PROVE  GotBelow' /\ GossipInOrder'
<1>1. ASSUME got' = got,
             \A c \in Conns : recvNonce'[c] = recvNonce[c] \/ got[c] = <<>>
      PROVE  GotBelow' /\ GossipInOrder'
    BY <1>1 DEF GotBelow, GossipInOrder
<1>2. ASSUME NEW c \in Conns, Handshake(c) \/ Hangup(c) PROVE GotBelow' /\ GossipInOrder'
  <2>1. got' = got /\ \A d \in Conns \ {c} : recvNonce'[d] = recvNonce[d]
      BY <1>2 DEF Handshake, Dial, Answer, Complete, Admit, Hangup, nonceVars, TypeInv
  <2>2. recvNonce' = recvNonce \/ shake[c] = "completed"
      BY <1>2 DEF Handshake, Dial, Answer, Complete, Admit, Hangup, nonceVars
  <2>3. recvNonce' = recvNonce \/ got[c] = <<>>
      BY <2>2 DEF GossipAuthentic
  <2> QED BY <1>1, <2>1, <2>3
<1>3. ASSUME NEW c \in Conns, Seal(c) PROVE GotBelow' /\ GossipInOrder'
    BY <1>1, <1>3 DEF Seal
<1>4. ASSUME NEW s \in Streams, OpenStream(s) \/ Accept(s) \/ TakePermit(s) \/ DropConnection(s)
      PROVE  GotBelow' /\ GossipInOrder'
    BY <1>1, <1>4 DEF OpenStream, Accept, TakePermit, DropConnection, nonceVars
<1>5. ASSUME NEW s \in Streams, HandleGossip(s) PROVE GotBelow' /\ GossipInOrder'
  <2> DEFINE c == s[1]
             d == sessions[Addr[c]]
  <2>0. c \in Conns /\ s[2] \in Nat /\ s[2] \in Nonces /\ (d # NoSession => d \in Conns)
      BY StreamFields DEF TypeInv
  <2>1. \A e \in Conns : recvNonce'[e] \in Nat /\ recvNonce[e] \in Nat /\ recvNonce'[e] >= recvNonce[e]
    <3>1. CASE recvNonce' = recvNonce
        BY <3>1 DEF TypeInv
    <3>2. CASE d # NoSession /\ recvNonce' = [recvNonce EXCEPT ![d] = @ + 1]
        BY <2>0, <3>2 DEF TypeInv
    <3> QED BY <1>5, <3>1, <3>2 DEF HandleGossip, Unread, Read
  <2>2. \A e \in Conns : got[e] \in Seq(Nonces) /\ \A i \in DOMAIN got[e] : got[e][i] \in Nat
    <3>1. Nonces \subseteq Nat
        BY Constants DEF Nonces
    <3>2. \A e \in Conns : got[e] \in Seq(Nonces)
        BY DEF TypeInv
    <3>3. ASSUME NEW q \in Seq(Nonces), NEW i \in DOMAIN q PROVE q[i] \in Nonces
        OBVIOUS
    <3> QED BY <3>1, <3>2, <3>3
  <2>3. CASE got' = got
      BY <2>1, <2>2, <2>3 DEF GotBelow, GossipInOrder
  <2>4. CASE got' # got
    <3>1. /\ got' = [got EXCEPT ![c] = Append(@, s[2])]
          /\ d = c /\ recvNonce[c] = s[2] /\ recvNonce' = [recvNonce EXCEPT ![c] = @ + 1]
        BY <1>5, <2>4 DEF HandleGossip, Unread, Read, PushBytes, Opens
    <3> DEFINE g == Append(got[c], s[2])
               n == Len(got[c])
    <3>2. /\ got'[c] = g /\ recvNonce'[c] = s[2] + 1
          /\ \A e \in Conns \ {c} : got'[e] = got[e] /\ recvNonce'[e] = recvNonce[e]
        BY <2>0, <3>1 DEF TypeInv
    <3>3. /\ DOMAIN g = 1..(n + 1) /\ n \in Nat /\ DOMAIN got[c] = 1..n /\ g[n + 1] = s[2]
          /\ \A i \in 1..n : g[i] = got[c][i] /\ got[c][i] \in Nat /\ got[c][i] < s[2]
        BY <2>0, <2>2, <3>1 DEF GotBelow
    <3> HIDE DEF g, n, c
    <3>4. \A i \in DOMAIN g : g[i] < s[2] + 1
        BY <2>0, <3>3
    <3>5. \A i, j \in DOMAIN g : i < j => g[i] < g[j]
      <4> SUFFICES ASSUME NEW i \in DOMAIN g, NEW j \in DOMAIN g, i < j PROVE g[i] < g[j]
          OBVIOUS
      <4>1. i \in 1..n /\ g[i] = got[c][i] /\ g[i] < s[2]
          BY <3>3
      <4>2. CASE j = n + 1
          BY <3>3, <4>1, <4>2
      <4>3. CASE j # n + 1
        <5>1. j \in 1..n /\ g[j] = got[c][j]
            BY <3>3, <4>3
        <5> QED BY <2>0, <3>3, <4>1, <5>1 DEF GossipInOrder
      <4> QED BY <4>2, <4>3
    <3>6. GotBelow'
        BY <3>2, <3>4 DEF GotBelow
    <3>7. GossipInOrder'
        BY <3>2, <3>5 DEF GossipInOrder
    <3> QED BY <3>6, <3>7
  <2> QED BY <2>3, <2>4
<1>6. CASE UNCHANGED vars
    BY <1>1, <1>6 DEF vars
<1> QED BY <1>2, <1>3, <1>4, <1>5, <1>6 DEF Next, Gossip

(* Whoever shares an address goes on sharing it. *)
LEMMA SharedStays ==
    ASSUME TypeInv, [Next]_vars
    PROVE  /\ \A c \in Conns : shake[c] = "up" => shake'[c] = "up"
           /\ \A c \in Conns : Shared(c) => Shared(c)'
           /\ excused \subseteq excused'
<1>1. \A c \in Conns : shake[c] = "up" => shake'[c] = "up"
    BY DEF TypeInv, Next, Gossip, Handshake, Dial, Answer, Complete, Admit, Hangup, Seal,
           OpenStream, Accept, TakePermit, HandleGossip, Unread, Read, PushBytes, DropConnection, vars
<1>2. excused \subseteq excused'
    BY DEF Next, Gossip, Handshake, Dial, Answer, Complete, Admit, Hangup, Seal,
           OpenStream, Accept, TakePermit, HandleGossip, Unread, Read, PushBytes, DropConnection, vars
<1> QED BY <1>1, <1>2 DEF Shared

LEMMA TurnStep ==
    ASSUME TypeInv, Tabled, Accepted, GossipAuthentic, InTurn, OrderlyPeerKept, [Next]_vars
    PROVE  InTurn' /\ OrderlyPeerKept'
<1> USE StreamFields
<1>0. /\ \A c \in Conns : shake[c] = "up" => shake'[c] = "up"
      /\ \A c \in Conns : Shared(c) => Shared(c)'
      /\ excused \subseteq excused'
    BY SharedStays
<1>a. OrderlyPeerKept <=> \A s \in Streams : stream[s] = "failing" => s[1] \in excused \/ Shared(s[1])
    BY DEF OrderlyPeerKept, Shared
<1>b. OrderlyPeerKept' <=>
          \A s \in Streams : stream'[s] = "failing" => s[1] \in excused' \/ Shared(s[1])'
    BY DEF OrderlyPeerKept, Shared
<1>1. ASSUME sessions' = sessions, recvNonce' = recvNonce, got' = got,
             \A c \in Conns : shake'[c] = "up" => shake[c] = "up",
             \A s \in Streams : stream'[s] = "failing" => stream[s] = "failing"
      PROVE  InTurn' /\ OrderlyPeerKept'
  <2>1. InTurn'
      BY <1>0, <1>1 DEF InTurn
  <2>2. OrderlyPeerKept'
      BY <1>0, <1>1, <1>a, <1>b
  <2> QED BY <2>1, <2>2
<1>2. ASSUME NEW c \in Conns, Dial(c) \/ Answer(c) \/ Complete(c) \/ Hangup(c)
      PROVE  InTurn' /\ OrderlyPeerKept'
    BY <1>1, <1>2 DEF Dial, Answer, Complete, Hangup, streamVars, nonceVars, TypeInv
<1>3. ASSUME NEW c \in Conns, Admit(c) PROVE InTurn' /\ OrderlyPeerKept'
  <2>0. /\ Addr[c] \in Addrs /\ shake[c] = "completed" /\ stream' = stream /\ got' = got
        /\ excused' = excused /\ got[c] = <<>>
      BY <1>3 DEF Admit, streamVars, Addrs, GossipAuthentic
  <2>1. OrderlyPeerKept'
      BY <1>0, <1>a, <1>b, <2>0
  <2>2. CASE ~Admits(c)
      BY <1>1, <1>3, <2>2 DEF Admit, streamVars, TypeInv
  <2>3. CASE Admits(c)
    <3>1. /\ shake' = [shake EXCEPT ![c] = "up"]
          /\ sessions' = [sessions EXCEPT ![Addr[c]] = c]
          /\ recvNonce' = [recvNonce EXCEPT ![c] = 0]
        BY <1>3, <2>3 DEF Admit
    <3>2. ASSUME NEW d \in Conns, shake'[d] = "up", d \notin excused', ~Shared(d)'
          PROVE  sessions'[Addr[d]] = d /\ recvNonce'[d] = Len(got'[d])
      <4>1. CASE d = c
          BY <2>0, <3>1, <4>1 DEF TypeInv
      <4>2. CASE d # c
        <5>1. Addr[d] # Addr[c]
            BY <3>1, <3>2, <4>2 DEF Shared, TypeInv
        <5>2. shake[d] = "up" /\ d \notin excused /\ ~Shared(d) /\ Addr[d] \in Addrs
            BY <1>0, <3>1, <3>2, <4>2, <2>0 DEF TypeInv, Addrs
        <5>3. sessions[Addr[d]] = d /\ recvNonce[d] = Len(got[d])
            BY <5>2 DEF InTurn
        <5> QED BY <2>0, <3>1, <4>2, <5>1, <5>2, <5>3 DEF TypeInv
      <4> QED BY <4>1, <4>2
    <3> QED BY <2>1, <3>2 DEF InTurn
  <2> QED BY <2>2, <2>3
<1>4. ASSUME NEW c \in Conns, Seal(c) PROVE InTurn' /\ OrderlyPeerKept'
    BY <1>1, <1>4 DEF Seal, TypeInv
<1>5. ASSUME NEW s \in Streams, OpenStream(s) \/ Accept(s) \/ TakePermit(s)
      PROVE  InTurn' /\ OrderlyPeerKept'
    BY <1>1, <1>5 DEF OpenStream, Accept, TakePermit, nonceVars, TypeInv
<1>u. ASSUME NEW s \in Streams, HandleGossip(s), Unread(s) PROVE InTurn' /\ OrderlyPeerKept'
  <2>0. /\ stream' = [stream EXCEPT ![s] = "failing"] /\ excused' = excused \cup {s[1]}
        /\ recvNonce' = recvNonce /\ got' = got /\ sessions' = sessions /\ shake' = shake
      BY <1>u DEF HandleGossip, Unread
  <2>1. InTurn'
      BY <1>0, <2>0 DEF InTurn
  <2>2. OrderlyPeerKept'
      BY <1>0, <1>a, <1>b, <2>0 DEF TypeInv
  <2> QED BY <2>1, <2>2
<1>6. ASSUME NEW s \in Streams, HandleGossip(s), Read(s) PROVE InTurn' /\ OrderlyPeerKept'
  <2> DEFINE c == s[1]
             d == sessions[Addr[c]]
             opened == kept /\ d # NoSession /\ Opens(d, s)
  <2>0. /\ c \in Conns /\ Addr[c] \in Addrs /\ stream[s] = "handled" /\ shake[c] = "up"
        /\ sessions' = sessions /\ shake' = shake /\ (d # NoSession => d \in Conns)
      BY <1>6 DEF HandleGossip, Accepted, TypeInv
  <2>1. \A e \in Conns : Shared(e)' <=> Shared(e)
      BY <2>0 DEF Shared
  <2>2. \A e \in Conns : d = e /\ e # c => Shared(e)
      BY <2>0 DEF Tabled, Shared
  <2>3. c \notin excused /\ ~Shared(c) => d = c /\ recvNonce[c] = Len(got[c])
      BY <2>0 DEF InTurn
  <2>4. ~opened /\ c \notin excused' => kept /\ Len(got[c]) = s[2] /\ c \notin excused
      BY <1>6, <2>0 DEF Read, PushBytes
  <2>5. ~opened => c \in excused' \/ Shared(c)
      BY <2>0, <2>3, <2>4, Constants DEF Opens
  <2>6. /\ opened => /\ got' = [got EXCEPT ![c] = Append(@, s[2])]
                     /\ d = c /\ recvNonce' = [recvNonce EXCEPT ![c] = @ + 1]
                     /\ stream'[s] = "failing" => c \in excused'
        /\ ~opened => got' = got
        /\ \A e \in Conns : e # d => recvNonce'[e] = recvNonce[e]
        /\ \A r \in Streams : r # s => stream'[r] = stream[r]
      BY <1>6, <2>0 DEF Read, PushBytes, Opens, TypeInv
  <2>7. OrderlyPeerKept'
      BY <1>0, <1>a, <1>b, <2>1, <2>5, <2>6
  <2>8. ASSUME NEW e \in Conns, shake'[e] = "up", e \notin excused', ~Shared(e)'
        PROVE  sessions'[Addr[e]] = e /\ recvNonce'[e] = Len(got'[e])
    <3>1. /\ shake[e] = "up" /\ e \notin excused /\ ~Shared(e)
          /\ sessions[Addr[e]] = e /\ recvNonce[e] = Len(got[e])
        BY <1>0, <2>0, <2>1, <2>8 DEF InTurn
    <3>2. CASE e = c
      <4>1. opened
          BY <2>1, <2>5, <2>8, <3>2
      <4>2. got'[c] = Append(got[c], s[2]) /\ recvNonce'[c] = recvNonce[c] + 1
          BY <2>0, <2>6, <4>1 DEF TypeInv
      <4>3. Len(Append(got[c], s[2])) = Len(got[c]) + 1
          BY <2>0 DEF TypeInv
      <4> QED BY <2>0, <3>1, <3>2, <4>2, <4>3
    <3>3. CASE e # c
      <4>1. d # e
          BY <2>2, <3>1, <3>3
      <4>2. got'[e] = got[e]
          BY <2>0, <2>6, <3>3 DEF TypeInv
      <4> QED BY <2>0, <2>6, <3>1, <4>1, <4>2
    <3> QED BY <3>2, <3>3
  <2> QED BY <2>7, <2>8 DEF InTurn
<1>7. ASSUME NEW s \in Streams, DropConnection(s) PROVE InTurn' /\ OrderlyPeerKept'
  <2> DEFINE c == s[1]
  <2>0. /\ c \in Conns /\ Addr[c] \in Addrs /\ stream[s] = "failing" /\ shake[c] = "up"
        /\ sessions' = [sessions EXCEPT ![Addr[c]] = NoSession]
        /\ stream' = [stream EXCEPT ![s] = "dropped"]
        /\ shake' = shake /\ excused' = excused /\ got' = got /\ recvNonce' = recvNonce
      BY <1>7 DEF DropConnection, Accepted, nonceVars
  <2>1. c \in excused \/ Shared(c)
      BY <1>a, <2>0
  <2>2. \A e \in Conns : Shared(e)' <=> Shared(e)
      BY <2>0 DEF Shared
  <2>3. OrderlyPeerKept'
      BY <1>0, <1>a, <1>b, <2>0 DEF TypeInv
  <2>4. ASSUME NEW e \in Conns, shake'[e] = "up", e \notin excused', ~Shared(e)'
        PROVE  sessions'[Addr[e]] = e /\ recvNonce'[e] = Len(got'[e])
    <3>1. e # c
        BY <2>0, <2>1, <2>2, <2>4
    <3>2. Addr[e] # Addr[c]
        BY <2>0, <2>2, <2>4, <3>1 DEF Shared
    <3>3. sessions[Addr[e]] = e /\ recvNonce[e] = Len(got[e]) /\ Addr[e] \in Addrs
        BY <2>0, <2>2, <2>4 DEF InTurn, Addrs
    <3> QED BY <2>0, <3>2, <3>3 DEF TypeInv
  <2> QED BY <2>3, <2>4 DEF InTurn
<1>8. CASE UNCHANGED vars
    BY <1>1, <1>8 DEF vars
<1>9. ASSUME NEW s \in Streams, HandleGossip(s) PROVE InTurn' /\ OrderlyPeerKept'
    BY <1>6, <1>9, <1>u DEF HandleGossip
<1> QED BY <1>2, <1>3, <1>4, <1>5, <1>7, <1>8, <1>9 DEF Next, Gossip, Handshake

-----------------------------------------------------------------------------
LEMMA ServerStep == ServerInv /\ [Next]_vars => ServerInv'
BY TypeStep, PermitStep, TableStep, OrderStep, TurnStep DEF ServerInv

LEMMA ServerInvariant == Spec => []ServerInv
BY InitHolds, ServerStep, PTL DEF Spec

(* Every message that handle_gossip_stream decrypts is from a peer whose   *)
(* record and key the handshake checked, and in the order it was sealed;   *)
(* the table holds admitted sessions under their own address, and no more  *)
(* streams of a session are handled at a time than it has permits.         *)
THEOREM SessionsSound == Spec => []SessionInv
<1>1. ServerInv => SessionInv
  <2> SUFFICES ASSUME ServerInv PROVE SessionInv
      OBVIOUS
  <2>1. \A a \in Addrs : sessions[a] # NoSession => Addr[sessions[a]] = a
      BY DEF ServerInv, TypeInv, Tabled
  <2> QED BY <2>1 DEF ServerInv, SessionInv, SessionTypeOK, TypeInv, PermitsKept
<1> QED BY <1>1, ServerInvariant, PTL

(* The error branch of a stream's task is reached only for a reason: a     *)
(* frame cut short or of an illegal size, an unreadable head, a stream     *)
(* handled out of turn, a malformed or refused message, or another         *)
(* connection of the same address.                                         *)
THEOREM OrderlyKept == Spec => []OrderlyPeerKept
<1>1. ServerInv => OrderlyPeerKept
    BY DEF ServerInv
<1> QED BY <1>1, ServerInvariant, PTL

(* After the error branch has run for a stream, nothing else of that       *)
(* connection is decrypted, whatever tasks were waiting.                   *)
THEOREM SilenceAfterError == Spec => SilentAfterError
<1>1. ServerInv /\ [Next]_vars
         => [\A s, r \in Streams : stream[s] = "dropped" /\ r[1] = s[1] =>
                got'[r[1]] = got[r[1]]]_vars
  <2> SUFFICES ASSUME ServerInv, Next, NEW s \in Streams, NEW r \in Streams,
                      stream[s] = "dropped", r[1] = s[1]
               PROVE  got'[r[1]] = got[r[1]]
      BY DEF ServerInv
  <2>1. sessions[Addr[r[1]]] # r[1] /\ r[1] \in Conns
      BY StreamFields DEF ServerInv, Accepted
  <2>2. ASSUME NEW t \in Streams, HandleGossip(t) PROVE got'[r[1]] = got[r[1]]
    <3>1. got' = got \/ (got' = [got EXCEPT ![t[1]] = Append(@, t[2])] /\ sessions[Addr[t[1]]] = t[1])
        BY <2>2 DEF HandleGossip, Unread, Read, PushBytes, Opens
    <3> QED BY <2>1, <3>1, StreamFields DEF ServerInv, TypeInv
  <2>3. (\E t \in Streams : HandleGossip(t)) \/ got' = got
      BY DEF Next, Gossip, Handshake, Dial, Answer, Complete, Admit, Hangup, Seal,
             OpenStream, Accept, TakePermit, DropConnection
  <2> QED BY <2>2, <2>3
<1> QED BY <1>1, ServerInvariant, PTL DEF Spec, SilentAfterError

=============================================================================
