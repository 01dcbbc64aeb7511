--------------------------- MODULE IngressProofs ---------------------------
(***************************************************************************)
(* Proofs about module Ingress, for every set of messages, stream ids and  *)
(* tasks: whatever chunks arrive, in whatever order and however often, and *)
(* also when messages share a stream id.                                   *)
(***************************************************************************)
EXTENDS Ingress, FiniteSetTheorems, SequenceTheorems, WellFoundedInduction, TLAPS

-----------------------------------------------------------------------------
(* Concatenating blocks *)

(* Induction over the natural numbers, for a set of them. *)
LEMMA NaturalInduction ==
    ASSUME NEW G \in SUBSET Nat, 0 \in G, \A n \in G : n + 1 \in G
    PROVE  G = Nat
<1> SUFFICES ASSUME Nat \ G # {} PROVE FALSE
    OBVIOUS
<1> DEFINE R == {p \in Nat \X Nat : p[1] < p[2]}
<1>1. IsWellFoundedOn(R, Nat)
    BY NatLessThanWellFounded DEF OpToRel
<1> HIDE DEF R
<1>2. PICK n \in Nat \ G : \A m \in Nat \ G : ~(<<m, n>> \in R)
    BY <1>1, WFMin
<1>3. n # 0 /\ n - 1 \in Nat
    BY <1>2
<1>4. <<n - 1, n>> \in R
    BY <1>3 DEF R
<1>5. n - 1 \in G
    BY <1>2, <1>3, <1>4
<1> QED BY <1>2, <1>3, <1>5

(* f lists what FlattenSeq has put together after each element. *)
Flattening(seqs, f, n) ==
    f = [i \in 1..n |-> IF i = 1 THEN seqs[i] ELSE f[i - 1] \o seqs[i]]

LEMMA FlatteningExists ==
    ASSUME NEW seqs, NEW N \in Nat
    PROVE  \E f : Flattening(seqs, f, N)
<1> DEFINE G == {n \in Nat : \E f : Flattening(seqs, f, n)}
<1>1. 0 \in G
  <2> DEFINE f == [i \in 1..0 |-> seqs[i]]
  <2>1. f = [i \in 1..0 |-> IF i = 1 THEN seqs[i] ELSE f[i - 1] \o seqs[i]]
      OBVIOUS
  <2>2. Flattening(seqs, f, 0)
      BY <2>1 DEF Flattening
  <2> QED BY <2>2
<1>2. ASSUME NEW n \in G PROVE n + 1 \in G
  <2>1. n \in Nat
      OBVIOUS
  <2>2. PICK f : Flattening(seqs, f, n)
      OBVIOUS
  <2> DEFINE last == IF n + 1 = 1 THEN seqs[n + 1] ELSE f[n] \o seqs[n + 1]
             g == [i \in 1..(n + 1) |-> IF i = n + 1 THEN last ELSE f[i]]
  <2>3. ASSUME NEW i \in 1..(n + 1)
        PROVE  g[i] = IF i = 1 THEN seqs[i] ELSE g[i - 1] \o seqs[i]
    <3>1. CASE i = n + 1
      <4>1. g[i] = last
          BY <3>1
      <4>2. i # 1 => g[i - 1] = f[n]
          BY <2>1, <3>1
      <4> QED BY <2>1, <3>1, <4>1, <4>2
    <3>2. CASE i # n + 1
      <4>1. i \in 1..n
          BY <2>1, <3>2
      <4>2. f[i] = IF i = 1 THEN seqs[i] ELSE f[i - 1] \o seqs[i]
          BY <2>2, <4>1 DEF Flattening
      <4>3. g[i] = f[i] /\ (i # 1 => g[i - 1] = f[i - 1])
          BY <2>1, <4>1
      <4> QED BY <4>2, <4>3
    <3> QED BY <3>1, <3>2
  <2>4. g = [i \in 1..(n + 1) |-> IF i = 1 THEN seqs[i] ELSE g[i - 1] \o seqs[i]]
    <3> DEFINE h == [i \in 1..(n + 1) |-> IF i = 1 THEN seqs[i] ELSE g[i - 1] \o seqs[i]]
    <3>1. \A i \in 1..(n + 1) : g[i] = h[i]
        BY <2>3
    <3> QED BY <3>1
  <2> HIDE DEF g
  <2>5. Flattening(seqs, g, n + 1)
      BY <2>4 DEF Flattening
  <2> QED BY <2>1, <2>5
<1> HIDE DEF G
<1>3. G \in SUBSET Nat
    BY DEF G
<1>4. G = Nat
    BY <1>1, <1>2, <1>3, NaturalInduction
<1> QED BY <1>4 DEF G

LEMMA ConcatNext ==
    ASSUME NEW S, NEW a \in Seq(S), NEW b \in Seq(S), NEW i \in 1..(Len(a) + Len(b)), Len(a) < i
    PROVE  (a \o b)[i] = b[i - Len(a)]
BY SMT

(* Elements of at most one block: the whole has as many blocks as there    *)
(* are elements only if each has one, and then they are the blocks.        *)
Joins(w, seqs, B, N) ==
    /\ w \in Seq(B)
    /\ Len(w) = N <=> \A i \in 1..N : Len(seqs[i]) = 1
    /\ Len(w) = N => \A i \in 1..N : seqs[i] = <<w[i]>>

LEMMA FlattenBlocks ==
    ASSUME NEW B, NEW N \in Nat \ {0}, NEW seqs \in [1..N -> Seq(B)],
           \A i \in 1..N : Len(seqs[i]) <= 1
    PROVE  Joins(FlattenSeq(seqs), seqs, B, N)
<1> DEFINE f == CHOOSE h : Flattening(seqs, h, N)
<1>1. seqs \in Seq(Seq(B)) /\ Len(seqs) = N
    BY IsASeq
<1>2. FlattenSeq(seqs) = f[N]
    BY <1>1 DEF FlattenSeq, Flattening
<1>3. Flattening(seqs, f, N)
    BY FlatteningExists
<1> HIDE DEF f
<1>4. \A i \in 1..N : f[i] = IF i = 1 THEN seqs[i] ELSE f[i - 1] \o seqs[i]
    BY <1>3 DEF Flattening
<1> DEFINE Good(n) == /\ f[n] \in Seq(B) /\ Len(f[n]) <= n
                      /\ Len(f[n]) = n <=> \A i \in 1..n : Len(seqs[i]) = 1
                      /\ Len(f[n]) = n => \A i \in 1..n : seqs[i] = <<f[n][i]>>
           G == {n \in Nat : n + 1 <= N => Good(n + 1)}
<1>5. 0 \in G
  <2>1. f[1] = seqs[1] /\ seqs[1] \in Seq(B) /\ Len(seqs[1]) <= 1
      BY <1>4
  <2>2. Len(seqs[1]) = 1 => seqs[1] = <<seqs[1][1]>>
      BY <2>1
  <2>3. \A i \in 1..1 : i = 1
      OBVIOUS
  <2>4. Good(1)
      BY <2>1, <2>2, <2>3
  <2> QED BY <2>4
<1>6. ASSUME NEW n \in G PROVE n + 1 \in G
  <2> DEFINE k == n + 1
  <2>1. k \in Nat \ {0} /\ n + 1 + 1 = k + 1
      OBVIOUS
  <2> SUFFICES ASSUME k + 1 <= N PROVE Good(k + 1)
      BY <2>1
  <2>2. Good(k)
    <3>1. k <= N
        BY <2>1
    <3> HIDE DEF Good
    <3> QED BY <3>1
  <2> HIDE DEF k
  <2>3. f[k + 1] = f[k] \o seqs[k + 1]
    <3>1. k + 1 \in 1..N /\ k + 1 # 1 /\ (k + 1) - 1 = k
        BY <2>1
    <3> QED BY <1>4, <3>1
  <2>4. seqs[k + 1] \in Seq(B) /\ Len(seqs[k + 1]) <= 1 /\ Len(seqs[k + 1]) \in Nat
      BY <2>1
  <2>5. f[k + 1] \in Seq(B) /\ Len(f[k + 1]) = Len(f[k]) + Len(seqs[k + 1])
      BY <2>2, <2>3, <2>4
  <2>6. Len(f[k]) \in Nat /\ Len(f[k]) <= k
      BY <2>2
  <2>7. /\ Len(f[k + 1]) = k + 1 <=> Len(f[k]) = k /\ Len(seqs[k + 1]) = 1
        /\ Len(f[k + 1]) <= k + 1
    <3> DEFINE a == Len(f[k])
               b == Len(seqs[k + 1])
               c == Len(f[k + 1])
    <3>1. a \in Nat /\ b \in Nat /\ c = a + b /\ a <= k /\ b <= 1 /\ k \in Nat
        BY <2>1, <2>4, <2>5, <2>6
    <3> HIDE DEF a, b, c
    <3>2. (c = k + 1 <=> a = k /\ b = 1) /\ c <= k + 1
        BY <3>1
    <3> QED BY <3>2 DEF a, b, c
  <2>8. (\A i \in 1..(k + 1) : Len(seqs[i]) = 1)
            <=> (\A i \in 1..k : Len(seqs[i]) = 1) /\ Len(seqs[k + 1]) = 1
    <3>1. 1..(k + 1) = 1..k \cup {k + 1}
        BY <2>1
    <3> QED BY ONLY <3>1, Zenon
  <2>9. ASSUME Len(f[k + 1]) = k + 1, NEW i \in 1..(k + 1)
        PROVE  seqs[i] = <<f[k + 1][i]>>
    <3>1. CASE i = k + 1
      <4>1. f[k + 1][k + 1] = seqs[k + 1][1]
        <5> DEFINE a == f[k]
                   b == seqs[k + 1]
        <5>1. a \in Seq(B) /\ Len(a) = k /\ b \in Seq(B) /\ Len(b) = 1
            BY <2>2, <2>4, <2>7, <2>9
        <5> HIDE DEF a, b
        <5>2. k + 1 \in 1..(Len(a) + Len(b)) /\ Len(a) < k + 1 /\ (k + 1) - Len(a) = 1
            BY <2>1, <5>1
        <5>3. (a \o b)[k + 1] = b[(k + 1) - Len(a)]
            BY ONLY <5>1, <5>2, ConcatNext
        <5>4. (a \o b)[k + 1] = b[1]
            BY ONLY <5>2, <5>3, Zenon
        <5> QED BY <2>3, <5>4 DEF a, b
      <4>2. seqs[k + 1] = <<seqs[k + 1][1]>>
          BY <2>4, <2>7, <2>9
      <4> QED BY <3>1, <4>1, <4>2
    <3>2. CASE i # k + 1
      <4>1. i \in 1..k
          BY <2>1, <3>2
      <4>2. f[k + 1][i] = f[k][i]
        <5> DEFINE a == f[k]
                   b == seqs[k + 1]
        <5>1. a \in Seq(B) /\ Len(a) = k /\ b \in Seq(B) /\ Len(b) = 1
            BY <2>2, <2>4, <2>7, <2>9
        <5> HIDE DEF a, b
        <5>2. (a \o b)[i] = a[i]
            BY <2>1, <4>1, <5>1
        <5> QED BY <2>3, <5>2 DEF a, b
      <4> QED BY <2>2, <2>7, <2>9, <4>1, <4>2
    <3> QED BY <3>1, <3>2
  <2>10. Len(f[k + 1]) = k + 1 <=> \A i \in 1..(k + 1) : Len(seqs[i]) = 1
      BY <2>2, <2>7, <2>8
  <2> QED BY <2>5, <2>7, <2>9, <2>10
<1>7. Good(N)
  <2> HIDE DEF Good
  <2>1. G \in SUBSET Nat
      OBVIOUS
  <2> HIDE DEF G
  <2>2. G = Nat
      BY <1>5, <1>6, <2>1, NaturalInduction
  <2>3. N - 1 \in G /\ N - 1 + 1 = N
      BY <2>2
  <2> QED BY <2>3 DEF G
<1>8. Joins(f[N], seqs, B, N)
    BY <1>7 DEF Joins
<1> QED BY <1>2, <1>8

-----------------------------------------------------------------------------
(* The invariant *)

(* A task is idle or works on a frame that was sent; what it submits to    *)
(* the mempool parses as a reaction.                                       *)
TaskOK(r) ==
    \/ r = Idle
    \/ /\ r = [at |-> r.at, frame |-> r.frame, echo |-> r.echo, message |-> r.message]
       /\ r.at \in {"feed", "crystal", "nested", "architect", "balance", "push", "broadcast"}
       /\ r.frame \in Frames
       /\ r.at = "feed" => r.frame.chunk
       /\ r.at \in {"architect", "balance", "push", "broadcast"} => r.message \in Reactions

TasksOK ==
    /\ task = [t \in Slots |-> task[t]]
    /\ \A t \in Slots : TaskOK(task[t])

SharedOK ==
    /\ arrived \in [Frames -> 0..MaxCopies]
    /\ locks \in [{"chunks", "engine", "pool"} -> Slots \cup {Miner, Nobody}]
    /\ IsFiniteSet(pool) /\ pool \subseteq Reactions /\ Cardinality(pool) <= Capacity
    /\ spread \subseteq Reactions /\ cut \subseteq Reactions
    /\ echoes \subseteq seen /\ seen \subseteq Frames

(* A partial stream has the length and the hash of a message that was sent *)
(* in it, and one block at each index that was received, of whichever      *)
(* message.                                                                *)
StreamOK(x, s) ==
    /\ s = [total |-> s.total, hash |-> s.hash, received |-> s.received, old |-> s.old]
    /\ s.old \in BOOLEAN
    /\ \E c \in Chunked : c.sid = x /\ c.message = s.hash /\ FramesOf(c) # {}
    /\ s.total = Len(s.hash)
    /\ IsFiniteSet(DOMAIN s.received)
    /\ \A i \in DOMAIN s.received : i \in Nat /\ \E b \in Blocks : s.received[i] = <<b>>

StreamsOK ==
    /\ streams = [x \in DOMAIN streams |-> streams[x]]
    /\ \A x \in DOMAIN streams : StreamOK(x, streams[x])

CountsOK ==
    /\ filled \in [Places -> Nat]
    /\ \A x \in DOMAIN handed : handed[x] \in Nat
    /\ DeliveredWhole

(* The block that is in its place in the partial stream has not been       *)
(* counted for a delivery yet.                                             *)
Waiting(f) ==
    /\ f.sid \in DOMAIN streams
    /\ f.index \in DOMAIN streams[f.sid].received
    /\ streams[f.sid].received[f.index] = f.message

BoundOK ==
    \A c \in Chunked : \A f \in FramesOf(c) :
        TimesHanded(<<c.sid, c.message>>) + (IF Waiting(f) THEN 1 ELSE 0) <= filled[Place(f)]

(* A stream that is not spoiled consists of blocks of its own message and  *)
(* lacks one, and every chunk that was fed in it is there or has been      *)
(* delivered.                                                              *)
Unfinished(s) ==
    /\ DOMAIN s.received \subseteq 0..(s.total - 1) /\ DOMAIN s.received # 0..(s.total - 1)
    /\ \A i \in DOMAIN s.received : s.received[i] = <<s.hash[i + 1]>>

Accounted(c, f) ==
    \/ <<c.sid, c.message>> \in DOMAIN handed
    \/ /\ c.sid \in DOMAIN streams
       /\ streams[c.sid].hash = c.message
       /\ f.index \in DOMAIN streams[c.sid].received

OwnOK ==
    /\ \A x \in DOMAIN streams \ spoiled : Unfinished(streams[x])
    /\ \A c \in Chunked : c.sid \notin spoiled =>
          \A f \in FramesOf(c) \cap fed : Accounted(c, f)

StreamParts == StreamsOK /\ CountsOK /\ BoundOK /\ OwnOK
IngressInd == TasksOK /\ SharedOK /\ LocksOrdered /\ StreamParts

-----------------------------------------------------------------------------
(* Frames *)

LEMMA FrameFacts ==
    ASSUME NEW c \in Chunked, NEW f \in FramesOf(c)
    PROVE  /\ c.message \in Seq(Blocks) /\ Len(c.message) \in Nat \ {0}
           /\ f \in Frames /\ f.chunk /\ Place(f) \in Places
           /\ f.sid = c.sid /\ f.total = Len(c.message) /\ f.hash = c.message
           /\ f.index \in 0..(Len(c.message) - 1)
           /\ f.message = <<c.message[f.index + 1]>> /\ c.message[f.index + 1] \in Blocks
<1>1. c.message \in Seq(Blocks)
    BY IngressAssumption
<1>2. PICK i \in DOMAIN c.message :
          f = [via |-> c.via, chunk |-> TRUE, sid |-> c.sid, index |-> i - 1,
               total |-> Len(c.message), hash |-> c.message, message |-> <<c.message[i]>>]
    BY DEF FramesOf, ChunkMessage
<1>3. i \in 1..Len(c.message) /\ i - 1 + 1 = i /\ c.message[i] \in Blocks
    BY <1>1
<1>4. /\ f.chunk /\ f.sid = c.sid /\ f.index = i - 1 /\ f.total = Len(c.message)
      /\ f.hash = c.message /\ f.message = <<c.message[i]>>
    BY <1>2
<1>5. f \in Frames
    BY DEF FramesOf, Frames
<1>6. Place(f) \in Places
    BY <1>4, <1>5 DEF Places
<1>7. Len(c.message) \in Nat \ {0} /\ f.index \in 0..(Len(c.message) - 1)
    BY <1>1, <1>3, <1>4
<1> QED BY <1>1, <1>3, <1>4, <1>5, <1>6, <1>7

LEMMA ChunkIsFrameOf ==
    ASSUME NEW f \in Frames, f.chunk
    PROVE  \E c \in Chunked : f \in FramesOf(c)
<1>1. \A d \in Direct : Whole(d.via, d.message).chunk = FALSE
    BY DEF Whole
<1>2. \A d \in Direct : f # Whole(d.via, d.message)
    BY <1>1
<1>3. f \in UNION {ChunkMessage(c.via, c.sid, c.message) : c \in Chunked}
  <2> DEFINE A == UNION {ChunkMessage(c.via, c.sid, c.message) : c \in Chunked}
             B == {Whole(d.via, d.message) : d \in Direct}
  <2>1. f \in A \cup B
    <3>1. Frames = A \cup B
        BY DEF Frames
    <3> HIDE DEF A, B
    <3> QED BY <3>1
  <2>2. f \notin B
      BY <1>2
  <2> HIDE DEF A, B
  <2>3. f \in A
      BY <2>1, <2>2
  <2> QED BY <2>3 DEF A
<1> QED BY <1>3 DEF FramesOf

(* A message that is sent has a frame for each of its blocks. *)
LEMMA FrameAt ==
    ASSUME NEW c \in Chunked, FramesOf(c) # {}, NEW i \in 0..(Len(c.message) - 1)
    PROVE  \E f \in FramesOf(c) : f.index = i
<1>1. c.message \in Seq(Blocks)
    BY IngressAssumption
<1>2. i + 1 \in DOMAIN c.message /\ (i + 1) - 1 = i
    BY <1>1
<1> DEFINE f == [via |-> c.via, chunk |-> TRUE, sid |-> c.sid, index |-> (i + 1) - 1,
                 total |-> Len(c.message), hash |-> c.message, message |-> <<c.message[i + 1]>>]
<1>3. f \in FramesOf(c)
    BY <1>2 DEF FramesOf, ChunkMessage
<1>4. f.index = i
    BY <1>2
<1> QED BY <1>3, <1>4

-----------------------------------------------------------------------------
(* The reassembler *)

Fresh(e) ==
    [total |-> e.total, hash |-> e.hash, received |-> [i \in {} |-> <<>>], old |-> FALSE]
Base(e) == IF e.sid \in Living THEN streams[e.sid] ELSE Fresh(e)

LEMMA BaseFacts ==
    ASSUME StreamsOK, NEW e \in Frames, e.chunk
    PROVE  StreamOK(e.sid, Base(e)) /\ Base(e).old = FALSE
<1>1. CASE e.sid \in Living
  <2>1. streams[e.sid].old \in BOOLEAN /\ ~streams[e.sid].old
      BY <1>1 DEF Living, StreamsOK, StreamOK
  <2>2. Base(e) = streams[e.sid] /\ e.sid \in DOMAIN streams
      BY <1>1 DEF Base, Living
  <2> QED BY <2>1, <2>2 DEF StreamsOK
<1>2. CASE e.sid \notin Living
  <2>1. Base(e) = Fresh(e)
      BY <1>2 DEF Base
  <2>2. PICK c \in Chunked : e \in FramesOf(c)
      BY ChunkIsFrameOf
  <2>3. e.sid = c.sid /\ e.total = Len(c.message) /\ e.hash = c.message
      BY <2>2, FrameFacts
  <2>4. /\ Fresh(e).total = e.total /\ Fresh(e).hash = e.hash /\ Fresh(e).old = FALSE
        /\ Fresh(e).received = [i \in {} |-> <<>>]
      BY DEF Fresh
  <2>5. DOMAIN Fresh(e).received = {}
      BY <2>4
  <2>6. Fresh(e) = [total |-> Fresh(e).total, hash |-> Fresh(e).hash,
                    received |-> Fresh(e).received, old |-> Fresh(e).old]
      BY DEF Fresh
  <2>7. Fresh(e).old \in BOOLEAN
      BY <2>4
  <2>8. IsFiniteSet(DOMAIN Fresh(e).received)
      BY <2>5, FS_EmptySet
  <2>9. \A i \in DOMAIN Fresh(e).received :
            i \in Nat /\ \E b \in Blocks : Fresh(e).received[i] = <<b>>
      BY <2>5
  <2>10. StreamOK(e.sid, Fresh(e))
      BY <2>2, <2>3, <2>4, <2>6, <2>7, <2>8, <2>9 DEF StreamOK
  <2> QED BY <2>1, <2>4, <2>10
<1> QED BY <1>1, <1>2

LEMMA EnteredFacts ==
    ASSUME StreamsOK, NEW e \in Frames, e.chunk
    PROVE  /\ StreamOK(e.sid, Entered(e))
           /\ Entered(e).total = Base(e).total /\ Entered(e).hash = Base(e).hash
           /\ Entered(e).old = FALSE
           /\ DOMAIN Entered(e).received = DOMAIN Base(e).received \cup {e.index}
           /\ \A i \in DOMAIN Entered(e).received :
                 Entered(e).received[i] =
                     IF i = e.index THEN e.message ELSE Base(e).received[i]
<1> DEFINE b == Base(e)
           s == Entered(e)
<1>1. StreamOK(e.sid, b) /\ b.old = FALSE
    BY BaseFacts
<1>2. s = [b EXCEPT !.received = Received(b, e)]
    BY DEF Entered, Base, Fresh
<1>3. b = [total |-> b.total, hash |-> b.hash, received |-> b.received, old |-> b.old]
    BY <1>1 DEF StreamOK
<1> HIDE DEF b, s
<1>4. s = [total |-> b.total, hash |-> b.hash, received |-> Received(b, e), old |-> b.old]
    BY <1>2, <1>3
<1>5. s.total = b.total /\ s.hash = b.hash /\ s.received = Received(b, e) /\ s.old = b.old
    BY <1>4
<1>6. /\ DOMAIN s.received = DOMAIN b.received \cup {e.index}
      /\ \A i \in DOMAIN s.received :
            s.received[i] = IF i = e.index THEN e.message ELSE b.received[i]
    BY <1>5 DEF Received
<1>7. IsFiniteSet(DOMAIN s.received)
  <2>1. IsFiniteSet(DOMAIN b.received)
      BY <1>1 DEF StreamOK
  <2>2. IsFiniteSet(DOMAIN b.received \cup {e.index})
      BY ONLY <2>1, FS_AddElement
  <2> QED BY ONLY <1>6, <2>2, Zenon
<1>8. PICK c \in Chunked : e \in FramesOf(c)
    BY ChunkIsFrameOf
<1>9. e.index \in Nat /\ \E x \in Blocks : e.message = <<x>>
    BY <1>8, FrameFacts
<1>10. ASSUME NEW i \in DOMAIN s.received
       PROVE  i \in Nat /\ \E x \in Blocks : s.received[i] = <<x>>
    BY <1>1, <1>6, <1>9 DEF StreamOK
<1>11. StreamOK(e.sid, s)
  <2>1. s = [total |-> s.total, hash |-> s.hash, received |-> s.received, old |-> s.old]
      BY <1>4, <1>5
  <2> QED BY <1>1, <1>5, <1>7, <1>10, <2>1 DEF StreamOK
<1> QED BY <1>1, <1>5, <1>6, <1>11 DEF b, s

(* What is put together is the message whose hash the stream carries only  *)
(* if each of its blocks is in its place; and if they all are, it is.      *)
LEMMA ReassembledFacts ==
    ASSUME NEW x, NEW s, StreamOK(x, s)
    PROVE  /\ Intact(s) => \A i \in 0..(s.total - 1) :
                 i \in DOMAIN s.received /\ s.received[i] = <<s.hash[i + 1]>>
           /\ (\A i \in 0..(s.total - 1) :
                 i \in DOMAIN s.received /\ s.received[i] = <<s.hash[i + 1]>>) => Intact(s)
<1>1. PICK c \in Chunked : c.sid = x /\ c.message = s.hash /\ FramesOf(c) # {}
    BY DEF StreamOK
<1> DEFINE N == s.total
           m == s.hash
           seqs == [i \in 1..N |-> IF i - 1 \in DOMAIN s.received THEN s.received[i - 1] ELSE <<>>]
<1>2. m \in Seq(Blocks) /\ N = Len(m) /\ N \in Nat \ {0}
    BY <1>1, FrameFacts DEF StreamOK
<1>3. \A i \in DOMAIN s.received : i \in Nat /\ \E b \in Blocks : s.received[i] = <<b>>
    BY DEF StreamOK
<1>4. \A i \in 1..N : /\ seqs[i] \in Seq(Blocks) /\ Len(seqs[i]) <= 1
                      /\ Len(seqs[i]) = 1 => i - 1 \in DOMAIN s.received
                      /\ i - 1 \in DOMAIN s.received => seqs[i] = s.received[i - 1]
  <2> SUFFICES ASSUME NEW i \in 1..N
               PROVE  /\ seqs[i] \in Seq(Blocks) /\ Len(seqs[i]) <= 1
                      /\ Len(seqs[i]) = 1 => i - 1 \in DOMAIN s.received
                      /\ i - 1 \in DOMAIN s.received => seqs[i] = s.received[i - 1]
      OBVIOUS
  <2>1. CASE i - 1 \in DOMAIN s.received
    <3>1. PICK b \in Blocks : s.received[i - 1] = <<b>>
        BY <1>3, <2>1
    <3>2. seqs[i] = <<b>>
        BY <2>1, <3>1
    <3> HIDE DEF seqs
    <3>3. <<b>> \in Seq(Blocks) /\ Len(<<b>>) <= 1
        OBVIOUS
    <3> QED BY <2>1, <3>1, <3>2, <3>3
  <2>2. CASE i - 1 \notin DOMAIN s.received
    <3>1. seqs[i] = <<>>
        BY <2>2
    <3> HIDE DEF seqs
    <3>2. <<>> \in Seq(Blocks) /\ Len(<<>>) = 0
        OBVIOUS
    <3> QED BY <2>2, <3>1, <3>2
  <2> QED BY <2>1, <2>2
<1>5. seqs \in [1..N -> Seq(Blocks)] /\ \A i \in 1..N : Len(seqs[i]) <= 1
    BY <1>4
<1>6. Intact(s) <=> FlattenSeq(seqs) = m
    BY DEF Intact, Reassembled
<1> HIDE DEF seqs, N, m
<1>7. Joins(FlattenSeq(seqs), seqs, Blocks, N)
  <2>1. N \in Nat \ {0}
      BY <1>2
  <2>2. seqs \in [1..N -> Seq(Blocks)]
      BY <1>5
  <2>3. \A i \in 1..N : Len(seqs[i]) <= 1
      BY <1>5
  <2> QED BY ONLY <2>1, <2>2, <2>3, FlattenBlocks, Zenon
<1> DEFINE w == FlattenSeq(seqs)
<1> HIDE DEF w
<1>8. /\ w \in Seq(Blocks)
      /\ Len(w) = N <=> \A i \in 1..N : Len(seqs[i]) = 1
      /\ Len(w) = N => \A i \in 1..N : seqs[i] = <<w[i]>>
    BY <1>7 DEF w, Joins
<1>9. ASSUME Intact(s), NEW i \in 0..(N - 1)
      PROVE  i \in DOMAIN s.received /\ s.received[i] = <<m[i + 1]>>
  <2>1. w = m /\ Len(w) = N
      BY <1>2, <1>6, <1>9 DEF w
  <2>2. i + 1 \in 1..N /\ (i + 1) - 1 = i
      BY <1>2, <1>9
  <2>3. Len(seqs[i + 1]) = 1 /\ seqs[i + 1] = <<w[i + 1]>>
      BY <1>8, <2>1, <2>2
  <2> QED BY <1>4, <2>1, <2>2, <2>3
<1>10. ASSUME \A i \in 0..(N - 1) : i \in DOMAIN s.received /\ s.received[i] = <<m[i + 1]>>
       PROVE  Intact(s)
  <2>1. ASSUME NEW i \in 1..N PROVE seqs[i] = <<m[i]>>
    <3>1. i - 1 \in 0..(N - 1) /\ (i - 1) + 1 = i
        BY <1>2
    <3> QED BY <1>4, <1>10, <3>1
  <2>2. \A i \in 1..N : Len(seqs[i]) = 1
      BY <2>1
  <2>3. Len(w) = N /\ \A i \in 1..N : w[i] = m[i]
    <3>1. Len(w) = N
        BY <1>8, <2>2
    <3>2. ASSUME NEW i \in 1..N PROVE w[i] = m[i]
      <4>1. <<w[i]>> = <<m[i]>>
          BY <1>8, <2>1, <3>1
      <4> QED BY <4>1
    <3> QED BY <3>1, <3>2
  <2>4. w = m
      BY <1>2, <1>8, <2>3, SeqEqual
  <2> QED BY <1>6, <2>4 DEF w
<1> QED BY <1>9, <1>10 DEF N, m

-----------------------------------------------------------------------------
(* feed *)

(* The effect of feeding e, apart from what the task does with the result. *)
Delivers(e) == Complete(Entered(e)) /\ Intact(Entered(e))

Fed(e) ==
    /\ streams' = Remaining(e)
    /\ fed' = fed \cup {e}
    /\ filled' = [filled EXCEPT ![Place(e)] = @ + 1]
    /\ spoiled' = spoiled \cup Evicted \cup (IF Foreign(e) THEN {e.sid} ELSE {})
    /\ handed' = IF Delivers(e) THEN HandedOn(<<e.sid, Reassembled(Entered(e))>>) ELSE handed

LEMMA RemainingFacts ==
    ASSUME StreamsOK, NEW e \in Frames, e.chunk, Fed(e)
    PROVE  /\ Complete(Entered(e)) => DOMAIN streams' = Living \ {e.sid}
           /\ ~Complete(Entered(e)) => DOMAIN streams' = Living \cup {e.sid}
           /\ e.sid \in DOMAIN streams' => streams'[e.sid] = Entered(e)
           /\ \A x \in DOMAIN streams' : x # e.sid => x \in Living /\ streams'[x] = streams[x]
           /\ StreamsOK'
<1> DEFINE D == IF Complete(Entered(e)) THEN Living \ {e.sid} ELSE Living \cup {e.sid}
<1>1. streams' = [x \in D |-> IF x = e.sid THEN Entered(e) ELSE streams[x]]
    BY DEF Fed, Remaining
<1>2. D \subseteq Living \cup {e.sid}
    OBVIOUS
<1>3. Living \subseteq DOMAIN streams
    BY DEF Living
<1>4. StreamOK(e.sid, Entered(e))
    BY EnteredFacts
<1>5. /\ Complete(Entered(e)) => D = Living \ {e.sid}
      /\ ~Complete(Entered(e)) => D = Living \cup {e.sid}
    OBVIOUS
<1> HIDE DEF D
<1>6. DOMAIN streams' = D /\ \A x \in D : streams'[x] = IF x = e.sid THEN Entered(e) ELSE streams[x]
    BY <1>1
<1>7. ASSUME NEW x \in DOMAIN streams' PROVE StreamOK(x, streams'[x])
    BY <1>2, <1>3, <1>4, <1>6 DEF StreamsOK
<1>8. streams' = [x \in DOMAIN streams' |-> streams'[x]]
    BY <1>1
<1>9. StreamsOK'
  <2> DEFINE st == streams'
  <2>1. st = [x \in DOMAIN st |-> st[x]] /\ \A x \in DOMAIN st : StreamOK(x, st[x])
      BY <1>7, <1>8
  <2> QED BY <2>1 DEF StreamsOK, StreamOK
<1> QED BY <1>2, <1>5, <1>6, <1>9

LEMMA HandedFacts ==
    ASSUME StreamsOK, CountsOK, NEW e \in Frames, e.chunk, Fed(e)
    PROVE  /\ Delivers(e) => Reassembled(Entered(e)) = Entered(e).hash
           /\ DOMAIN handed \subseteq DOMAIN handed'
           /\ Delivers(e) => <<e.sid, Entered(e).hash>> \in DOMAIN handed'
           /\ \A y : TimesHanded(y) \in Nat
           /\ \A y : TimesHanded(y)' =
                 IF Delivers(e) /\ y = <<e.sid, Entered(e).hash>>
                 THEN TimesHanded(y) + 1 ELSE TimesHanded(y)
           /\ CountsOK'
<1> DEFINE h == Entered(e).hash
           y0 == <<e.sid, h>>
<1>1. Delivers(e) => Reassembled(Entered(e)) = h
    BY DEF Delivers, Intact
<1>2. \A y : TimesHanded(y) \in Nat
    BY DEF TimesHanded, CountsOK
<1>3. PICK c \in Chunked : c.sid = e.sid /\ c.message = h
    BY EnteredFacts DEF StreamOK
<1>4. Place(e) \in Places
    BY DEF Places
<1>5. filled' \in [Places -> Nat]
    BY <1>4 DEF CountsOK, Fed
<1>6. CASE Delivers(e)
  <2>1. handed' = [y \in DOMAIN handed \cup {y0} |->
                      IF y = y0 THEN TimesHanded(y0) + 1 ELSE handed[y]]
      BY <1>1, <1>6 DEF Fed, HandedOn
  <2> HIDE DEF y0
  <2>2. DOMAIN handed' = DOMAIN handed \cup {y0}
      BY <2>1
  <2>3. \A y \in DOMAIN handed' : handed'[y] = IF y = y0 THEN TimesHanded(y0) + 1 ELSE handed[y]
      BY <2>1
  <2>4. \A y : TimesHanded(y)' = IF y = y0 THEN TimesHanded(y) + 1 ELSE TimesHanded(y)
      BY <2>2, <2>3 DEF TimesHanded
  <2>5. \A y \in DOMAIN handed' : handed'[y] \in Nat
      BY <1>2, <2>2, <2>3 DEF CountsOK
  <2>6. DeliveredWhole'
      BY <1>3, <2>2 DEF CountsOK, DeliveredWhole, y0
  <2>7. CountsOK'
      BY <1>5, <2>5, <2>6 DEF CountsOK
  <2> QED BY <1>1, <1>2, <1>6, <2>2, <2>4, <2>7 DEF y0
<1>7. CASE ~Delivers(e)
  <2>1. handed' = handed
      BY <1>7 DEF Fed
  <2>2. \A y : TimesHanded(y)' = TimesHanded(y)
      BY <2>1 DEF TimesHanded
  <2>3. CountsOK'
      BY <1>5, <2>1 DEF CountsOK, DeliveredWhole
  <2> QED BY <1>2, <1>7, <2>1, <2>2, <2>3
<1> QED BY <1>6, <1>7

(* A block of the stream after feeding e, other than the one e brought,    *)
(* was there before.                                                       *)
LEMMA WasWaiting ==
    ASSUME StreamsOK, NEW e \in Frames, e.chunk, NEW f, f.sid = e.sid, Place(f) # Place(e),
           f.index \in DOMAIN Entered(e).received, Entered(e).received[f.index] = f.message
    PROVE  Waiting(f)
<1>1. f.index # e.index
  <2> SUFFICES ASSUME f.index = e.index PROVE FALSE
      OBVIOUS
  <2>1. f.message = e.message
      BY EnteredFacts
  <2> QED BY <2>1 DEF Place
<1>2. f.index \in DOMAIN Base(e).received /\ Base(e).received[f.index] = f.message
  <2>1. /\ DOMAIN Entered(e).received = DOMAIN Base(e).received \cup {e.index}
        /\ \A i \in DOMAIN Entered(e).received :
              Entered(e).received[i] =
                  IF i = e.index THEN e.message ELSE Base(e).received[i]
      BY EnteredFacts
  <2>2. f.index \in DOMAIN Base(e).received
      BY ONLY <1>1, <2>1, f.index \in DOMAIN Entered(e).received, Zenon
  <2>3. Entered(e).received[f.index] = Base(e).received[f.index]
      BY ONLY <1>1, <2>1, f.index \in DOMAIN Entered(e).received, Zenon
  <2> QED BY <2>2, <2>3
<1>3. e.sid \in Living
  <2> SUFFICES ASSUME e.sid \notin Living PROVE FALSE
      OBVIOUS
  <2>1. Base(e).received = [i \in {} |-> <<>>]
      BY DEF Base, Fresh
  <2>2. DOMAIN Base(e).received = {}
      BY <2>1
  <2> QED BY <1>2, <2>2
<1>4. Base(e) = streams[e.sid] /\ e.sid \in DOMAIN streams
    BY <1>3 DEF Base, Living
<1> QED BY <1>2, <1>4 DEF Waiting

LEMMA FeedBound ==
    ASSUME StreamsOK, CountsOK, BoundOK, NEW e \in Frames, e.chunk, Fed(e)
    PROVE  BoundOK'
<1> DEFINE s == Entered(e)
<1> SUFFICES ASSUME NEW c \in Chunked, NEW f \in FramesOf(c)
             PROVE  TimesHanded(<<c.sid, c.message>>)' + (IF Waiting(f)' THEN 1 ELSE 0)
                        <= filled'[Place(f)]
    BY DEF BoundOK, FramesOf, ChunkMessage, Place
<1> DEFINE y == <<c.sid, c.message>>
           n == TimesHanded(y)
           n1 == TimesHanded(y)'
           k == filled[Place(f)]
           k1 == filled'[Place(f)]
           counted == Delivers(e) /\ y = <<e.sid, s.hash>>
<1>1. /\ f.sid = c.sid /\ f.index \in 0..(Len(c.message) - 1) /\ Place(f) \in Places
      /\ f.message = <<c.message[f.index + 1]>>
    BY FrameFacts
<1>2. n \in Nat /\ n1 = IF counted THEN n + 1 ELSE n
    BY HandedFacts
<1>3. k \in Nat /\ k1 = IF Place(f) = Place(e) THEN k + 1 ELSE k
  <2>1. filled \in [Places -> Nat] /\ filled' = [filled EXCEPT ![Place(e)] = @ + 1]
      BY DEF CountsOK, Fed
  <2> QED BY <1>1, <2>1
<1>4. n + (IF Waiting(f) THEN 1 ELSE 0) <= k
    BY DEF BoundOK
<1>5. n <= k
    BY <1>2, <1>3, <1>4
<1>6. Waiting(f)' => f.sid \in DOMAIN streams' /\ f.index \in DOMAIN streams'[f.sid].received
                        /\ streams'[f.sid].received[f.index] = f.message
    BY DEF Waiting
<1>7. counted => ~Waiting(f)' /\ f.sid = e.sid
  <2> SUFFICES ASSUME counted PROVE ~Waiting(f)' /\ f.sid = e.sid
      OBVIOUS
  <2>1. f.sid = e.sid
      BY <1>1
  <2>2. Complete(s)
      BY DEF Delivers
  <2>3. e.sid \notin DOMAIN streams'
      BY <2>2, RemainingFacts
  <2> QED BY <1>6, <2>1, <2>3
<1>8. ASSUME counted, Place(f) # Place(e) PROVE Waiting(f)
  <2>1. Intact(s) /\ c.message = s.hash /\ f.sid = e.sid
      BY <1>7, <1>8 DEF Delivers
  <2>2. StreamOK(e.sid, s)
      BY EnteredFacts
  <2>3. s.total = Len(c.message)
      BY <2>1, <2>2 DEF StreamOK
  <2>4. f.index \in DOMAIN s.received /\ s.received[f.index] = <<s.hash[f.index + 1]>>
      BY <1>1, <2>1, <2>2, <2>3, ReassembledFacts
  <2>5. s.received[f.index] = f.message
      BY <1>1, <2>1, <2>4
  <2> QED BY <1>8, <2>1, <2>4, <2>5, WasWaiting
<1>9. ASSUME Waiting(f)', Place(f) # Place(e) PROVE Waiting(f)
  <2>1. CASE f.sid = e.sid
    <3>1. streams'[e.sid] = s
        BY <1>6, <1>9, <2>1, RemainingFacts
    <3>2. f.index \in DOMAIN s.received /\ s.received[f.index] = f.message
        BY <1>6, <1>9, <2>1, <3>1
    <3> QED BY <1>9, <2>1, <3>2, WasWaiting
  <2>2. CASE f.sid # e.sid
    <3>1. f.sid \in DOMAIN streams'
        BY <1>6, <1>9
    <3>2. f.sid \in Living /\ streams'[f.sid] = streams[f.sid]
        BY <2>2, <3>1, RemainingFacts
    <3> QED BY <1>6, <1>9, <3>2 DEF Living, Waiting
  <2> QED BY <2>1, <2>2
<1> HIDE DEF s, y, n, n1, k, k1, counted
<1>10. n1 + (IF Waiting(f)' THEN 1 ELSE 0) <= k1
  <2>1. CASE Place(f) = Place(e)
      BY <1>2, <1>3, <1>5, <1>7, <2>1
  <2>2. CASE Place(f) # Place(e)
      BY <1>2, <1>3, <1>4, <1>5, <1>7, <1>8, <1>9, <2>2
  <2> QED BY <2>1, <2>2
<1> QED BY <1>10 DEF n1, k1, y

(* In a stream that is not spoiled, e comes to blocks of its own message.  *)
LEMMA OwnEntered ==
    ASSUME StreamsOK, OwnOK, NEW e \in Frames, e.chunk,
           e.sid \notin spoiled, e.sid \notin Evicted, ~Foreign(e)
    PROVE  /\ Entered(e).hash = e.hash
           /\ Delivers(e) \/ (~Complete(Entered(e)) /\ Unfinished(Entered(e)))
<1> DEFINE s == Entered(e)
           b == Base(e)
<1>1. b.hash = e.hash
    BY DEF Base, Fresh, Foreign
<1>2. /\ StreamOK(e.sid, s) /\ s.hash = b.hash /\ s.total = b.total
      /\ DOMAIN s.received = DOMAIN b.received \cup {e.index}
      /\ \A i \in DOMAIN s.received :
            s.received[i] = IF i = e.index THEN e.message ELSE b.received[i]
    BY EnteredFacts
<1>3. PICK c \in Chunked : e \in FramesOf(c)
    BY ChunkIsFrameOf
<1>4. /\ e.hash = c.message /\ e.index \in 0..(Len(c.message) - 1)
      /\ e.message = <<c.message[e.index + 1]>> /\ Len(c.message) \in Nat \ {0}
    BY <1>3, FrameFacts
<1>5. s.total = Len(c.message) /\ s.hash = c.message
    BY <1>1, <1>2, <1>4 DEF StreamOK
<1>6. /\ DOMAIN b.received \subseteq 0..(b.total - 1)
      /\ \A i \in DOMAIN b.received : b.received[i] = <<b.hash[i + 1]>>
  <2>1. CASE e.sid \in Living
    <3>1. b = streams[e.sid] /\ e.sid \in DOMAIN streams \ spoiled
        BY <2>1 DEF Base, Living
    <3> QED BY <3>1 DEF OwnOK, Unfinished
  <2>2. CASE e.sid \notin Living
    <3>1. b.received = [i \in {} |-> <<>>]
        BY <2>2 DEF Base, Fresh
    <3>2. DOMAIN b.received = {}
        BY <3>1
    <3> QED BY <3>2
  <2> QED BY <2>1, <2>2
<1> HIDE DEF s, b
<1>7. /\ DOMAIN s.received \subseteq 0..(s.total - 1)
      /\ \A i \in DOMAIN s.received : s.received[i] = <<s.hash[i + 1]>>
    BY <1>1, <1>2, <1>4, <1>5, <1>6
<1>8. IsFiniteSet(0..(s.total - 1)) /\ Cardinality(0..(s.total - 1)) = s.total
    BY <1>4, <1>5, FS_Interval
<1>9. Complete(s) <=> DOMAIN s.received = 0..(s.total - 1)
    BY <1>7, <1>8, FS_Subset DEF Complete
<1>10. Complete(s) => Intact(s)
    BY <1>2, <1>7, <1>9, ReassembledFacts
<1>11. ~Complete(s) => Unfinished(s)
    BY <1>7, <1>9 DEF Unfinished
<1> QED BY <1>1, <1>2, <1>10, <1>11 DEF Delivers, s, b

LEMMA FeedOwn ==
    ASSUME StreamsOK, CountsOK, OwnOK, NEW e \in Frames, e.chunk, Fed(e)
    PROVE  OwnOK'
<1> DEFINE s == Entered(e)
<1>1. spoiled \subseteq spoiled' /\ Evicted \subseteq spoiled' /\ (Foreign(e) => e.sid \in spoiled')
    BY DEF Fed
<1>2. e.sid \notin spoiled' =>
          s.hash = e.hash /\ (Delivers(e) \/ (~Complete(s) /\ Unfinished(s)))
    BY <1>1, OwnEntered
<1>3. ASSUME NEW x \in DOMAIN streams' \ spoiled' PROVE Unfinished(streams'[x])
  <2>1. CASE x = e.sid
    <3>1. ~Complete(s) /\ streams'[x] = s
        BY <2>1, RemainingFacts
    <3> QED BY <1>2, <2>1, <3>1 DEF Delivers
  <2>2. CASE x # e.sid
    <3>1. x \in DOMAIN streams \ spoiled /\ streams'[x] = streams[x]
        BY <1>1, <2>2, RemainingFacts DEF Living
    <3> QED BY <3>1 DEF OwnOK
  <2> QED BY <2>1, <2>2
<1>4. DOMAIN handed \subseteq DOMAIN handed'
      /\ (Delivers(e) => <<e.sid, s.hash>> \in DOMAIN handed')
    BY HandedFacts
<1>5. ASSUME NEW c \in Chunked, c.sid \notin spoiled', NEW f \in FramesOf(c) \cap fed'
      PROVE  \/ <<c.sid, c.message>> \in DOMAIN handed'
             \/ /\ c.sid \in DOMAIN streams'
                /\ streams'[c.sid].hash = c.message
                /\ f.index \in DOMAIN streams'[c.sid].received
  <2> SUFFICES ASSUME <<c.sid, c.message>> \notin DOMAIN handed'
               PROVE  /\ c.sid \in DOMAIN streams'
                      /\ streams'[c.sid].hash = c.message
                      /\ f.index \in DOMAIN streams'[c.sid].received
      OBVIOUS
  <2>1. f.sid = c.sid /\ f.hash = c.message
      BY FrameFacts
  <2>2. f \in fed \/ f = e
      BY DEF Fed
  <2>3. f \in fed => /\ c.sid \in Living
                     /\ streams[c.sid].hash = c.message
                     /\ f.index \in DOMAIN streams[c.sid].received
    <3> SUFFICES ASSUME f \in fed
                 PROVE  /\ c.sid \in Living
                        /\ streams[c.sid].hash = c.message
                        /\ f.index \in DOMAIN streams[c.sid].received
        OBVIOUS
    <3>1. Accounted(c, f)
        BY <1>1, <1>5 DEF OwnOK
    <3>2. <<c.sid, c.message>> \notin DOMAIN handed
        BY <1>4
    <3>3. c.sid \notin Evicted
        BY <1>1, <1>5
    <3> QED BY <3>1, <3>2, <3>3 DEF Accounted, Evicted
  <2>4. CASE c.sid # e.sid
    <3>1. f \in fed
        BY <2>1, <2>2, <2>4
    <3>2. c.sid \in DOMAIN streams'
        BY <2>3, <2>4, <3>1, RemainingFacts
    <3>3. streams'[c.sid] = streams[c.sid]
        BY <2>4, <3>2, RemainingFacts
    <3> QED BY <2>3, <3>1, <3>2, <3>3
  <2>5. CASE c.sid = e.sid
    <3>1. c.message = s.hash
      <4>1. CASE f = e
          BY <1>2, <1>5, <2>1, <2>5, <4>1
      <4>2. CASE f \in fed
        <5>1. ~Foreign(e)
            BY <1>1, <1>5, <2>5
        <5>2. c.message = e.hash
            BY <2>3, <2>5, <4>2, <5>1 DEF Foreign
        <5> QED BY <1>2, <1>5, <2>5, <5>2
      <4> QED BY <2>2, <4>1, <4>2
    <3>2. ~Complete(s)
        BY <1>2, <1>4, <1>5, <2>5, <3>1
    <3>3. c.sid \in DOMAIN streams' /\ streams'[c.sid] = s
        BY <2>5, <3>2, RemainingFacts
    <3>4. f.index \in DOMAIN s.received
      <4>1. DOMAIN s.received = DOMAIN Base(e).received \cup {e.index}
          BY EnteredFacts
      <4>2. f \in fed => Base(e) = streams[c.sid]
          BY <2>3, <2>5 DEF Base
      <4> QED BY <2>2, <2>3, <4>1, <4>2
    <3> QED BY <3>1, <3>3, <3>4
  <2> QED BY <2>4, <2>5
<1>6. (\A x \in DOMAIN streams \ spoiled : Unfinished(streams[x]))'
    BY <1>3 DEF Unfinished
<1>7. (\A c \in Chunked : c.sid \notin spoiled =>
          \A f \in FramesOf(c) \cap fed : Accounted(c, f))'
    BY <1>5 DEF Accounted, FramesOf, ChunkMessage
<1> QED BY <1>6, <1>7 DEF OwnOK

-----------------------------------------------------------------------------
(* Time-outs of streams *)

(* Streams grow old or go, and those that go are spoiled. *)
LEMMA StreamsAge ==
    ASSUME StreamParts,
           streams' = [x \in DOMAIN streams' |-> streams'[x]],
           DOMAIN streams' \subseteq DOMAIN streams,
           \A x \in DOMAIN streams' : \E o \in BOOLEAN : streams'[x] =
               [total |-> streams[x].total, hash |-> streams[x].hash,
                received |-> streams[x].received, old |-> o],
           spoiled \subseteq spoiled', DOMAIN streams \ DOMAIN streams' \subseteq spoiled',
           UNCHANGED <<fed, filled, handed>>
    PROVE  StreamParts'
<1>1. ASSUME NEW x \in DOMAIN streams'
      PROVE  /\ streams'[x].total = streams[x].total /\ streams'[x].hash = streams[x].hash
             /\ streams'[x].received = streams[x].received /\ streams'[x].old \in BOOLEAN
             /\ streams'[x] = [total |-> streams'[x].total, hash |-> streams'[x].hash,
                               received |-> streams'[x].received, old |-> streams'[x].old]
  <2>1. PICK o \in BOOLEAN : streams'[x] =
               [total |-> streams[x].total, hash |-> streams[x].hash,
                received |-> streams[x].received, old |-> o]
      OBVIOUS
  <2> QED BY <2>1
<1>2. StreamsOK'
  <2> DEFINE st == streams'
  <2>1. ASSUME NEW x \in DOMAIN st PROVE StreamOK(x, st[x])
    <3>1. StreamOK(x, streams[x])
        BY DEF StreamParts, StreamsOK
    <3> QED BY <1>1, <3>1 DEF StreamOK
  <2> QED BY <2>1 DEF StreamsOK, StreamOK
<1>3. CountsOK'
    BY DEF StreamParts, CountsOK, DeliveredWhole
<1>4. BoundOK'
  <2> SUFFICES ASSUME NEW c \in Chunked, NEW f \in FramesOf(c)
               PROVE  TimesHanded(<<c.sid, c.message>>)' + (IF Waiting(f)' THEN 1 ELSE 0)
                          <= filled'[Place(f)]
      BY DEF BoundOK, FramesOf, ChunkMessage, Place
  <2>1. Waiting(f)' => Waiting(f)
      BY <1>1 DEF Waiting
  <2>2. TimesHanded(<<c.sid, c.message>>)' = TimesHanded(<<c.sid, c.message>>)
      BY DEF TimesHanded
  <2>3. TimesHanded(<<c.sid, c.message>>) \in Nat
      BY DEF StreamParts, CountsOK, TimesHanded
  <2>4. filled[Place(f)] \in Nat
      BY FrameFacts DEF StreamParts, CountsOK
  <2>5. TimesHanded(<<c.sid, c.message>>) + (IF Waiting(f) THEN 1 ELSE 0) <= filled[Place(f)]
      BY DEF StreamParts, BoundOK
  <2> DEFINE n == TimesHanded(<<c.sid, c.message>>)
             k == filled[Place(f)]
  <2> HIDE DEF n, k
  <2>6. n + (IF Waiting(f)' THEN 1 ELSE 0) <= k
      BY <2>1, <2>3, <2>4, <2>5 DEF n, k
  <2> QED BY <2>2, <2>6 DEF n, k
<1>5. OwnOK'
  <2>1. ASSUME NEW x \in DOMAIN streams' \ spoiled' PROVE Unfinished(streams'[x])
    <3>1. Unfinished(streams[x])
        BY DEF StreamParts, OwnOK
    <3> QED BY <1>1, <3>1 DEF Unfinished
  <2>2. ASSUME NEW c \in Chunked, c.sid \notin spoiled', NEW f \in FramesOf(c) \cap fed'
        PROVE  Accounted(c, f)'
    <3>1. Accounted(c, f)
        BY <2>2 DEF StreamParts, OwnOK
    <3>2. c.sid \in DOMAIN streams => c.sid \in DOMAIN streams'
        BY <2>2
    <3> QED BY <1>1, <3>1, <3>2 DEF Accounted
  <2>3. (\A x \in DOMAIN streams \ spoiled : Unfinished(streams[x]))'
      BY <2>1 DEF Unfinished
  <2>4. (\A c \in Chunked : c.sid \notin spoiled =>
            \A f \in FramesOf(c) \cap fed : Accounted(c, f))'
      BY <2>2 DEF Accounted, FramesOf, ChunkMessage
  <2> QED BY <2>3, <2>4 DEF OwnOK
<1> QED BY <1>2, <1>3, <1>4, <1>5 DEF StreamParts

LEMMA StreamsQuiet ==
    ASSUME StreamParts, UNCHANGED <<chunkVars, handed>>
    PROVE  StreamParts'
<1>1. /\ streams' = streams /\ fed' = fed /\ filled' = filled /\ spoiled' = spoiled
      /\ handed' = handed
    BY DEF chunkVars
<1>2. StreamsOK'
    BY <1>1 DEF StreamParts, StreamsOK, StreamOK
<1>3. CountsOK'
    BY <1>1 DEF StreamParts, CountsOK, DeliveredWhole
<1>4. BoundOK'
    BY <1>1 DEF StreamParts, BoundOK, TimesHanded, Waiting
<1>5. OwnOK'
    BY <1>1 DEF StreamParts, OwnOK, Unfinished, Accounted
<1> QED BY <1>2, <1>3, <1>4, <1>5 DEF StreamParts

-----------------------------------------------------------------------------
(* Tasks and locks *)

LEMMA FirstStepFacts ==
    ASSUME NEW f \in Frames, FirstStep(f) # "refused"
    PROVE  /\ FirstStep(f) \in {"feed", "crystal", "architect"}
           /\ FirstStep(f) = "feed" => f.chunk
           /\ FirstStep(f) = "architect" => f.message \in Reactions
BY DEF FirstStep

(* One task changes. *)
LEMMA OneTask ==
    ASSUME TasksOK, NEW t \in Slots, NEW r, TaskOK(r), task' = [task EXCEPT ![t] = r]
    PROVE  TasksOK' /\ task'[t] = r /\ \A u \in Slots \ {t} : task'[u] = task[u]
<1>1. task = [u \in Slots |-> task[u]]
    BY DEF TasksOK
<1>2. /\ task' = [u \in Slots |-> task'[u]] /\ task'[t] = r
      /\ \A u \in Slots \ {t} : task'[u] = task[u]
    BY <1>1
<1>3. \A u \in Slots : TaskOK(task'[u])
    BY <1>2 DEF TasksOK
<1> DEFINE ts == task'
<1>4. ts = [u \in Slots |-> ts[u]] /\ \A u \in Slots : TaskOK(ts[u])
    BY <1>2, <1>3
<1>5. TasksOK'
    BY <1>4 DEF TasksOK, TaskOK
<1> QED BY <1>2, <1>5

Task(a, f, e, m) == [at |-> a, frame |-> f, echo |-> e, message |-> m]

LEMMA SetAt ==
    ASSUME NEW a, NEW f, NEW e, NEW m, NEW x
    PROVE  [Task(a, f, e, m) EXCEPT !.at = x] = Task(x, f, e, m)
BY DEF Task

LEMMA SetMessage ==
    ASSUME NEW a, NEW f, NEW e, NEW m, NEW x
    PROVE  [Task(a, f, e, m) EXCEPT !.message = x] = Task(a, f, e, x)
BY DEF Task

LEMMA MovedFacts ==
    ASSUME TasksOK, NEW t \in Slots, task[t] # Idle, NEW a, NEW m, task' = Moved(t, a, m),
           a \in {"crystal", "nested", "architect", "balance", "push", "broadcast"},
           a \notin {"crystal", "nested"} => m \in Reactions
    PROVE  TasksOK' /\ task'[t].at = a /\ \A u \in Slots \ {t} : task'[u] = task[u]
<1> DEFINE r == task[t]
           q == [at |-> a, frame |-> r.frame, echo |-> r.echo, message |-> m]
<1>1. task = [u \in Slots |-> task[u]]
    BY DEF TasksOK
<1>2. /\ r = [at |-> r.at, frame |-> r.frame, echo |-> r.echo, message |-> r.message]
      /\ r.frame \in Frames
    BY DEF TasksOK, TaskOK
<1>3. task' = [task EXCEPT ![t] = [[r EXCEPT !.at = a] EXCEPT !.message = m]]
    BY <1>1 DEF Moved
<1>4. [[r EXCEPT !.at = a] EXCEPT !.message = m] = q
  <2>1. r = Task(r.at, r.frame, r.echo, r.message)
      BY <1>2 DEF Task
  <2>2. q = Task(a, r.frame, r.echo, m)
      BY DEF Task
  <2> HIDE DEF r, q
  <2>3. [r EXCEPT !.at = a] = Task(a, r.frame, r.echo, r.message)
      BY <2>1, SetAt
  <2>4. [Task(a, r.frame, r.echo, r.message) EXCEPT !.message = m] = q
      BY <2>2, SetMessage
  <2> QED BY ONLY <2>3, <2>4, Zenon
<1>5. q.at = a /\ q.frame = r.frame /\ q.echo = r.echo /\ q.message = m
    OBVIOUS
<1>6. q = [at |-> q.at, frame |-> q.frame, echo |-> q.echo, message |-> q.message]
    BY <1>5
<1> HIDE DEF q, r
<1>7. TaskOK(q)
    BY <1>2, <1>5, <1>6 DEF TaskOK
<1> QED BY <1>3, <1>4, <1>5, <1>7, OneTask

LEMMA ReturnFacts ==
    ASSUME TasksOK, SharedOK, NEW t \in Slots, task[t] # Idle, NEW ok, Return(t, ok)
    PROVE  /\ TasksOK' /\ task'[t].at = "idle" /\ \A u \in Slots \ {t} : task'[u] = task[u]
           /\ echoes' \subseteq seen' /\ seen' \subseteq Frames
<1>1. task[t].frame \in Frames
    BY DEF TasksOK, TaskOK
<1>2. task' = [task EXCEPT ![t] = Idle]
    BY DEF Return
<1>3. TaskOK(Idle) /\ Idle.at = "idle"
    BY DEF TaskOK, Idle
<1>4. echoes' \subseteq seen' /\ seen' \subseteq Frames
    BY <1>1 DEF Return, SharedOK
<1> QED BY <1>2, <1>3, <1>4, OneTask

LEMMA LocksQuiet ==
    ASSUME LocksOrdered, UNCHANGED locks, NEW t \in Slots,
           task[t].at \notin {"crystal", "nested"}, task'[t].at # "nested",
           \A u \in Slots \ {t} : task'[u] = task[u]
    PROVE  LocksOrdered'
<1>1. \A u \in Slots : task[u].at \in {"crystal", "nested"} => task'[u].at = task[u].at
    OBVIOUS
<1>2. \A u \in Slots : task'[u].at = "nested" => task[u].at = "nested"
    OBVIOUS
<1> QED BY <1>1, <1>2 DEF LocksOrdered, Free

-----------------------------------------------------------------------------
(* The actions *)

LEMMA AtIdle ==
    ASSUME TasksOK, NEW t \in Slots, task[t].at # "idle"
    PROVE  task[t] # Idle
BY DEF Idle

LEMMA StartFacts ==
    ASSUME TasksOK, NEW t \in Slots, NEW f \in Frames, NEW echo, Start(t, f, echo)
    PROVE  TasksOK' /\ task'[t].at # "nested" /\ \A u \in Slots \ {t} : task'[u] = task[u]
<1> DEFINE q == [at |-> FirstStep(f), frame |-> f, echo |-> echo, message |-> f.message]
<1>1. task' = [task EXCEPT ![t] = q] /\ FirstStep(f) # "refused"
    BY DEF Start
<1>2. q.at = FirstStep(f) /\ q.frame = f /\ q.echo = echo /\ q.message = f.message
    OBVIOUS
<1>3. q = [at |-> q.at, frame |-> q.frame, echo |-> q.echo, message |-> q.message]
    BY <1>2
<1> HIDE DEF q
<1>4. TaskOK(q)
    BY <1>1, <1>2, <1>3, FirstStepFacts DEF TaskOK
<1>5. q.at # "nested"
    BY <1>1, <1>2, FirstStepFacts
<1> QED BY <1>1, <1>4, <1>5, OneTask

LEMMA ArriveKeeps ==
    ASSUME IngressInd, NEW t \in Slots, Arrive(t)
    PROVE  IngressInd'
<1>1. PICK f \in Frames : /\ arrived[f] < MaxCopies
                          /\ arrived' = [arrived EXCEPT ![f] = @ + 1]
                          /\ Start(t, f, FALSE)
    BY DEF Arrive
<1>2. TasksOK' /\ task'[t].at # "nested" /\ \A u \in Slots \ {t} : task'[u] = task[u]
    BY <1>1, StartFacts DEF IngressInd
<1>3. LocksOrdered'
    BY <1>2, LocksQuiet DEF IngressInd, Arrive
<1>4. arrived' \in [Frames -> 0..MaxCopies]
    BY <1>1, IngressAssumption DEF IngressInd, SharedOK
<1>5. SharedOK'
    BY <1>4 DEF IngressInd, SharedOK, Arrive, poolVars
<1>6. StreamParts'
    BY StreamsQuiet DEF IngressInd, Arrive
<1> QED BY <1>2, <1>3, <1>5, <1>6 DEF IngressInd

LEMMA EchoKeeps ==
    ASSUME IngressInd, NEW t \in Slots, Echo(t)
    PROVE  IngressInd'
<1>1. PICK f \in echoes : echoes' = echoes \ {f} /\ Start(t, f, TRUE)
    BY DEF Echo
<1>2. f \in Frames
    BY DEF IngressInd, SharedOK
<1>3. TasksOK' /\ task'[t].at # "nested" /\ \A u \in Slots \ {t} : task'[u] = task[u]
    BY <1>1, <1>2, StartFacts DEF IngressInd
<1>4. LocksOrdered'
    BY <1>3, LocksQuiet DEF IngressInd, Echo
<1>5. SharedOK'
    BY <1>1 DEF IngressInd, SharedOK, Echo, poolVars
<1>6. StreamParts'
    BY StreamsQuiet DEF IngressInd, Echo
<1> QED BY <1>3, <1>4, <1>5, <1>6 DEF IngressInd

LEMMA FeedKeeps ==
    ASSUME IngressInd, NEW t \in Slots, Feed(t)
    PROVE  IngressInd'
<1> DEFINE e == task[t].frame
           m == Reassembled(Entered(e))
<1>1. task[t].at = "feed" /\ task[t] # Idle
    BY AtIdle DEF Feed, IngressInd
<1>2. e \in Frames /\ e.chunk
    BY <1>1 DEF IngressInd, TasksOK, TaskOK
<1>3. Fed(e)
    BY DEF Feed, Fed, Delivers
<1>4. StreamsOK /\ CountsOK /\ BoundOK /\ OwnOK
    BY DEF IngressInd, StreamParts
<1>5. StreamParts'
    BY <1>2, <1>3, <1>4, RemainingFacts, HandedFacts, FeedBound, FeedOwn DEF StreamParts
<1>6. SharedOK /\ TasksOK /\ LocksOrdered
    BY DEF IngressInd
<1>7. UNCHANGED <<arrived, pool, spread, cut>>
    BY DEF Feed, poolVars
<1>8. \/ (\E ok : Return(t, ok)) /\ UNCHANGED locks
      \/ /\ \E a \in {"crystal", "nested"} : task' = Moved(t, a, m)
         /\ locks' = [locks EXCEPT !["chunks"] = t]
         /\ UNCHANGED <<seen, echoes>>
      \/ /\ m \in Reactions
         /\ task' = Moved(t, "architect", m)
         /\ UNCHANGED <<locks, seen, echoes>>
    BY DEF Feed
<1>9. ASSUME NEW ok, Return(t, ok), UNCHANGED locks
      PROVE  TasksOK' /\ SharedOK' /\ LocksOrdered'
  <2>1. /\ TasksOK' /\ task'[t].at # "nested" /\ \A u \in Slots \ {t} : task'[u] = task[u]
        /\ echoes' \subseteq seen' /\ seen' \subseteq Frames
      BY <1>1, <1>6, <1>9, ReturnFacts
  <2>2. LocksOrdered'
      BY <1>1, <1>6, <1>9, <2>1, LocksQuiet
  <2>3. SharedOK'
      BY <1>6, <1>7, <1>9, <2>1 DEF SharedOK
  <2> QED BY <2>1, <2>2, <2>3
<1>10. ASSUME NEW a \in {"crystal", "nested"}, task' = Moved(t, a, m),
              locks' = [locks EXCEPT !["chunks"] = t], UNCHANGED <<seen, echoes>>
       PROVE  TasksOK' /\ SharedOK' /\ LocksOrdered'
  <2>1. TasksOK' /\ task'[t].at = a /\ \A u \in Slots \ {t} : task'[u] = task[u]
      BY <1>1, <1>6, <1>10, MovedFacts
  <2>2. /\ locks' \in [{"chunks", "engine", "pool"} -> Slots \cup {Miner, Nobody}]
        /\ locks'["chunks"] = t
        /\ locks'["engine"] = locks["engine"] /\ locks'["pool"] = locks["pool"]
      BY <1>6, <1>10 DEF SharedOK
  <2>3. \A u \in Slots : task[u].at # "nested"
      BY <1>6, IngressAssumption DEF LocksOrdered, Feed, Free
  <2>5. LocksOrdered'
      BY <1>6, <2>1, <2>2, <2>3 DEF LocksOrdered, Free
  <2>4. SharedOK'
      BY <1>6, <1>7, <1>10, <2>2 DEF SharedOK
  <2> QED BY <2>1, <2>4, <2>5
<1>11. ASSUME m \in Reactions, task' = Moved(t, "architect", m),
              UNCHANGED <<locks, seen, echoes>>
       PROVE  TasksOK' /\ SharedOK' /\ LocksOrdered'
  <2>1. TasksOK' /\ task'[t].at # "nested" /\ \A u \in Slots \ {t} : task'[u] = task[u]
      BY <1>1, <1>6, <1>11, MovedFacts
  <2>2. LocksOrdered'
      BY <1>1, <1>6, <1>11, <2>1, LocksQuiet
  <2>3. SharedOK'
      BY <1>6, <1>7, <1>11 DEF SharedOK
  <2> QED BY <2>1, <2>2, <2>3
<1> HIDE DEF m
<1>12. TasksOK' /\ SharedOK' /\ LocksOrdered'
    BY <1>8, <1>9, <1>10, <1>11
<1> QED BY <1>5, <1>12 DEF IngressInd

Stream(n, h, r, o) == [total |-> n, hash |-> h, received |-> r, old |-> o]

LEMMA SetOld ==
    ASSUME NEW n, NEW h, NEW r, NEW o, NEW x
    PROVE  [Stream(n, h, r, o) EXCEPT !.old = x] = Stream(n, h, r, x)
BY DEF Stream

LEMMA AgeKeeps ==
    ASSUME IngressInd, Age
    PROVE  IngressInd'
<1>1. PICK s \in DOMAIN streams : streams' = [streams EXCEPT ![s].old = TRUE]
    BY DEF Age
<1>2. /\ UNCHANGED <<arrived, task, locks, pool, seen, echoes, spread, fed, filled, handed,
                     spoiled, cut>>
    BY DEF Age
<1>3. streams = [x \in DOMAIN streams |-> streams[x]]
    BY DEF IngressInd, StreamParts, StreamsOK
<1>4. DOMAIN streams' = DOMAIN streams /\ streams' = [x \in DOMAIN streams' |-> streams'[x]]
    BY <1>1, <1>3
<1>5. ASSUME NEW x \in DOMAIN streams'
      PROVE  \E o \in BOOLEAN : streams'[x] =
               [total |-> streams[x].total, hash |-> streams[x].hash,
                received |-> streams[x].received, old |-> o]
  <2> DEFINE r == streams[x]
  <2>1. r = [total |-> r.total, hash |-> r.hash, received |-> r.received, old |-> r.old]
        /\ r.old \in BOOLEAN
      BY <1>4 DEF IngressInd, StreamParts, StreamsOK, StreamOK
  <2>2. CASE x = s
    <3>1. PICK y \in BOOLEAN : y = TRUE
        OBVIOUS
    <3>2. streams'[x] = [r EXCEPT !.old = TRUE]
        BY <1>1, <1>3, <2>2
    <3> HIDE DEF r
    <3>3. streams'[x] = [r EXCEPT !.old = y]
        BY ONLY <3>1, <3>2, Zenon
    <3>4. r = Stream(r.total, r.hash, r.received, r.old)
        BY <2>1 DEF Stream
    <3>5. [Stream(r.total, r.hash, r.received, r.old) EXCEPT !.old = y] =
              Stream(r.total, r.hash, r.received, y)
        BY ONLY SetOld
    <3>6. streams'[x] = Stream(r.total, r.hash, r.received, y)
        BY ONLY <3>3, <3>4, <3>5, Zenon
    <3> QED BY <3>1, <3>6 DEF Stream, r
  <2>3. CASE x # s
    <3>1. streams'[x] = r
        BY <1>1, <1>3, <1>4, <2>3
    <3> QED BY <2>1, <3>1
  <2> QED BY <2>2, <2>3
<1>6. StreamParts'
    BY <1>2, <1>4, <1>5, StreamsAge DEF IngressInd
<1>7. TasksOK' /\ SharedOK' /\ LocksOrdered'
    BY <1>2 DEF IngressInd, TasksOK, TaskOK, SharedOK, LocksOrdered, Free
<1> QED BY <1>6, <1>7 DEF IngressInd

LEMMA CollectKeeps ==
    ASSUME IngressInd, Collect
    PROVE  IngressInd'
<1>1. /\ streams' = [s \in Living |-> streams[s]] /\ spoiled' = spoiled \cup Evicted
      /\ UNCHANGED <<arrived, task, locks, pool, seen, echoes, spread, fed, filled, handed, cut>>
    BY DEF Collect
<1>2. Living \subseteq DOMAIN streams /\ DOMAIN streams \ Living \subseteq spoiled'
    BY <1>1 DEF Living, Evicted
<1>3. /\ DOMAIN streams' = Living /\ streams' = [x \in DOMAIN streams' |-> streams'[x]]
      /\ \A x \in Living : streams'[x] = streams[x]
    BY <1>1
<1>4. ASSUME NEW x \in DOMAIN streams'
      PROVE  \E o \in BOOLEAN : streams'[x] =
               [total |-> streams[x].total, hash |-> streams[x].hash,
                received |-> streams[x].received, old |-> o]
    BY <1>2, <1>3 DEF IngressInd, StreamParts, StreamsOK, StreamOK
<1>5. spoiled \subseteq spoiled'
    BY <1>1
<1>6. StreamParts'
    BY <1>1, <1>2, <1>3, <1>4, <1>5, StreamsAge DEF IngressInd
<1>7. TasksOK' /\ SharedOK' /\ LocksOrdered'
    BY <1>1 DEF IngressInd, TasksOK, TaskOK, SharedOK, LocksOrdered, Free
<1> QED BY <1>6, <1>7 DEF IngressInd

LEMMA ProcessCrystalKeeps ==
    ASSUME IngressInd, NEW t \in Slots, ProcessCrystal(t)
    PROVE  IngressInd'
<1>1. SharedOK /\ TasksOK /\ LocksOrdered
    BY DEF IngressInd
<1>2. task[t] # Idle
    BY <1>1, AtIdle DEF ProcessCrystal
<1>3. PICK ok : Return(t, ok)
    BY DEF ProcessCrystal
<1>4. /\ TasksOK' /\ task'[t].at # "nested" /\ \A u \in Slots \ {t} : task'[u] = task[u]
      /\ echoes' \subseteq seen' /\ seen' \subseteq Frames
    BY <1>1, <1>2, <1>3, ReturnFacts
<1>5. locks' = [locks EXCEPT !["chunks"] = IF @ = t THEN Nobody ELSE @]
    BY DEF ProcessCrystal
<1>6. /\ locks' \in [{"chunks", "engine", "pool"} -> Slots \cup {Miner, Nobody}]
      /\ locks'["chunks"] = IF locks["chunks"] = t THEN Nobody ELSE locks["chunks"]
      /\ locks'["engine"] = locks["engine"] /\ locks'["pool"] = locks["pool"]
    BY <1>1, <1>5 DEF SharedOK
<1>7. LocksOrdered'
  <2>1. \A u \in Slots : task'[u].at = "nested" => u # t /\ task[u].at = "nested"
      BY <1>4
  <2> QED BY <1>1, <1>4, <1>6, <2>1 DEF LocksOrdered, Free
<1>8. SharedOK'
    BY <1>1, <1>4, <1>6 DEF SharedOK, ProcessCrystal, poolVars
<1>9. StreamParts'
    BY StreamsQuiet DEF IngressInd, ProcessCrystal
<1> QED BY <1>4, <1>7, <1>8, <1>9 DEF IngressInd

LEMMA CheckArchitectKeeps ==
    ASSUME IngressInd, NEW t \in Slots, CheckArchitect(t)
    PROVE  IngressInd'
<1>1. SharedOK /\ TasksOK /\ LocksOrdered
    BY DEF IngressInd
<1>2. task[t] # Idle /\ task[t].at = "architect"
    BY <1>1, AtIdle DEF CheckArchitect
<1>3. task[t].message \in Reactions
    BY <1>1, <1>2 DEF TasksOK, TaskOK
<1>4. PICK a \in {"push", "balance"} : task' = Moved(t, a, task[t].message)
    BY DEF CheckArchitect
<1>5. TasksOK' /\ task'[t].at # "nested" /\ \A u \in Slots \ {t} : task'[u] = task[u]
    BY <1>1, <1>2, <1>3, <1>4, MovedFacts
<1>6. LocksOrdered'
    BY <1>1, <1>2, <1>5, LocksQuiet DEF CheckArchitect
<1>7. SharedOK'
    BY <1>1 DEF SharedOK, CheckArchitect, netVars, poolVars
<1>8. StreamParts'
    BY StreamsQuiet DEF IngressInd, CheckArchitect
<1> QED BY <1>5, <1>6, <1>7, <1>8 DEF IngressInd

LEMMA CheckBalanceKeeps ==
    ASSUME IngressInd, NEW t \in Slots, CheckBalance(t)
    PROVE  IngressInd'
<1>1. SharedOK /\ TasksOK /\ LocksOrdered
    BY DEF IngressInd
<1>2. task[t] # Idle /\ task[t].at = "balance"
    BY <1>1, AtIdle DEF CheckBalance
<1>3. task[t].message \in Reactions
    BY <1>1, <1>2 DEF TasksOK, TaskOK
<1>4. /\ TasksOK' /\ task'[t].at # "nested" /\ \A u \in Slots \ {t} : task'[u] = task[u]
      /\ echoes' \subseteq seen' /\ seen' \subseteq Frames
  <2>1. CASE task' = Moved(t, "push", task[t].message) /\ UNCHANGED <<seen, echoes>>
      BY <1>1, <1>2, <1>3, <2>1, MovedFacts DEF SharedOK
  <2>2. CASE Return(t, TRUE)
      BY <1>1, <1>2, <2>2, ReturnFacts
  <2> QED BY <2>1, <2>2 DEF CheckBalance
<1>5. LocksOrdered'
    BY <1>1, <1>2, <1>4, LocksQuiet DEF CheckBalance
<1>6. SharedOK'
    BY <1>1, <1>4 DEF SharedOK, CheckBalance, poolVars
<1>7. StreamParts'
    BY StreamsQuiet DEF IngressInd, CheckBalance
<1> QED BY <1>4, <1>5, <1>6, <1>7 DEF IngressInd

LEMMA PushKeeps ==
    ASSUME IngressInd, NEW t \in Slots, Push(t)
    PROVE  IngressInd'
<1> DEFINE m == task[t].message
<1>1. SharedOK /\ TasksOK /\ LocksOrdered
    BY DEF IngressInd
<1>2. task[t] # Idle /\ task[t].at = "push"
    BY <1>1, AtIdle DEF Push
<1>3. m \in Reactions
    BY <1>1, <1>2 DEF TasksOK, TaskOK
<1>4. /\ TasksOK' /\ task'[t].at # "nested" /\ \A u \in Slots \ {t} : task'[u] = task[u]
      /\ echoes' \subseteq seen' /\ seen' \subseteq Frames
  <2>1. CASE task' = Moved(t, "broadcast", m) /\ UNCHANGED <<seen, echoes>>
      BY <1>1, <1>2, <1>3, <2>1, MovedFacts DEF SharedOK
  <2>2. ASSUME NEW ok, Return(t, ok)
        PROVE  /\ TasksOK' /\ task'[t].at # "nested" /\ \A u \in Slots \ {t} : task'[u] = task[u]
               /\ echoes' \subseteq seen' /\ seen' \subseteq Frames
      BY <1>1, <1>2, <2>2, ReturnFacts
  <2> QED BY <2>1, <2>2 DEF Push
<1>5. IsFiniteSet(pool') /\ pool' \subseteq Reactions /\ Cardinality(pool') <= Capacity
  <2>1. pool' = pool \/ (Cardinality(pool) < Capacity /\ pool' = pool \cup {m})
      BY DEF Push
  <2>2. CASE pool' = pool
      BY <1>1, <2>2 DEF SharedOK
  <2>3. CASE Cardinality(pool) < Capacity /\ pool' = pool \cup {m}
    <3>1. IsFiniteSet(pool) /\ pool \subseteq Reactions /\ Cardinality(pool) \in Nat
        BY <1>1, FS_CardinalityType DEF SharedOK
    <3>2. IsFiniteSet(pool \cup {m}) /\ Cardinality(pool \cup {m}) <= Cardinality(pool) + 1
      <4> HIDE DEF m
      <4>1. /\ IsFiniteSet(pool \cup {m})
            /\ Cardinality(pool \cup {m}) =
                  IF m \in pool THEN Cardinality(pool) ELSE Cardinality(pool) + 1
          BY ONLY <3>1, FS_AddElement, Zenon
      <4> QED BY <3>1, <4>1
    <3>3. Cardinality(pool \cup {m}) \in Nat
        BY <3>2, FS_CardinalityType
    <3> QED BY <1>3, <2>3, <3>1, <3>2, <3>3, IngressAssumption
  <2> QED BY <2>1, <2>2, <2>3
<1>6. LocksOrdered'
    BY <1>1, <1>2, <1>4, LocksQuiet DEF Push
<1>7. SharedOK'
    BY <1>1, <1>4, <1>5 DEF SharedOK, Push
<1>8. StreamParts'
    BY StreamsQuiet DEF IngressInd, Push
<1> QED BY <1>4, <1>6, <1>7, <1>8 DEF IngressInd

LEMMA BroadcastKeeps ==
    ASSUME IngressInd, NEW t \in Slots, Broadcast(t)
    PROVE  IngressInd'
<1>1. SharedOK /\ TasksOK /\ LocksOrdered
    BY DEF IngressInd
<1>2. task[t] # Idle /\ task[t].at = "broadcast"
    BY <1>1, AtIdle DEF Broadcast
<1>3. task[t].message \in Reactions
    BY <1>1, <1>2 DEF TasksOK, TaskOK
<1>4. /\ TasksOK' /\ task'[t].at # "nested" /\ \A u \in Slots \ {t} : task'[u] = task[u]
      /\ echoes' \subseteq seen' /\ seen' \subseteq Frames
    BY <1>1, <1>2, ReturnFacts DEF Broadcast
<1>5. LocksOrdered'
    BY <1>1, <1>2, <1>4, LocksQuiet DEF Broadcast
<1>6. SharedOK'
    BY <1>1, <1>3, <1>4 DEF SharedOK, Broadcast
<1>7. StreamParts'
    BY StreamsQuiet DEF IngressInd, Broadcast
<1> QED BY <1>4, <1>5, <1>6, <1>7 DEF IngressInd

LEMMA TimeoutKeeps ==
    ASSUME IngressInd, NEW t \in Slots, Timeout(t)
    PROVE  IngressInd'
<1>1. SharedOK /\ TasksOK /\ LocksOrdered
    BY DEF IngressInd
<1>2. task[t] # Idle /\ task[t].at \in {"architect", "balance", "push", "broadcast"}
    BY <1>1, AtIdle DEF Timeout
<1>3. task[t].message \in Reactions
    BY <1>1, <1>2 DEF TasksOK, TaskOK
<1>4. /\ TasksOK' /\ task'[t].at # "nested" /\ \A u \in Slots \ {t} : task'[u] = task[u]
      /\ echoes' \subseteq seen' /\ seen' \subseteq Frames
    BY <1>1, <1>2, ReturnFacts DEF Timeout
<1>5. LocksOrdered'
    BY <1>1, <1>2, <1>4, LocksQuiet DEF Timeout
<1>6. SharedOK'
    BY <1>1, <1>3, <1>4 DEF SharedOK, Timeout
<1>7. StreamParts'
    BY StreamsQuiet DEF IngressInd, Timeout
<1> QED BY <1>4, <1>5, <1>6, <1>7 DEF IngressInd

LEMMA MineKeeps ==
    ASSUME IngressInd, MineBegin \/ MineEnd
    PROVE  IngressInd'
<1>1. SharedOK /\ TasksOK /\ LocksOrdered
    BY DEF IngressInd
<1>2. PICK h \in {Miner, Nobody} : locks' = [locks EXCEPT !["engine"] = h]
    BY DEF MineBegin, MineEnd
<1>3. /\ UNCHANGED <<arrived, task, streams, seen, echoes, spread, fed, filled, handed,
                     spoiled, cut>>
      /\ pool' \subseteq pool
    BY DEF MineBegin, MineEnd
<1>4. /\ locks' \in [{"chunks", "engine", "pool"} -> Slots \cup {Miner, Nobody}]
      /\ locks'["chunks"] = locks["chunks"] /\ locks'["pool"] = locks["pool"]
      /\ locks'["engine"] \in {Miner, Nobody}
    BY <1>1, <1>2 DEF SharedOK
<1>5. LocksOrdered'
    BY <1>1, <1>3, <1>4 DEF LocksOrdered, Free
<1>6. IsFiniteSet(pool') /\ Cardinality(pool') <= Capacity
  <2>1. IsFiniteSet(pool) /\ pool' \in SUBSET pool /\ Cardinality(pool) \in Nat
      BY <1>1, <1>3, FS_CardinalityType DEF SharedOK
  <2>2. IsFiniteSet(pool') /\ Cardinality(pool') <= Cardinality(pool)
      BY <2>1, FS_Subset
  <2>3. Cardinality(pool') \in Nat
      BY <2>2, FS_CardinalityType
  <2> QED BY <1>1, <2>1, <2>2, <2>3, IngressAssumption DEF SharedOK
<1>7. SharedOK'
    BY <1>1, <1>3, <1>4, <1>6 DEF SharedOK
<1>8. TasksOK'
    BY <1>1, <1>3 DEF TasksOK, TaskOK
<1>9. StreamParts'
    BY <1>3, StreamsQuiet DEF IngressInd, chunkVars
<1> QED BY <1>5, <1>7, <1>8, <1>9 DEF IngressInd

-----------------------------------------------------------------------------
(* The theorems *)

LEMMA IngressInit == Init => IngressInd
<1> SUFFICES ASSUME Init PROVE IngressInd
    OBVIOUS
<1>1. TasksOK
    BY DEF Init, TasksOK, TaskOK
<1>2. SharedOK
  <2>1. IsFiniteSet(pool) /\ Cardinality(pool) = 0
      BY FS_EmptySet DEF Init
  <2> QED BY <2>1, IngressAssumption DEF Init, SharedOK
<1>3. LocksOrdered
    BY DEF Init, LocksOrdered, Free, Idle
<1>4. DOMAIN streams = {} /\ DOMAIN handed = {} /\ fed = {}
    BY DEF Init
<1>5. StreamsOK
    BY <1>4 DEF Init, StreamsOK
<1>6. CountsOK
    BY <1>4 DEF Init, CountsOK, DeliveredWhole
<1>7. BoundOK
  <2> SUFFICES ASSUME NEW c \in Chunked, NEW f \in FramesOf(c)
               PROVE  TimesHanded(<<c.sid, c.message>>) + (IF Waiting(f) THEN 1 ELSE 0)
                          <= filled[Place(f)]
      BY DEF BoundOK
  <2>1. filled[Place(f)] = 0
      BY FrameFacts DEF Init
  <2>2. TimesHanded(<<c.sid, c.message>>) = 0 /\ ~Waiting(f)
      BY <1>4 DEF TimesHanded, Waiting
  <2> QED BY <2>1, <2>2
<1>8. OwnOK
    BY <1>4 DEF OwnOK
<1> QED BY <1>1, <1>2, <1>3, <1>5, <1>6, <1>7, <1>8 DEF IngressInd, StreamParts

LEMMA IngressStep == IngressInd /\ [Next]_vars => IngressInd'
<1> SUFFICES ASSUME IngressInd, [Next]_vars PROVE IngressInd'
    OBVIOUS
<1>1. CASE UNCHANGED vars
  <2>1. StreamParts'
      BY <1>1, StreamsQuiet DEF vars, IngressInd, chunkVars
  <2>2. TasksOK' /\ SharedOK' /\ LocksOrdered'
      BY <1>1 DEF vars, IngressInd, TasksOK, TaskOK, SharedOK, LocksOrdered, Free
  <2> QED BY <2>1, <2>2 DEF IngressInd
<1>2. ASSUME NEW t \in Slots, Arrive(t) \/ Step(t) \/ Timeout(t)
      PROVE  IngressInd'
    BY <1>2, ArriveKeeps, EchoKeeps, FeedKeeps, ProcessCrystalKeeps, CheckArchitectKeeps,
       CheckBalanceKeeps, PushKeeps, BroadcastKeeps, TimeoutKeeps DEF Step
<1>3. CASE Age \/ Collect
    BY <1>3, AgeKeeps, CollectKeeps
<1>4. CASE MineBegin \/ MineEnd
    BY <1>4, MineKeeps
<1> QED BY <1>1, <1>2, <1>3, <1>4 DEF Next

(* For every set of messages, stream ids and tasks: what the reassembler   *)
(* hands on is a message that was sent in that stream, no more often than  *)
(* each of its blocks was fed, the mempool keeps its capacity, and the     *)
(* locks are taken in one order.                                           *)
THEOREM IngressCorrect == Spec => []IngressInv
<1>1. IngressInd => IngressInv
  <2> SUFFICES ASSUME IngressInd PROVE IngressInv
      OBVIOUS
  <2>1. IngressTypeOK
    <3>1. DOMAIN streams \subseteq StreamIds
        BY DEF IngressInd, StreamParts, StreamsOK, StreamOK, StreamIds
    <3>2. DOMAIN task = Slots
        BY DEF IngressInd, TasksOK
    <3>3. \A t \in Slots : task[t].at \in {"idle", "feed", "crystal", "nested", "architect",
                                           "balance", "push", "broadcast"}
        BY DEF IngressInd, TasksOK, TaskOK, Idle
    <3> QED BY <3>1, <3>2, <3>3 DEF IngressInd, SharedOK, IngressTypeOK
  <2>2. DeliveredWhole /\ LocksOrdered
      BY DEF IngressInd, StreamParts, CountsOK
  <2>3. HandedBound
    <3> SUFFICES ASSUME NEW c \in Chunked, NEW f \in FramesOf(c)
                 PROVE  TimesHanded(<<c.sid, c.message>>) <= filled[Place(f)]
        BY DEF HandedBound
    <3> DEFINE n == TimesHanded(<<c.sid, c.message>>)
               k == filled[Place(f)]
    <3>1. n \in Nat
        BY DEF IngressInd, StreamParts, CountsOK, TimesHanded
    <3>2. k \in Nat
        BY FrameFacts DEF IngressInd, StreamParts, CountsOK
    <3>3. n + (IF Waiting(f) THEN 1 ELSE 0) <= k
        BY DEF IngressInd, StreamParts, BoundOK
    <3> HIDE DEF n, k
    <3>4. n <= k
        BY <3>1, <3>2, <3>3
    <3> QED BY <3>4 DEF n, k
  <2> QED BY <2>1, <2>2, <2>3 DEF IngressInv
<1> QED BY <1>1, IngressInit, IngressStep, PTL DEF Spec

(* The reassembler loses no message: one whose chunks have all been fed    *)
(* has been handed on, unless its stream expired or met a foreign chunk.   *)
THEOREM TimelyCorrect == Spec => []TimelyDelivery
<1>1. IngressInd => TimelyDelivery
  <2> SUFFICES ASSUME IngressInd, NEW c \in Chunked, c.sid \notin spoiled,
                      FramesOf(c) # {}, FramesOf(c) \subseteq fed,
                      <<c.sid, c.message>> \notin DOMAIN handed
               PROVE  FALSE
      BY DEF TimelyDelivery
  <2>1. \A f \in FramesOf(c) : /\ c.sid \in DOMAIN streams
                               /\ streams[c.sid].hash = c.message
                               /\ f.index \in DOMAIN streams[c.sid].received
      BY DEF IngressInd, StreamParts, OwnOK, Accounted
  <2> DEFINE s == streams[c.sid]
  <2>2. c.sid \in DOMAIN streams \ spoiled /\ s.hash = c.message
      BY <2>1
  <2>3. s.total = Len(c.message) /\ Unfinished(s)
      BY <2>2 DEF IngressInd, StreamParts, StreamsOK, StreamOK, OwnOK
  <2>4. \A i \in 0..(s.total - 1) : i \in DOMAIN s.received
      BY <2>1, <2>3, FrameAt
  <2> QED BY <2>3, <2>4 DEF Unfinished
<1> QED BY <1>1, IngressInit, IngressStep, PTL DEF Spec
=============================================================================
