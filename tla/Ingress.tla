------------------------------ MODULE Ingress ------------------------------
(***************************************************************************)
(* What happens to a frame that reaches a node over TCP: the tasks         *)
(* handle_peer_logic starts, the reassembly of chunked messages, the       *)
(* entry checks of push_bytes, the mempool, the relaying by gossip, and    *)
(* the mining loop and the eviction task that compete with them for the    *)
(* three locks (reassembler, engine, mempool).                             *)
(*                                                                         *)
(* A message is the sequence of blocks chunk_message cuts it into; hashes  *)
(* are injective, so the hash of a message is the message.  Bytes that are *)
(* neither a reaction, a crystal nor an envelope fail to parse.            *)
(***************************************************************************)
EXTENDS Naturals, Sequences, SequencesExt, FiniteSets

CONSTANTS
    Blocks,             \* what chunk_message cuts a message into
    Reactions,          \* messages that parse as a SignedReaction
    Crystals,           \* messages that parse as a Crystal
    Envelopes,          \* messages that parse as a ChunkEnvelope themselves
    Architects,         \* reactions sent by the architect
    Chunked,            \* [via, sid, message]: sent as ChunkEnvelopes
    Direct,             \* [via, message]: sent as they are
    Slots,              \* tasks that run at a time: permits of the semaphores
    Miner,              \* the mining loop, as a holder of locks
    APP_MAX_MESSAGE,    \* blocks in a message
    Capacity,           \* reactions the mempool takes
    MaxCopies,          \* bound of the model: arrivals of one frame
    MaxFrames           \* bound of the model: different frames that arrive

Nobody == "nobody"

ASSUME IngressAssumption ==
    /\ Miner \notin Slots /\ Nobody \notin Slots
    /\ Architects \subseteq Reactions
    /\ \A c \in Chunked : c.message \in Seq(Blocks)
    /\ APP_MAX_MESSAGE \in Nat /\ Capacity \in Nat /\ MaxCopies \in Nat /\ MaxFrames \in Nat

(* chunk_message: nothing for a message that is too large. *)
ChunkMessage(via, sid, m) ==
    IF Len(m) > APP_MAX_MESSAGE THEN {}
    ELSE {[via |-> via, chunk |-> TRUE, sid |-> sid, index |-> i - 1,
           total |-> Len(m), hash |-> m, message |-> <<m[i]>>] : i \in DOMAIN m}

Whole(via, m) == [via |-> via, chunk |-> FALSE, message |-> m]

Frames ==
    (UNION {ChunkMessage(c.via, c.sid, c.message) : c \in Chunked})
        \cup {Whole(d.via, d.message) : d \in Direct}
StreamIds == {c.sid : c \in Chunked}

(* Where a chunk goes, and what it puts there. *)
Place(f) == <<f.sid, f.index, f.message>>
Places == {Place(f) : f \in {g \in Frames : g.chunk}}

VARIABLES
    arrived,            \* frame -> copies that have arrived
    task,               \* slot -> the task in it
    locks,              \* lock -> its holder
    streams,            \* stream id -> PartialStream
    pool,               \* reactions in the mempool
    seen, echoes,       \* gossip: identifiers, local copies to process
    spread,             \* reactions broadcast to the peers
    (* history, read by no action *)
    fed,                \* frames that were fed to the reassembler
    filled,             \* stream id, index and block -> times it was fed
    handed,             \* stream id and message -> times it was handed on
    spoiled,            \* streams that expired or met a foreign chunk
    cut                 \* reactions whose submission timed out after the push

vars == <<arrived, task, locks, streams, pool, seen, echoes, spread,
          fed, filled, handed, spoiled, cut>>
netVars == <<arrived, seen, echoes>>
poolVars == <<pool, spread, cut>>
chunkVars == <<streams, fed, filled, spoiled>>

Idle == [at |-> "idle"]
Free(l) == locks[l] = Nobody

Init ==
    /\ arrived = [f \in Frames |-> 0]
    /\ task = [t \in Slots |-> Idle]
    /\ locks = [l \in {"chunks", "engine", "pool"} |-> Nobody]
    /\ streams = [s \in {} |-> {}]
    /\ pool = {} /\ spread = {} /\ cut = {}
    /\ seen = {} /\ echoes = {}
    /\ fed = {} /\ filled = [x \in Places |-> 0]
    /\ handed = [x \in {} |-> 0]
    /\ spoiled = {}

-----------------------------------------------------------------------------
(* Tasks *)

Moved(t, at, m) == [task EXCEPT ![t].at = at, ![t].message = m]

(* A task returns.  A frame that was taken without an error is given to    *)
(* GossipService::spread, which has it processed a second time by the node *)
(* itself unless its identifier is known.                                  *)
Return(t, ok) ==
    LET f == task[t].frame
        fresh == f.via # "submit" /\ ok /\ ~task[t].echo /\ f \notin seen
    IN
    /\ task' = [task EXCEPT ![t] = Idle]
    /\ seen' = IF fresh THEN seen \cup {f} ELSE seen
    /\ echoes' = IF fresh THEN echoes \cup {f} ELSE echoes

(* Where the handler of a frame begins.  SubmitReaction passes the gravity *)
(* shield, which takes whole reactions only; push_bytes refuses what is    *)
(* too large and what is neither a reaction nor a chunk.  What is refused  *)
(* here has changed nothing: a stuttering step.                            *)
FirstStep(f) ==
    CASE f.chunk -> IF f.via = "submit" THEN "refused" ELSE "feed"
      [] ~f.chunk /\ f.via = "crystal" -> "crystal"
      [] ~f.chunk /\ f.via # "crystal"
            -> IF f.message \in Reactions /\ Len(f.message) <= APP_MAX_MESSAGE
               THEN "architect" ELSE "refused"

Start(t, f, echo) ==
    /\ FirstStep(f) # "refused"
    /\ task' = [task EXCEPT ![t] =
          [at |-> FirstStep(f), frame |-> f, echo |-> echo, message |-> f.message]]

Arrive(t) ==
    /\ task[t].at = "idle"
    /\ \E f \in Frames :
        /\ arrived[f] < MaxCopies
        /\ arrived' = [arrived EXCEPT ![f] = @ + 1]
        /\ Cardinality({g \in Frames : arrived'[g] # 0}) <= MaxFrames
        /\ Start(t, f, FALSE)
    /\ UNCHANGED <<locks, chunkVars, poolVars, seen, echoes, handed>>

Echo(t) ==
    /\ task[t].at = "idle"
    /\ \E f \in echoes :
        /\ echoes' = echoes \ {f}
        /\ Start(t, f, TRUE)
    /\ UNCHANGED <<locks, chunkVars, poolVars, arrived, seen, handed>>

-----------------------------------------------------------------------------
(* ChunkReassembler *)

(* evict_expired; streams that had not completed are spoiled. *)
Living == {s \in DOMAIN streams : ~streams[s].old}
Evicted == DOMAIN streams \ Living

Received(s, e) ==
    [i \in DOMAIN s.received \cup {e.index} |->
        IF i = e.index THEN e.message ELSE s.received[i]]

(* The stream of an envelope once that envelope has been entered: the      *)
(* first envelope fixes its length and its hash.                           *)
Entered(e) ==
    LET s == IF e.sid \in Living THEN streams[e.sid]
             ELSE [total |-> e.total, hash |-> e.hash,
                   received |-> [i \in {} |-> <<>>], old |-> FALSE]
    IN  [s EXCEPT !.received = Received(s, e)]

(* Mutant: the last chunk is not waited for. *)
CompleteEarly(s) == Cardinality(DOMAIN s.received) + 1 >= s.total

Complete(s) == Cardinality(DOMAIN s.received) = s.total

(* The chunks in order of their index; a missing one counts as empty. *)
Reassembled(s) ==
    FlattenSeq([i \in 1..s.total |->
        IF i - 1 \in DOMAIN s.received THEN s.received[i - 1] ELSE <<>>])

(* Mutant: the hash is not compared. *)
IntactUnchecked(s) == TRUE

Intact(s) == Reassembled(s) = s.hash

Foreign(e) == e.sid \in Living /\ streams[e.sid].hash # e.hash

(* What the map holds after feed: a completed stream is gone. *)
Remaining(e) ==
    [s \in IF Complete(Entered(e)) THEN Living \ {e.sid} ELSE Living \cup {e.sid} |->
        IF s = e.sid THEN Entered(e) ELSE streams[s]]

TimesHanded(x) == IF x \in DOMAIN handed THEN handed[x] ELSE 0

HandedOn(x) ==
    [y \in DOMAIN handed \cup {x} |->
        IF y = x THEN TimesHanded(x) + 1 ELSE handed[y]]

(* feed, under the reassembler's lock.  push_bytes has given that lock     *)
(* back before it goes on, and refuses a message that is not a reaction.   *)
(* on_crystal calls itself on the message with the lock in hand: a message *)
(* that is an envelope in its turn makes it await the lock it holds, and   *)
(* from "nested" there is no step.                                         *)
Feed(t) ==
    LET e == task[t].frame
        s == Entered(e)
        whole == Complete(s) /\ Intact(s)
        m == Reassembled(s)
    IN
    /\ task[t].at = "feed"
    /\ Free("chunks")
    /\ streams' = Remaining(e)
    /\ fed' = fed \cup {e}
    /\ filled' = [filled EXCEPT ![Place(e)] = @ + 1]
    /\ spoiled' = spoiled \cup Evicted \cup (IF Foreign(e) THEN {e.sid} ELSE {})
    /\ handed' = IF whole THEN HandedOn(<<e.sid, m>>) ELSE handed
    /\ \/ /\ ~whole \/ (e.via = "reaction" /\ m \notin Reactions)
          /\ Return(t, ~whole)
          /\ UNCHANGED locks
       \/ /\ whole /\ e.via = "crystal"
          /\ task' = Moved(t, IF m \in Envelopes THEN "nested" ELSE "crystal", m)
          /\ locks' = [locks EXCEPT !["chunks"] = t]
          /\ UNCHANGED <<seen, echoes>>
       \/ /\ whole /\ e.via = "reaction" /\ m \in Reactions
          /\ task' = Moved(t, "architect", m)
          /\ UNCHANGED <<locks, seen, echoes>>
    /\ UNCHANGED <<arrived, poolVars>>

(* CHUNK_STREAM_TTL_SECS have passed since the first chunk of a stream. *)
Age ==
    /\ \E s \in DOMAIN streams :
        /\ ~streams[s].old
        /\ streams' = [streams EXCEPT ![s].old = TRUE]
    /\ UNCHANGED <<arrived, task, locks, pool, seen, echoes, spread,
                   fed, filled, handed, spoiled, cut>>

(* Mutant: only feed evicts. *)
CollectNothing ==
    /\ FALSE
    /\ UNCHANGED vars

(* The background task that evicts every CHUNK_STREAM_TTL_SECS. *)
Collect ==
    /\ Free("chunks")
    /\ Evicted # {}
    /\ streams' = [s \in Living |-> streams[s]]
    /\ spoiled' = spoiled \cup Evicted
    /\ UNCHANGED <<arrived, task, locks, pool, seen, echoes, spread,
                   fed, filled, handed, cut>>

-----------------------------------------------------------------------------
(* on_crystal with the bytes of a crystal, from an envelope or not: they   *)
(* are parsed, and process_network_crystal runs under the engine's lock;   *)
(* either may fail.  The reassembler's lock goes back if it was held.      *)
ProcessCrystal(t) ==
    /\ task[t].at = "crystal"
    /\ Free("engine")
    /\ \E ok \in IF task[t].message \in Crystals THEN BOOLEAN ELSE {FALSE} : Return(t, ok)
    /\ locks' = [locks EXCEPT !["chunks"] = IF @ = t THEN Nobody ELSE @]
    /\ UNCHANGED <<arrived, chunkVars, poolVars, handed>>

-----------------------------------------------------------------------------
(* push_bytes, from the phantom-sender check on *)

CheckArchitect(t) ==
    /\ task[t].at = "architect"
    /\ Free("engine")
    /\ task' = Moved(t, IF task[t].message \in Architects THEN "push" ELSE "balance",
                     task[t].message)
    /\ UNCHANGED <<locks, chunkVars, netVars, poolVars, handed>>

(* Mutant: the balance is looked up under the mempool's lock. *)
CheckBalanceInPool(t) ==
    /\ task[t].at = "balance"
    /\ UNCHANGED <<arrived, chunkVars, poolVars, handed>>
    /\ \/ /\ Free("pool")
          /\ locks' = [locks EXCEPT !["pool"] = t]
          /\ UNCHANGED <<task, seen, echoes>>
       \/ /\ locks["pool"] = t /\ Free("engine")
          /\ locks' = [locks EXCEPT !["pool"] = Nobody]
          /\ \/ /\ task' = Moved(t, "push", task[t].message)
                /\ UNCHANGED <<seen, echoes>>
             \/ Return(t, TRUE)

(* The sender has mass in the database as it is now, or has not: then the  *)
(* reaction is dropped, and the caller told Ok.                            *)
CheckBalance(t) ==
    /\ task[t].at = "balance"
    /\ Free("engine")
    /\ \/ /\ task' = Moved(t, "push", task[t].message)
          /\ UNCHANGED <<seen, echoes>>
       \/ Return(t, TRUE)
    /\ UNCHANGED <<arrived, locks, chunkVars, poolVars, handed>>

(* Mutant: a reaction that is new is not passed on. *)
PushQuiet(t) ==
    LET m == task[t].message IN
    /\ task[t].at = "push"
    /\ Free("pool")
    /\ \/ /\ Cardinality(pool) >= Capacity
          /\ Return(t, FALSE)
          /\ UNCHANGED pool
       \/ /\ Cardinality(pool) < Capacity
          /\ pool' = pool \cup {m}
          /\ Return(t, TRUE)
    /\ UNCHANGED <<arrived, locks, chunkVars, spread, cut, handed>>

(* mempool.push: refused, known or new. *)
Push(t) ==
    LET m == task[t].message IN
    /\ task[t].at = "push"
    /\ Free("pool")
    /\ \/ /\ Cardinality(pool) >= Capacity
          /\ Return(t, FALSE)
          /\ UNCHANGED pool
       \/ /\ Cardinality(pool) < Capacity /\ m \in pool
          /\ Return(t, TRUE)
          /\ UNCHANGED pool
       \/ /\ Cardinality(pool) < Capacity /\ m \notin pool
          /\ pool' = pool \cup {m}
          /\ task' = Moved(t, "broadcast", m)
          /\ UNCHANGED <<seen, echoes>>
    /\ UNCHANGED <<arrived, locks, chunkVars, spread, cut, handed>>

(* The size of the pool is read for the log, then the reaction is sent.    *)
(* The lock of the network handle is held for that only, and               *)
(* broadcast_message starts a task per peer and awaits none of them.       *)
Broadcast(t) ==
    /\ task[t].at = "broadcast"
    /\ Free("pool")
    /\ spread' = spread \cup {task[t].message}
    /\ Return(t, TRUE)
    /\ UNCHANGED <<arrived, locks, chunkVars, pool, cut, handed>>

(* The ten seconds of SubmitReaction are over while push_bytes awaits a    *)
(* lock: it is dropped where it stands.                                    *)
Timeout(t) ==
    /\ task[t].at \in {"architect", "balance", "push", "broadcast"}
    /\ task[t].frame.via = "submit"
    /\ cut' = IF task[t].at = "broadcast" THEN cut \cup {task[t].message} ELSE cut
    /\ Return(t, FALSE)
    /\ UNCHANGED <<arrived, locks, chunkVars, pool, spread, handed>>

-----------------------------------------------------------------------------
(* The mining loop holds the engine while it drains the mempool and mines. *)

MineBegin ==
    /\ Free("engine")
    /\ locks' = [locks EXCEPT !["engine"] = Miner]
    /\ UNCHANGED <<arrived, task, streams, pool, seen, echoes, spread,
                   fed, filled, handed, spoiled, cut>>

MineEnd ==
    /\ locks["engine"] = Miner /\ Free("pool")
    /\ pool' \in SUBSET pool
    /\ locks' = [locks EXCEPT !["engine"] = Nobody]
    /\ UNCHANGED <<arrived, task, streams, seen, echoes, spread,
                   fed, filled, handed, spoiled, cut>>

Step(t) ==
    \/ Echo(t) \/ Feed(t) \/ ProcessCrystal(t)
    \/ CheckArchitect(t) \/ CheckBalance(t) \/ Push(t) \/ Broadcast(t)

Next ==
    \/ \E t \in Slots : Arrive(t) \/ Step(t) \/ Timeout(t)
    \/ Age \/ Collect
    \/ MineBegin \/ MineEnd

(* The mutexes of tokio are handed out first come, first served, and the   *)
(* scheduler runs every task; the eviction task never ends.                *)
Fairness ==
    /\ \A t \in Slots : SF_vars(Step(t))
    /\ WF_vars(MineEnd)
    /\ WF_vars(Collect)

Spec == Init /\ [][Next]_vars /\ Fairness

-----------------------------------------------------------------------------
IngressTypeOK ==
    /\ arrived \in [Frames -> 0..MaxCopies]
    /\ DOMAIN task = Slots
    /\ \A t \in Slots : task[t].at \in {"idle", "feed", "crystal", "nested", "architect",
                                       "balance", "push", "broadcast"}
    /\ locks \in [{"chunks", "engine", "pool"} -> Slots \cup {Miner, Nobody}]
    /\ DOMAIN streams \subseteq StreamIds
    /\ pool \subseteq Reactions /\ Cardinality(pool) <= Capacity
    /\ spread \subseteq Reactions /\ cut \subseteq Reactions
    /\ echoes \subseteq seen /\ seen \subseteq Frames

FramesOf(c) == ChunkMessage(c.via, c.sid, c.message)

(* Chunks may arrive twice, out of order, mixed with those of a message    *)
(* that happens to have the same stream id, and be processed by several    *)
(* tasks at a time: what is handed on is a message that was sent in this   *)
(* stream, and no more often than each of its blocks was fed in its place. *)
DeliveredWhole ==
    \A x \in DOMAIN handed : \E c \in Chunked : <<c.sid, c.message>> = x
HandedBound ==
    \A c \in Chunked : \A f \in FramesOf(c) :
        TimesHanded(<<c.sid, c.message>>) <= filled[Place(f)]

(* Nobody awaits a lock while holding the mempool; only the mining loop    *)
(* does so holding the engine, and only a task with a crystal holding the  *)
(* reassembler, which awaits the engine: the locks are taken in one order. *)
(* A task with a nested envelope awaits what it holds itself.              *)
LocksOrdered ==
    /\ Free("pool")
    /\ locks["engine"] \in {Nobody, Miner}
    /\ locks["chunks"] \in
           {Nobody} \cup {t \in Slots : task[t].at \in {"crystal", "nested"}}
    /\ \A t \in Slots : task[t].at = "nested" => locks["chunks"] = t

(* Chunks of several messages and copies of them never combine into a      *)
(* message nobody sent, or into more deliveries than there were copies,    *)
(* and no two tasks await each other in a circle.                          *)
IngressInv == IngressTypeOK /\ DeliveredWhole /\ HandedBound /\ LocksOrdered

(* No message is lost by the reassembler itself: one whose chunks have all *)
(* been fed has been handed on, unless its stream expired or met a foreign *)
(* chunk.  A message that is empty or too large is not sent.               *)
TimelyDelivery ==
    \A c \in Chunked :
        c.sid \notin spoiled /\ FramesOf(c) # {} /\ FramesOf(c) \subseteq fed
            => <<c.sid, c.message>> \in DOMAIN handed

(* A task has taken a nested envelope: the reassembler is lost to all. *)
Blocked == \E t \in Slots : task[t].at = "nested"

(* The reassembler does not keep a partial stream that has expired, even   *)
(* when no chunk comes any more, unless a nested envelope has blocked it.  *)
ExpiredStreamsGo == \A s \in StreamIds : s \in Evicted ~> s \notin Evicted \/ Blocked

(* The locks of the engine and of the mempool never block everyone, and    *)
(* that of the reassembler only after a nested envelope, and then only the *)
(* tasks that have a chunk to feed: every other task that was started      *)
(* ends, crystals and reactions that arrive later included.                *)
TasksEnd ==
    \A t \in Slots : task[t].at # "idle" ~>
        task[t].at = "idle" \/ (Blocked /\ task[t].at \in {"feed", "nested"})

(* A reaction that enters the mempool is sent to the peers, unless it was  *)
(* submitted by a client and the time ran out just then.                   *)
PooledIsSpread == \A r \in Reactions : r \in pool ~> r \in spread \cup cut

-----------------------------------------------------------------------------
(* main.rs, of the message on_crystal has put together: "All chunks        *)
(* received - process as complete message".  A nested envelope is never    *)
(* processed, and the lock does not come back.                             *)
ReassemblerComesFree == locks["chunks"] # Nobody ~> Free("chunks")

=============================================================================
