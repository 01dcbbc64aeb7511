---------------------------- MODULE PeerSession ----------------------------
(***************************************************************************)
(* The QUIC and WebTransport server of a node: the Noise_XX handshake with *)
(* its identity binding, the table of sessions by remote address, and the  *)
(* gossip streams, each handled by a task of its own, that are decrypted   *)
(* with the counters of whatever session the table holds by then.          *)
(*                                                                         *)
(* A connection stands for its own keys: a ciphertext opens with the state *)
(* of the connection it was made for and the nonce it was made with, and   *)
(* not otherwise.  Every endpoint of the dialling side has one address, so *)
(* that connections of one peer share it.                                  *)
(***************************************************************************)
EXTENDS Naturals, Sequences, FiniteSets

CONSTANTS
    Conns,              \* connections
    Addr,               \* connection -> remote address
    Peers,              \* who dials: connection -> credentials, see Verifies and Binds
    HeadBytesKept,      \* external: does the codec leave the frame's head in place?
    MaxStreams,         \* bound of the model: gossip streams of a connection
    Permits             \* streams handled at a time per session; 100

NoSession == "none"

ASSUME SessionAssumption ==
    /\ IsFiniteSet(Conns) /\ NoSession \notin Conns
    /\ DOMAIN Addr = Conns
    /\ Peers \subseteq [Conns -> {"good", "forged record", "foreign key"}]
    /\ HeadBytesKept \subseteq BOOLEAN
    /\ MaxStreams \in Nat /\ Permits \in Nat \ {0}

Addrs == {Addr[c] : c \in Conns}
Nonces == 0..(MaxStreams - 1)
Streams == Conns \X Nonces      \* a gossip stream: its connection and its nonce

VARIABLES
    peer,               \* connection -> credentials of the dialling side
    kept,               \* is the head still there when the frame is read?
    shake,              \* connection -> progress of the handshake, see Dial to Admit
    open,               \* connections neither side has closed
    sessions,           \* address -> connection whose session is in the table
    sendNonce,          \* connection -> send_nonce of its dialling side
    recvNonce,          \* connection -> recv_nonce of its session
    stream,             \* gossip stream -> where it is
    held,               \* gossip stream -> session its permit was taken from
    (* history, read by no action *)
    got,                \* connection -> nonces of the messages decrypted, in order
    excused             \* connections the node had a reason to lose

vars == <<peer, kept, shake, open, sessions, sendNonce, recvNonce,
          stream, held, got, excused>>
nonceVars == <<sendNonce, recvNonce>>
streamVars == <<stream, held>>

Init ==
    /\ peer \in Peers
    /\ kept \in HeadBytesKept
    /\ shake = [c \in Conns |-> "none"]
    /\ open = {}
    /\ sessions = [a \in Addrs |-> NoSession]
    /\ sendNonce = [c \in Conns |-> 0]
    /\ recvNonce = [c \in Conns |-> 0]
    /\ stream = [s \in Streams |-> "unused"]
    /\ held = [s \in Streams |-> NoSession]
    /\ got = [c \in Conns |-> <<>>]
    /\ excused = {}

-----------------------------------------------------------------------------
(* noise.rs: three messages on the first bi-stream.  Each side sends its   *)
(* node record and a signature of the other's ephemeral key.               *)

(* PrimusNR::verify, and the signature under the record's key. *)
Verifies(c) == peer[c] # "forged record"
Binds(c) == peer[c] # "foreign key"

(* Message 1 *)
Dial(c) ==
    /\ shake[c] = "none"
    /\ shake' = [shake EXCEPT ![c] = "dialled"]
    /\ open' = open \cup {c}
    /\ UNCHANGED <<peer, kept, sessions, nonceVars, streamVars, got, excused>>

(* Message 2: the node answers whoever dials. *)
Answer(c) ==
    /\ c \in open
    /\ shake[c] = "dialled"
    /\ shake' = [shake EXCEPT ![c] = "answered"]
    /\ UNCHANGED <<peer, kept, open, sessions, nonceVars, streamVars, got, excused>>

(* Message 3: the dialling side has verified the node, and has done with   *)
(* the handshake before the node has verified it.                          *)
Complete(c) ==
    /\ c \in open
    /\ shake[c] = "answered"
    /\ shake' = [shake EXCEPT ![c] = "completed"]
    /\ UNCHANGED <<peer, kept, open, sessions, nonceVars, streamVars, got, excused>>

(* Mutant: the signature of the ephemeral key is not checked. *)
AdmitsUnbound(c) == Verifies(c)

Admits(c) == Verifies(c) /\ Binds(c)

(* handle_native_connection and handle_web_connection, up to their loops:  *)
(* the session takes the place of any other from that address.  A failed   *)
(* handshake ends the handler, and the connection with it.                 *)
Admit(c) ==
    /\ c \in open
    /\ shake[c] = "completed"
    /\ \/ /\ Admits(c)
          /\ shake' = [shake EXCEPT ![c] = "up"]
          /\ sessions' = [sessions EXCEPT ![Addr[c]] = c]
          /\ recvNonce' = [recvNonce EXCEPT ![c] = 0]
          /\ UNCHANGED open
       \/ /\ ~Admits(c)
          /\ shake' = [shake EXCEPT ![c] = "failed"]
          /\ open' = open \ {c}
          /\ UNCHANGED <<sessions, recvNonce>>
    /\ UNCHANGED <<peer, kept, sendNonce, streamVars, got, excused>>

(* Either side is gone.  The handler returns; the table keeps its entry.   *)
Hangup(c) ==
    /\ c \in open
    /\ open' = open \ {c}
    /\ UNCHANGED <<peer, kept, shake, sessions, nonceVars, streamVars, got, excused>>

-----------------------------------------------------------------------------
(* PeerSession::send_gossip by the dialling side: the nonce is taken, the  *)
(* message encrypted, and only then a stream opened; calls overlap.        *)

Seal(c) ==
    LET s == <<c, sendNonce[c]>> IN
    /\ shake[c] \in {"completed", "up"} /\ c \in open
    /\ sendNonce[c] < MaxStreams
    /\ sendNonce' = [sendNonce EXCEPT ![c] = @ + 1]
    /\ stream' = [stream EXCEPT ![s] = "sealed"]
    /\ UNCHANGED <<peer, kept, shake, open, sessions, recvNonce, held, got, excused>>

OpenStream(s) ==
    /\ stream[s] = "sealed"
    /\ s[1] \in open
    /\ stream' = [stream EXCEPT ![s] = "opened"]
    /\ UNCHANGED <<peer, kept, shake, open, sessions, nonceVars, held, got, excused>>

(* The dispatch loop takes the session of the address as it is now, and    *)
(* starts a task; without a session the stream is dropped.                 *)
Accept(s) ==
    LET d == sessions[Addr[s[1]]] IN
    /\ stream[s] = "opened"
    /\ shake[s[1]] = "up" /\ s[1] \in open
    /\ stream' = [stream EXCEPT ![s] = IF d = NoSession THEN "dropped" ELSE "queued"]
    /\ held' = [held EXCEPT ![s] = d]
    /\ UNCHANGED <<peer, kept, shake, open, sessions, nonceVars, got, excused>>

InHand(d) == {s \in Streams : held[s] = d /\ stream[s] \in {"handled", "failing"}}

(* stream_semaphore, then the frame is read *)
TakePermit(s) ==
    /\ stream[s] = "queued"
    /\ Cardinality(InHand(held[s])) < Permits
    /\ stream' = [stream EXCEPT ![s] = "handled"]
    /\ UNCHANGED <<peer, kept, shake, open, sessions, nonceVars, held, got, excused>>

(* Mutant: the node counts from one. *)
OpensFromOne(d, s) == d = s[1] /\ recvNonce[d] + 1 = s[2]

(* read_message with the session's next nonce *)
Opens(d, s) == d = s[1] /\ recvNonce[d] = s[2]

(* The envelope is parsed, and MempoolIngress::push_bytes takes the        *)
(* reaction, or one of them refuses it: too large, malformed, or its       *)
(* sector is full.                                                         *)
PushBytes(s) ==
    \/ /\ stream' = [stream EXCEPT ![s] = "done"]
       /\ UNCHANGED excused
    \/ /\ stream' = [stream EXCEPT ![s] = "failing"]
       /\ excused' = excused \cup {s[1]}

(* handle_gossip_stream, until a frame has been read: the stream ended     *)
(* before its frame was whole (a call of send_gossip that a time-out       *)
(* cancelled in the middle of its writes ends so), the frame is over the   *)
(* limit, or shorter than its head.  No session is looked at.              *)
Unread(s) ==
    /\ stream' = [stream EXCEPT ![s] = "failing"]
    /\ excused' = excused \cup {s[1]}
    /\ UNCHANGED <<recvNonce, got>>

(* handle_gossip_stream, once there is a frame: the type in the head is    *)
(* tested first; then the session is looked up again and its counter       *)
(* advanced, whether or not the message can be opened.  A message that is  *)
(* malformed, or a reaction the mempool refuses, is an error too.          *)
Read(s) ==
    LET c == s[1]
        d == sessions[Addr[c]]
    IN
    /\ recvNonce' = IF kept /\ d # NoSession THEN [recvNonce EXCEPT ![d] = @ + 1]
                    ELSE recvNonce
    /\ \/ /\ kept /\ d # NoSession /\ Opens(d, s)
          /\ got' = [got EXCEPT ![c] = Append(@, s[2])]
          /\ PushBytes(s)
       \/ /\ ~(kept /\ d # NoSession /\ Opens(d, s))
          /\ stream' = [stream EXCEPT ![s] = "failing"]
          /\ excused' = IF kept /\ Len(got[c]) = s[2] THEN excused ELSE excused \cup {c}
          /\ UNCHANGED got

HandleGossip(s) ==
    /\ stream[s] = "handled"
    /\ Unread(s) \/ Read(s)
    /\ UNCHANGED <<peer, kept, shake, open, sessions, sendNonce, held>>

(* Mutant: the session is removed and the connection left open. *)
DropSession(s) ==
    /\ stream[s] = "failing"
    /\ stream' = [stream EXCEPT ![s] = "dropped"]
    /\ sessions' = [sessions EXCEPT ![Addr[s[1]]] = NoSession]
    /\ UNCHANGED <<peer, kept, shake, open, nonceVars, held, got, excused>>

(* Mutant: the connection is closed and the session left in the table. *)
CloseOnly(s) ==
    /\ stream[s] = "failing"
    /\ stream' = [stream EXCEPT ![s] = "dropped"]
    /\ open' = open \ {s[1]}
    /\ UNCHANGED <<peer, kept, shake, sessions, nonceVars, held, got, excused>>

(* The error branch of the task: the entry of the address is removed,      *)
(* whichever connection it belongs to, and the stream's connection closed. *)
DropConnection(s) ==
    /\ stream[s] = "failing"
    /\ stream' = [stream EXCEPT ![s] = "dropped"]
    /\ sessions' = [sessions EXCEPT ![Addr[s[1]]] = NoSession]
    /\ open' = open \ {s[1]}
    /\ UNCHANGED <<peer, kept, shake, nonceVars, held, got, excused>>

-----------------------------------------------------------------------------
Handshake(c) == Dial(c) \/ Answer(c) \/ Complete(c) \/ Admit(c)
Gossip(s) == OpenStream(s) \/ Accept(s) \/ TakePermit(s) \/ HandleGossip(s)

Next ==
    \/ \E c \in Conns : Handshake(c) \/ Hangup(c) \/ Seal(c)
    \/ \E s \in Streams : Gossip(s) \/ DropConnection(s)

(* A task that was started runs on. *)
Fairness ==
    \A s \in Streams :
        WF_vars(TakePermit(s)) /\ WF_vars(HandleGossip(s)) /\ WF_vars(DropConnection(s))

Spec == Init /\ [][Next]_vars /\ Fairness

-----------------------------------------------------------------------------
SessionTypeOK ==
    /\ shake \in [Conns -> {"none", "dialled", "answered", "completed", "up", "failed"}]
    /\ open \subseteq Conns
    /\ sessions \in [Addrs -> Conns \cup {NoSession}]
    /\ \A a \in Addrs : sessions[a] # NoSession => Addr[sessions[a]] = a
    /\ sendNonce \in [Conns -> 0..MaxStreams]
    /\ recvNonce \in [Conns -> Nat]
    /\ \A d \in Conns : Cardinality(InHand(d)) <= Permits

(* Whatever is decrypted comes from a peer whose record and whose key were *)
(* checked; a session stands for such a peer only.                         *)
GossipAuthentic ==
    \A c \in Conns : got[c] # <<>> \/ shake[c] = "up" =>
        peer[c] = "good" /\ shake[c] = "up"

(* No message is taken twice or after a later one, however the tasks of a  *)
(* connection, and of others from the same address, overlap.  One may be   *)
(* skipped: a stream of another connection advances the counter too.       *)
GossipInOrder ==
    \A c \in Conns : \A i, j \in DOMAIN got[c] : i < j => got[c][i] < got[c][j]

(* Every message decrypted is authentic and in the order it was sent, and  *)
(* the counters and permits are those of the sessions that exist.          *)
SessionInv == SessionTypeOK /\ GossipAuthentic /\ GossipInOrder

(* The node drops a connection only for a reason: a frame that did not     *)
(* arrive whole and of a legal size, a head it could not read, a stream    *)
(* handled out of turn, a message that was malformed or refused by the     *)
(* mempool, or another connection from the same address.                   *)
OrderlyPeerKept ==
    \A s \in Streams : stream[s] = "failing" =>
        \/ s[1] \in excused
        \/ \E d \in Conns \ {s[1]} : Addr[d] = Addr[s[1]] /\ shake[d] = "up"

(* server.rs: "Decrypt failures cause nonce desync. The connection must be *)
(* closed immediately so the next message from this peer uses a new        *)
(* handshake."                                                             *)
DesyncCloses == \A s \in Streams : stream[s] = "failing" ~> s[1] \notin open

(* Once a stream of a connection has failed and been dealt with, no task   *)
(* that was waiting opens another of its messages, and a new session of    *)
(* the address does not either: the error cannot be stepped over.          *)
SilentAfterError ==
    [][\A s, r \in Streams : stream[s] = "dropped" /\ r[1] = s[1] =>
           got'[r[1]] = got[r[1]]]_vars

-----------------------------------------------------------------------------
(* server.rs: "the connection itself is tracked via the sessions map". *)
OpenIsTracked ==
    \A c \in Conns : c \in open /\ shake[c] = "up" => sessions[Addr[c]] = c

(* server.rs: "handle_gossip_stream - uni-stream gossip ingress -> mempool" *)
GossipReachesMempool ==
    \A s \in Streams : stream[s] = "failing" => got[s[1]] # <<>>

=============================================================================
