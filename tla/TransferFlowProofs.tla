------------------------- MODULE TransferFlowProofs -------------------------
(***************************************************************************)
(* A wallet spends each nonce once, and nothing that was refused, for any  *)
(* number of commands given in any of the clients, any amounts, masses and *)
(* fees, and chains of any length, although peers write other nonces into  *)
(* the reactions they were sent.                                           *)
(***************************************************************************)
EXTENDS TransferFlow, FiniteSetTheorems, TLAPS

Refusals == {"no state", "insufficient", "not built", "full"}
Early == {"unused", "fetch", "check", "build"}
Waiting == {"queued", "checked", "pushed"}

(* A command's record, and the same with some fields replaced. *)
Cmd(pc, amount, snap, rx, retried, out) ==
    [pc |-> pc, amount |-> amount, snap |-> snap, rx |-> rx,
     retried |-> retried, out |-> out]
IsCmd(c) == c = Cmd(c.pc, c.amount, c.snap, c.rx, c.retried, c.out) /\ ~c.retried

(* What holds of command c, of the node's handler j for it, given via v:   *)
(* a reaction is signed once, from the amount and the state that were      *)
(* checked, and it reaches the handler after that; nobody tries again.     *)
CmdOK(c, j, v) ==
    /\ IsCmd(c)
    /\ j \in {"none", "done"} \cup Waiting
    /\ c.pc \in Early \cup {"submit", "over"}
    /\ c.pc \in Early => c.rx = NoRx /\ j = "none" /\ c.out = "none"
    /\ c.pc = "submit" => c.out = "none"
    /\ c.pc # "unused" => c.amount \in Amounts
    /\ c.pc # "unused" /\ v = "legacy" => c.amount # 0
    /\ c.rx # NoRx => /\ c.amount # 0 /\ c.rx.amount = c.amount /\ c.rx.signer = "owner"
                      /\ v # "legacy" => c.amount + PROTOCOL_MIN_FEE <= c.snap.mass
    /\ j # "none" => c.rx # NoRx /\ v # "legacy"
    /\ j \in Waiting => c.out \in {"none", "unreachable"}

(* The command's reaction has been let into the mempool or was there, and  *)
(* its user has not been told that it was refused.                         *)
Sent(c, j, v) ==
    /\ c.rx # NoRx
    /\ c.out \notin Refusals
    /\ j \in {"pushed", "done"} \/ v = "legacy"

(* The reaction, up to its nonce, is of such a command; or, if it was      *)
(* executed, the architect may have signed it.                             *)
Known(rx) == \E k \in Cmds : Hash(cmd[k].rx) = Hash(rx) /\ Sent(cmd[k], job[k], via[k])
Granted(rx) == rx.signer = "architect" \/ Known(rx)

CmdsOK ==
    /\ cmd = [k \in Cmds |-> cmd[k]] /\ job = [k \in Cmds |-> job[k]]
    /\ \A k \in Cmds : CmdOK(cmd[k], job[k], via[k])

AllKnown ==
    /\ \A rx \in pool \cup batch \cup spread : Known(rx)
    /\ \A i \in DOMAIN paid : Granted(paid[i])

PoolOK ==
    /\ IsFiniteSet(pool) /\ Cardinality(pool) <= Capacity
    /\ \A r, q \in pool : Hash(r) = Hash(q) => r = q

AtomOK ==
    /\ atom = [mass |-> atom.mass, nonce |-> atom.nonce, last |-> atom.last]
    /\ atom.mass \in 0..MaxU64 /\ atom.nonce = Len(paid)
    /\ \E S : paid \in Seq(S)
    /\ \A i \in DOMAIN paid : paid[i].nonce = i - 1

MiningOK ==
    /\ height \in 0..MaxHeight /\ mining \in BOOLEAN
    /\ mining => height < MaxHeight
    /\ mining \/ batch = {}

FlowInd == CmdsOK /\ AllKnown /\ PoolOK /\ AtomOK /\ MiningOK

-----------------------------------------------------------------------------
(* The updates of one command *)

Becomes(k, c) == [cmd EXCEPT ![k] = c]

LEMMA SetPc ==
    ASSUME NEW p, NEW a, NEW s, NEW r, NEW f, NEW o, NEW x
    PROVE  [Cmd(p, a, s, r, f, o) EXCEPT !.pc = x] = Cmd(x, a, s, r, f, o)
BY DEF Cmd

LEMMA SetAmount ==
    ASSUME NEW p, NEW a, NEW s, NEW r, NEW f, NEW o, NEW x
    PROVE  [Cmd(p, a, s, r, f, o) EXCEPT !.amount = x] = Cmd(p, x, s, r, f, o)
BY DEF Cmd

LEMMA SetSnap ==
    ASSUME NEW p, NEW a, NEW s, NEW r, NEW f, NEW o, NEW x
    PROVE  [Cmd(p, a, s, r, f, o) EXCEPT !.snap = x] = Cmd(p, a, x, r, f, o)
BY DEF Cmd

LEMMA SetRx ==
    ASSUME NEW p, NEW a, NEW s, NEW r, NEW f, NEW o, NEW x
    PROVE  [Cmd(p, a, s, r, f, o) EXCEPT !.rx = x] = Cmd(p, a, s, x, f, o)
BY DEF Cmd

LEMMA SetOut ==
    ASSUME NEW p, NEW a, NEW s, NEW r, NEW f, NEW o, NEW x
    PROVE  [Cmd(p, a, s, r, f, o) EXCEPT !.out = x] = Cmd(p, a, s, r, f, x)
BY DEF Cmd

LEMMA EndIs ==
    ASSUME CmdsOK, NEW k \in Cmds, NEW out
    PROVE  End(k, out) = Becomes(k, Cmd("over", cmd[k].amount, cmd[k].snap, cmd[k].rx,
                                        cmd[k].retried, out))
<1> DEFINE c == cmd[k]
           d == [c EXCEPT !.pc = "over"]
           e == [d EXCEPT !.out = out]
<1>1. c = Cmd(c.pc, c.amount, c.snap, c.rx, c.retried, c.out)
    BY DEF CmdsOK, CmdOK, IsCmd
<1>2. End(k, out) = [cmd EXCEPT ![k] = e]
    BY DEF End, CmdsOK
<1> HIDE DEF c
<1>3. d = Cmd("over", c.amount, c.snap, c.rx, c.retried, c.out)
  <2>1. d = [Cmd(c.pc, c.amount, c.snap, c.rx, c.retried, c.out) EXCEPT !.pc = "over"]
      BY <1>1
  <2> QED BY <2>1, SetPc
<1> HIDE DEF d
<1>4. e = Cmd("over", c.amount, c.snap, c.rx, c.retried, out)
  <2>1. e = [Cmd("over", c.amount, c.snap, c.rx, c.retried, c.out) EXCEPT !.out = out]
      BY <1>3
  <2> QED BY <2>1, SetOut
<1> HIDE DEF e
<1> QED BY <1>2, <1>4 DEF Becomes, c

(* One command and its handler change as they may: the others are as they  *)
(* were, and what was sent stays sent.                                     *)
Moves(k, c, j) ==
    /\ cmd' = Becomes(k, c) /\ job' = [job EXCEPT ![k] = j]
    /\ CmdOK(c, j, via[k])
    /\ Sent(cmd[k], job[k], via[k]) => Sent(c, j, via[k]) /\ c.rx = cmd[k].rx

LEMMA MovesKeeps ==
    ASSUME CmdsOK, NEW k \in Cmds, NEW c, NEW j, Moves(k, c, j), via' = via
    PROVE  /\ CmdsOK'
           /\ \A rx : Known(rx) => Known(rx)'
           /\ Sent(c, j, via[k]) => Known(c.rx)'
<1>1. /\ cmd' = [cmd EXCEPT ![k] = c] /\ job' = [job EXCEPT ![k] = j]
      /\ CmdOK(c, j, via[k])
      /\ Sent(cmd[k], job[k], via[k]) => Sent(c, j, via[k]) /\ c.rx = cmd[k].rx
    BY DEF Moves, Becomes
<1>2. /\ cmd'[k] = c /\ job'[k] = j
      /\ \A i \in Cmds : i # k => cmd'[i] = cmd[i] /\ job'[i] = job[i]
      /\ cmd' = [i \in Cmds |-> cmd'[i]] /\ job' = [i \in Cmds |-> job'[i]]
    BY <1>1 DEF CmdsOK
<1>3. CmdsOK'
    BY <1>1, <1>2 DEF CmdsOK
<1>4. ASSUME NEW rx, Known(rx) PROVE Known(rx)'
  <2>1. PICK i \in Cmds : Hash(cmd[i].rx) = Hash(rx) /\ Sent(cmd[i], job[i], via[i])
      BY <1>4 DEF Known
  <2>2. Hash(cmd'[i].rx) = Hash(rx) /\ Sent(cmd'[i], job'[i], via[i])
      BY <1>1, <1>2, <2>1
  <2> QED BY <2>2 DEF Known
<1>5. Sent(c, j, via[k]) => Known(c.rx)'
    BY <1>2 DEF Known
<1> QED BY <1>3, <1>4, <1>5

LEMMA CmdFields ==
    ASSUME NEW p, NEW a, NEW s, NEW r, NEW f, NEW o, ~f
    PROVE  LET c == Cmd(p, a, s, r, f, o)
           IN  IsCmd(c) /\ c.pc = p /\ c.amount = a /\ c.snap = s /\ c.rx = r /\ c.out = o
BY DEF Cmd, IsCmd

(* A command that is over, with the answer out. *)
LEMMA EndMoves ==
    ASSUME CmdsOK, NEW k \in Cmds, NEW out, cmd' = End(k, out),
           NEW j, job' = [job EXCEPT ![k] = j],
           cmd[k].pc # "unused",
           \/ cmd[k].pc \in Early /\ j = "none"
           \/ /\ cmd[k].pc = "submit" /\ out \notin Refusals
              /\ j = job[k] /\ out = "unreachable"
           \/ cmd[k].pc = "submit" /\ j = "done" /\ job[k] # "none"
              /\ (out \in Refusals => job[k] = "checked")
    PROVE  \E c : /\ Moves(k, c, j) /\ c.rx = cmd[k].rx
                  /\ out \notin Refusals /\ j = "done" => Sent(c, j, via[k])
<1> DEFINE o == cmd[k]
           c == Cmd("over", o.amount, o.snap, o.rx, o.retried, out)
<1>1. cmd' = Becomes(k, c)
    BY EndIs
<1>2. CmdOK(o, job[k], via[k]) /\ ~o.retried
    BY DEF CmdsOK, CmdOK, IsCmd
<1>3. o = cmd[k]
    OBVIOUS
<1> HIDE DEF o
<1>4. IsCmd(c) /\ c.pc = "over" /\ c.amount = o.amount /\ c.snap = o.snap /\ c.rx = o.rx /\ c.out = out
    BY <1>2, CmdFields
<1> HIDE DEF c
<1>5. CmdOK(c, j, via[k])
    BY <1>2, <1>3, <1>4 DEF CmdOK, Early, Waiting, Refusals
<1>6. Sent(o, job[k], via[k]) => Sent(c, j, via[k]) /\ c.rx = o.rx
    BY <1>2, <1>3, <1>4 DEF CmdOK, Sent, Early, Waiting, Refusals
<1>7. out \notin Refusals /\ j = "done" => Sent(c, j, via[k])
    BY <1>2, <1>3, <1>4 DEF CmdOK, Sent, Early, Waiting, Refusals
<1>8. Moves(k, c, j)
    BY <1>1, <1>3, <1>5, <1>6 DEF Moves
<1> QED BY <1>3, <1>4, <1>7, <1>8

(* The handler answers. *)
LEMMA ReplyMoves ==
    ASSUME CmdsOK, NEW k \in Cmds, NEW reply, Reply(k, reply), job[k] \in Waiting,
           reply \in {"accepted", "full", "timed out"},
           reply = "full" => job[k] = "checked"
    PROVE  \E c : /\ Moves(k, c, "done") /\ c.rx = cmd[k].rx
                  /\ reply # "full" => Sent(c, "done", via[k])
<1> USE DEF Refusals
<1>1. job' = [job EXCEPT ![k] = "done"] /\ CmdOK(cmd[k], job[k], via[k])
    BY DEF Reply, CmdsOK
<1>2. CASE cmd[k].pc = "submit"
  <2>1. cmd' = End(k, reply)
      BY <1>2 DEF Reply, Retries
  <2>2. job[k] # "none" /\ cmd[k].pc # "unused"
      BY <1>2 DEF Waiting
  <2>3. \E c : /\ Moves(k, c, "done") /\ c.rx = cmd[k].rx
               /\ reply \notin Refusals /\ "done" = "done" => Sent(c, "done", via[k])
      BY <1>1, <1>2, <2>1, <2>2, EndMoves
  <2> QED BY <2>3
<1>3. CASE cmd[k].pc # "submit"
  <2>1. cmd' = cmd
      BY <1>3 DEF Reply
  <2>2. cmd' = Becomes(k, cmd[k])
      BY <2>1 DEF Becomes, CmdsOK
  <2>3. CmdOK(cmd[k], "done", via[k]) /\ Sent(cmd[k], "done", via[k])
      BY <1>1 DEF CmdOK, Sent, Waiting
  <2> QED BY <1>1, <2>2, <2>3 DEF Moves
<1> QED BY <1>2, <1>3

-----------------------------------------------------------------------------
(* What one command's step does to the reactions that are about. *)
CmdStep(k) ==
    \E c, j :
        /\ Moves(k, c, j)
        /\ pool' # pool \/ spread' # spread => Sent(c, j, via[k])
        /\ pool' \subseteq pool \cup {c.rx} /\ spread' \subseteq spread \cup {c.rx}

LEMMA CmdStepKeeps ==
    ASSUME CmdsOK, AllKnown, NEW k \in Cmds, CmdStep(k),
           via' = via, batch' = batch, paid' = paid
    PROVE  CmdsOK' /\ AllKnown'
<1>1. PICK c, j : /\ Moves(k, c, j)
                  /\ pool' # pool \/ spread' # spread => Sent(c, j, via[k])
                  /\ pool' \subseteq pool \cup {c.rx} /\ spread' \subseteq spread \cup {c.rx}
    BY DEF CmdStep
<1>2. /\ CmdsOK' /\ \A rx : Known(rx) => Known(rx)'
      /\ Sent(c, j, via[k]) => Known(c.rx)'
    BY <1>1, MovesKeeps
<1>3. ASSUME NEW rx \in pool' \cup batch' \cup spread' PROVE Known(rx)'
    BY <1>1, <1>2 DEF AllKnown
<1>4. ASSUME NEW i \in DOMAIN paid' PROVE Granted(paid[i])'
  <2>1. \A rx : rx = paid[i] => Granted(rx)
      BY DEF AllKnown
  <2>2. \A rx : rx = paid[i] => Granted(rx)'
      BY <1>2, <2>1 DEF Granted
  <2> QED BY <2>2 DEF Granted, Known
<1>5. AllKnown'
    BY <1>3, <1>4 DEF AllKnown
<1> QED BY <1>2, <1>5

(* A step of a client before its reaction is signed: pc moves on, and the  *)
(* amount or the state may be replaced.                                    *)
LEMMA EarlyMoves ==
    ASSUME CmdsOK, NEW k \in Cmds, NEW c, cmd' = Becomes(k, c), job' = job,
           pool' = pool, spread' = spread, cmd[k].pc \in Early,
           IsCmd(c), c.pc \in Early, c.rx = NoRx, c.out = "none", c.amount \in Amounts,
           via[k] = "legacy" => c.amount # 0
    PROVE  CmdStep(k)
<1>1. job' = [job EXCEPT ![k] = "none"] /\ job[k] = "none" /\ cmd[k].rx = NoRx
    BY DEF CmdsOK, CmdOK
<1>2. CmdOK(c, "none", via[k])
    BY DEF CmdOK, Early, Waiting
<1>3. ~Sent(cmd[k], job[k], via[k])
    BY <1>1 DEF Sent
<1>4. Moves(k, c, "none")
    BY <1>1, <1>2, <1>3 DEF Moves
<1> QED BY <1>4 DEF CmdStep

LEMMA EarlyEnds ==
    ASSUME CmdsOK, NEW k \in Cmds, NEW out, cmd' = End(k, out), job' = job,
           pool' = pool, spread' = spread, cmd[k].pc \in Early, cmd[k].pc # "unused"
    PROVE  CmdStep(k)
<1>1. job[k] = "none" /\ job' = [job EXCEPT ![k] = "none"]
    BY DEF CmdsOK, CmdOK
<1>2. PICK c : Moves(k, c, "none")
    BY <1>1, EndMoves
<1> QED BY <1>2 DEF CmdStep

-----------------------------------------------------------------------------
(* The actions of a command *)

LEMMA CommandStep ==
    ASSUME CmdsOK, NEW k \in Cmds, Command(k)
    PROVE  CmdStep(k)
<1> DEFINE o == cmd[k]
<1>1. PICK a \in Amounts : /\ via[k] = "legacy" => a # 0
                           /\ cmd' = [cmd EXCEPT ![k].amount = a, ![k].pc = "fetch"]
    BY DEF Command, Local
<1>2. /\ o.pc = "unused" /\ o.rx = NoRx /\ o.out = "none" /\ ~o.retried
      /\ o = Cmd(o.pc, o.amount, o.snap, o.rx, o.retried, o.out)
      /\ job' = job /\ pool' = pool /\ spread' = spread
    BY DEF Command, CmdsOK, CmdOK, IsCmd, Early
<1> DEFINE d == [o EXCEPT !.amount = a]
           c == [d EXCEPT !.pc = "fetch"]
<1>3. cmd' = Becomes(k, c)
    BY <1>1 DEF CmdsOK, Becomes
<1>0. o = cmd[k]
    OBVIOUS
<1> HIDE DEF o
<1>4. d = Cmd(o.pc, a, o.snap, o.rx, o.retried, o.out)
  <2>1. d = [Cmd(o.pc, o.amount, o.snap, o.rx, o.retried, o.out) EXCEPT !.amount = a]
      BY <1>2
  <2> QED BY <2>1, SetAmount
<1> HIDE DEF d
<1>5. c = Cmd("fetch", a, o.snap, o.rx, o.retried, o.out)
  <2>1. c = [Cmd(o.pc, a, o.snap, o.rx, o.retried, o.out) EXCEPT !.pc = "fetch"]
      BY <1>4
  <2> QED BY <2>1, SetPc
<1> HIDE DEF c
<1>6. IsCmd(c) /\ c.pc = "fetch" /\ c.amount = a /\ c.rx = NoRx /\ c.out = "none"
    BY <1>2, <1>5, CmdFields
<1> QED BY <1>0, <1>1, <1>2, <1>3, <1>6, EarlyMoves DEF Early

(* The next pc before the reaction is signed, and perhaps another state. *)
LEMMA AdvanceStep ==
    ASSUME CmdsOK, NEW k \in Cmds, NEW pc, NEW snap,
           \/ cmd' = [cmd EXCEPT ![k].pc = pc, ![k].snap = snap]
           \/ cmd' = [cmd EXCEPT ![k].pc = pc],
           cmd[k].pc \in Early, cmd[k].pc # "unused", pc \in Early,
           job' = job, pool' = pool, spread' = spread
    PROVE  CmdStep(k)
<1> DEFINE o == cmd[k]
           d == [o EXCEPT !.pc = pc]
           c == [d EXCEPT !.snap = snap]
<1>1. cmd' = Becomes(k, c) \/ cmd' = Becomes(k, d)
    BY DEF CmdsOK, Becomes
<1>2. /\ o.rx = NoRx /\ o.out = "none" /\ ~o.retried /\ o.amount \in Amounts
      /\ via[k] = "legacy" => o.amount # 0
      /\ o = Cmd(o.pc, o.amount, o.snap, o.rx, o.retried, o.out)
    BY DEF CmdsOK, CmdOK, IsCmd
<1>0. o = cmd[k]
    OBVIOUS
<1> HIDE DEF o
<1>4. d = Cmd(pc, o.amount, o.snap, o.rx, o.retried, o.out)
  <2>1. d = [Cmd(o.pc, o.amount, o.snap, o.rx, o.retried, o.out) EXCEPT !.pc = pc]
      BY <1>2
  <2> QED BY <2>1, SetPc
<1> HIDE DEF d
<1>5. c = Cmd(pc, o.amount, snap, o.rx, o.retried, o.out)
  <2>1. c = [Cmd(pc, o.amount, o.snap, o.rx, o.retried, o.out) EXCEPT !.snap = snap]
      BY <1>4
  <2> QED BY <2>1, SetSnap
<1> HIDE DEF c
<1>6. IsCmd(c) /\ c.pc = pc /\ c.amount = o.amount /\ c.rx = NoRx /\ c.out = "none"
    BY <1>2, <1>5, CmdFields
<1>7. IsCmd(d) /\ d.pc = pc /\ d.amount = o.amount /\ d.rx = NoRx /\ d.out = "none"
    BY <1>2, <1>4, CmdFields
<1>8. CASE cmd' = Becomes(k, c)
    BY <1>0, <1>2, <1>6, <1>8, EarlyMoves
<1>9. CASE cmd' = Becomes(k, d)
    BY <1>0, <1>2, <1>7, <1>9, EarlyMoves
<1> QED BY <1>1, <1>8, <1>9

LEMMA FailedStep ==
    ASSUME CmdsOK, NEW k \in Cmds, cmd' = FetchFailed(k), cmd[k].pc = "fetch",
           job' = job, pool' = pool, spread' = spread
    PROVE  CmdStep(k)
<1>1. CASE cmd' = End(k, "no state")
    BY <1>1, EarlyEnds DEF Early
<1> DEFINE snap == [Nothing EXCEPT !.mass = Wrapped(cmd[k].amount + PROTOCOL_MIN_FEE + DebugMass)]
<1>2. CASE cmd' = [cmd EXCEPT ![k].pc = "check", ![k].snap = snap]
  <2> HIDE DEF snap
  <2> QED BY <1>2, AdvanceStep DEF Early
<1> QED BY <1>1, <1>2 DEF FetchFailed

LEMMA FetchStep ==
    ASSUME CmdsOK, NEW k \in Cmds, FetchAnswer(k) \/ FetchTimeout(k)
    PROVE  CmdStep(k)
<1>1. /\ cmd[k].pc = "fetch" /\ job' = job /\ pool' = pool /\ spread' = spread
      /\ ~cmd[k].retried
    BY DEF FetchAnswer, FetchTimeout, CmdsOK, CmdOK, IsCmd
<1>2. CASE cmd' = FetchFailed(k)
    BY <1>1, <1>2, FailedStep
<1>3. CASE cmd' = [cmd EXCEPT ![k].pc = "check", ![k].snap = atom]
    BY <1>1, <1>3, AdvanceStep DEF Early
<1> QED BY <1>1, <1>2, <1>3 DEF FetchAnswer, FetchTimeout

LEMMA CheckStep ==
    ASSUME CmdsOK, NEW k \in Cmds, Check(k)
    PROVE  CmdStep(k)
<1>1. cmd[k].pc = "check" /\ job' = job /\ pool' = pool /\ spread' = spread
    BY DEF Check
<1>2. CASE cmd' = End(k, "insufficient")
    BY <1>1, <1>2, EarlyEnds DEF Early
<1>3. CASE cmd' = [cmd EXCEPT ![k].pc = "build"]
    BY <1>1, <1>3, AdvanceStep DEF Early
<1> QED BY <1>2, <1>3 DEF Check

LEMMA RxFacts ==
    ASSUME NEW c, c.amount # 0
    PROVE  Rx(c) # NoRx /\ Rx(c).amount = c.amount /\ Rx(c).signer = "owner"
BY DEF Rx, NoRx

LEMMA BuildStep ==
    ASSUME CmdsOK, NEW k \in Cmds, Build(k)
    PROVE  CmdStep(k)
<1> DEFINE o == cmd[k]
           rx == Rx(o)
<1>1. /\ o.pc = "build" /\ pool' = pool /\ spread' = spread /\ via[k] # "legacy"
      /\ o.rx = NoRx /\ o.out = "none" /\ ~o.retried /\ o.amount \in Amounts
      /\ o = Cmd(o.pc, o.amount, o.snap, o.rx, o.retried, o.out) /\ job[k] = "none"
    BY DEF Build, CmdsOK, CmdOK, IsCmd, Early
<1>2. CASE cmd' = End(k, "not built") /\ job' = job
    BY <1>1, <1>2, EarlyEnds DEF Early
<1>3. CASE /\ Buildable(o)
           /\ cmd' = [cmd EXCEPT ![k].pc = "submit", ![k].rx = Rx(cmd[k])]
           /\ job' = [job EXCEPT ![k] = "queued"]
  <2> DEFINE d == [o EXCEPT !.pc = "submit"]
             c == [d EXCEPT !.rx = rx]
  <2>1. cmd' = Becomes(k, c)
      BY <1>3 DEF CmdsOK, Becomes
  <2>2. o.amount # 0 /\ o.amount + PROTOCOL_MIN_FEE <= o.snap.mass
      BY <1>3 DEF Buildable
  <2>3. rx # NoRx /\ rx.amount = o.amount /\ rx.signer = "owner"
      BY <2>2, RxFacts
  <2>0. o = cmd[k]
      OBVIOUS
  <2> HIDE DEF o, rx
  <2>4. d = Cmd("submit", o.amount, o.snap, o.rx, o.retried, o.out)
    <3>1. d = [Cmd(o.pc, o.amount, o.snap, o.rx, o.retried, o.out) EXCEPT !.pc = "submit"]
        BY <1>1
    <3> QED BY <3>1, SetPc
  <2> HIDE DEF d
  <2>5. c = Cmd("submit", o.amount, o.snap, rx, o.retried, o.out)
    <3>1. c = [Cmd("submit", o.amount, o.snap, o.rx, o.retried, o.out) EXCEPT !.rx = rx]
        BY <2>4
    <3> QED BY <3>1, SetRx
  <2> HIDE DEF c
  <2>6. /\ IsCmd(c) /\ c.pc = "submit" /\ c.amount = o.amount /\ c.rx = rx /\ c.out = "none"
        /\ c.snap = o.snap
      BY <1>1, <2>5, CmdFields
  <2>7. CmdOK(c, "queued", via[k])
      BY <1>1, <2>2, <2>3, <2>6 DEF CmdOK, Early, Waiting
  <2>8. ~Sent(o, job[k], via[k])
      BY <1>1 DEF Sent
  <2>9. Moves(k, c, "queued")
      BY <1>3, <2>0, <2>1, <2>7, <2>8 DEF Moves
  <2> QED BY <1>1, <2>9 DEF CmdStep
<1> QED BY <1>2, <1>3 DEF Build

LEMMA DisconnectStep ==
    ASSUME CmdsOK, NEW k \in Cmds, Disconnect(k)
    PROVE  CmdStep(k)
<1>1. /\ cmd[k].pc = "submit" /\ cmd' = End(k, "unreachable") /\ job' = job
      /\ pool' = pool /\ spread' = spread
    BY DEF Disconnect
<1>2. job' = [job EXCEPT ![k] = job[k]] /\ "unreachable" \notin Refusals
    BY <1>1 DEF CmdsOK, Refusals
<1>3. PICK c : Moves(k, c, job[k])
    BY <1>1, <1>2, EndMoves
<1> QED BY <1>1, <1>3 DEF CmdStep

(* The node's handler goes on without an answer. *)
LEMMA JobMoves ==
    ASSUME CmdsOK, NEW k \in Cmds, NEW j \in {"checked", "pushed"}, cmd' = cmd,
           job' = [job EXCEPT ![k] = j], job[k] \in {"queued", "checked"}
    PROVE  /\ Moves(k, cmd[k], j)
           /\ j = "pushed" => Sent(cmd[k], j, via[k])
<1>1. cmd' = Becomes(k, cmd[k]) /\ CmdOK(cmd[k], job[k], via[k])
    BY DEF Becomes, CmdsOK
<1>2. CmdOK(cmd[k], j, via[k]) /\ ~Sent(cmd[k], job[k], via[k])
    BY <1>1 DEF CmdOK, Sent, Waiting
<1>3. j = "pushed" => Sent(cmd[k], j, via[k])
    BY <1>1 DEF CmdOK, Sent, Waiting, Refusals
<1> QED BY <1>1, <1>2, <1>3 DEF Moves

LEMMA CheckBalanceStep ==
    ASSUME CmdsOK, NEW k \in Cmds, CheckBalance(k)
    PROVE  CmdStep(k)
<1>1. job[k] = "queued" /\ pool' = pool /\ spread' = spread
    BY DEF CheckBalance
<1>2. CASE job' = [job EXCEPT ![k] = "checked"] /\ cmd' = cmd
  <2>1. Moves(k, cmd[k], "checked")
      BY <1>1, <1>2, JobMoves
  <2> QED BY <1>1, <2>1 DEF CmdStep
<1>3. CASE Reply(k, "accepted")
  <2>1. PICK c : Moves(k, c, "done")
      BY <1>1, <1>3, ReplyMoves DEF Waiting
  <2> QED BY <1>1, <2>1 DEF CmdStep
<1> QED BY <1>2, <1>3 DEF CheckBalance

(* The mempool takes a reaction it has room for and does not hold. *)
LEMMA PoolGrows ==
    ASSUME PoolOK, NEW rx, Cardinality(pool) < Capacity, ~Pooled(rx),
           pool' = pool \cup {rx}
    PROVE  PoolOK'
<1>1. rx \notin pool /\ \A r \in pool : Hash(r) # Hash(rx)
    BY DEF Pooled
<1>2. Cardinality(pool) \in Nat /\ Capacity \in Nat
    BY FS_CardinalityType, FlowAssumption DEF PoolOK
<1>3. IsFiniteSet(pool') /\ Cardinality(pool') = Cardinality(pool) + 1
    BY <1>1, FS_AddElement DEF PoolOK
<1>4. \A r, q \in pool' : Hash(r) = Hash(q) => r = q
    BY <1>1 DEF PoolOK
<1> QED BY <1>2, <1>3, <1>4 DEF PoolOK

LEMMA PushStep ==
    ASSUME CmdsOK, PoolOK, NEW k \in Cmds, Push(k)
    PROVE  CmdStep(k) /\ PoolOK'
<1>1. job[k] = "checked" /\ spread' = spread
    BY DEF Push
<1>2. ASSUME NEW reply \in {"accepted", "full"}, Reply(k, reply), pool' = pool
      PROVE  CmdStep(k) /\ PoolOK'
  <2>1. PICK c : Moves(k, c, "done")
      BY <1>1, <1>2, ReplyMoves DEF Waiting
  <2> QED BY <1>1, <1>2, <2>1 DEF CmdStep, PoolOK
<1>3. CASE /\ Cardinality(pool) < Capacity /\ ~Pooled(cmd[k].rx)
           /\ pool' = pool \cup {cmd[k].rx}
           /\ job' = [job EXCEPT ![k] = "pushed"] /\ cmd' = cmd
  <2>1. Moves(k, cmd[k], "pushed") /\ Sent(cmd[k], "pushed", via[k])
      BY <1>1, <1>3, JobMoves
  <2>2. PoolOK'
      BY <1>3, PoolGrows
  <2>3. CmdStep(k)
      BY <1>1, <1>3, <2>1 DEF CmdStep
  <2> QED BY <2>2, <2>3
<1> QED BY <1>1, <1>2, <1>3 DEF Push

LEMMA BroadcastStep ==
    ASSUME CmdsOK, NEW k \in Cmds, Broadcast(k)
    PROVE  CmdStep(k)
<1>1. /\ job[k] = "pushed" /\ spread' = spread \cup {cmd[k].rx} /\ pool' = pool
      /\ Reply(k, "accepted")
    BY DEF Broadcast
<1>2. PICK c : /\ Moves(k, c, "done") /\ c.rx = cmd[k].rx
               /\ "accepted" # "full" => Sent(c, "done", via[k])
    BY <1>1, ReplyMoves DEF Waiting
<1> QED BY <1>1, <1>2 DEF CmdStep

LEMMA TimeoutStep ==
    ASSUME CmdsOK, NEW k \in Cmds, SubmitTimeout(k)
    PROVE  CmdStep(k)
<1>1. job[k] \in Waiting /\ spread' = spread /\ pool' = pool /\ Reply(k, "timed out")
    BY DEF SubmitTimeout, Waiting
<1>2. PICK c : Moves(k, c, "done")
    BY <1>1, ReplyMoves
<1> QED BY <1>1, <1>2 DEF CmdStep

LEMMA LegacyStep ==
    ASSUME CmdsOK, PoolOK, NEW k \in Cmds, LegacySend(k)
    PROVE  CmdStep(k) /\ PoolOK'
<1> DEFINE o == cmd[k]
           rx == Rx(o)
           full == Cardinality(pool) >= Capacity
           new == ~full /\ ~Pooled(rx)
           out == IF full THEN "full" ELSE IF new THEN "accepted" ELSE "duplicate"
           d == Cmd("over", o.amount, o.snap, o.rx, o.retried, out)
           c == [d EXCEPT !.rx = rx]
<1>1. /\ o.pc = "build" /\ spread' = spread /\ via[k] = "legacy" /\ job' = job
      /\ o.rx = NoRx /\ o.out = "none" /\ ~o.retried /\ o.amount \in Amounts /\ o.amount # 0
      /\ job[k] = "none"
    BY DEF LegacySend, CmdsOK, CmdOK, IsCmd, Early
<1>2. /\ pool' = IF new THEN pool \cup {rx} ELSE pool
      /\ cmd' = [End(k, out) EXCEPT ![k].rx = rx]
    BY DEF LegacySend, BuildTransfer
<1>3. End(k, out) = Becomes(k, d)
    BY EndIs
<1>4. cmd' = Becomes(k, c)
    BY <1>2, <1>3 DEF CmdsOK, Becomes
<1>5. rx # NoRx /\ rx.amount = o.amount /\ rx.signer = "owner"
    BY <1>1, RxFacts
<1>6. out \in {"full", "accepted", "duplicate"} /\ (out = "full" => ~new)
    OBVIOUS
<1>7. ASSUME new PROVE PoolOK'
  <2>1. Cardinality(pool) < Capacity
      BY <1>7, FS_CardinalityType, FlowAssumption DEF PoolOK
  <2> HIDE DEF rx
  <2> QED BY <1>2, <1>7, <2>1, PoolGrows
<1>8. ASSUME ~new PROVE PoolOK'
  <2> HIDE DEF new
  <2> QED BY <1>2, <1>8 DEF PoolOK
<1>0. o = cmd[k]
    OBVIOUS
<1> HIDE DEF o, rx, new, full, out
<1>9. c = Cmd("over", o.amount, o.snap, rx, o.retried, out)
    BY SetRx
<1> HIDE DEF c, d
<1>10. /\ IsCmd(c) /\ c.pc = "over" /\ c.amount = o.amount /\ c.rx = rx /\ c.out = out
       /\ c.snap = o.snap
    BY <1>1, <1>9, CmdFields
<1>11. CmdOK(c, "none", via[k])
    BY <1>1, <1>5, <1>10 DEF CmdOK, Early, Waiting
<1>12. ~Sent(o, job[k], via[k])
    BY <1>1 DEF Sent
<1>13. job' = [job EXCEPT ![k] = "none"]
    BY <1>1 DEF CmdsOK
<1>14. Moves(k, c, "none")
    BY <1>0, <1>4, <1>11, <1>12, <1>13 DEF Moves
<1>15. new => Sent(c, "none", via[k])
    BY <1>1, <1>5, <1>6, <1>10 DEF Sent, Refusals
<1>16. CmdStep(k)
    BY <1>1, <1>2, <1>10, <1>14, <1>15 DEF CmdStep
<1> QED BY <1>7, <1>8, <1>16

-----------------------------------------------------------------------------
(* The chain *)

LEMMA Fees == PROTOCOL_MIN_FEE \in Nat /\ Reward \in Nat /\ Deposit \in Nat /\ MaxU64 \in Nat
BY FlowAssumption

LEMMA KnownAmount ==
    ASSUME CmdsOK, NEW rx, Known(rx)
    PROVE  rx.amount \in Amounts /\ rx.amount \in Nat /\ rx.amount # 0
<1>1. PICK k \in Cmds : Hash(cmd[k].rx) = Hash(rx) /\ Sent(cmd[k], job[k], via[k])
    BY DEF Known
<1>2. cmd[k].rx # NoRx /\ CmdOK(cmd[k], job[k], via[k])
    BY <1>1 DEF Sent, CmdsOK
<1>3. cmd[k].pc # "unused" /\ cmd[k].rx.amount = cmd[k].amount /\ cmd[k].amount # 0
    BY <1>2 DEF CmdOK, Early
<1>4. cmd[k].amount \in Amounts
    BY <1>2, <1>3 DEF CmdOK
<1>5. \A a \in Amounts : a \in Nat
    BY FlowAssumption
<1>6. rx.amount = cmd[k].amount
    BY <1>1, <1>3 DEF Hash
<1> QED BY <1>3, <1>4, <1>5, <1>6

LEMMA Paying ==
    ASSUME AtomOK, NEW rx, rx.amount \in Nat, Valid(rx),
           NEW m \in 0..MaxU64, atom.mass <= m,
           atom' = [mass |-> m - (rx.amount + PROTOCOL_MIN_FEE), nonce |-> rx.nonce + 1,
                    last |-> Hash(rx)],
           paid' = Append(paid, rx)
    PROVE  /\ AtomOK'
           /\ DOMAIN paid' = 1..(Len(paid) + 1) /\ DOMAIN paid = 1..Len(paid)
           /\ Len(paid) \in Nat /\ paid'[Len(paid) + 1] = rx
           /\ \A i \in DOMAIN paid : paid'[i] = paid[i]
<1>1. PICK S : paid \in Seq(S)
    BY DEF AtomOK
<1>2. paid \in Seq(S \cup {rx}) /\ rx \in S \cup {rx}
    BY <1>1
<1>3. /\ paid' \in Seq(S \cup {rx}) /\ Len(paid') = Len(paid) + 1 /\ Len(paid) \in Nat
      /\ DOMAIN paid' = 1..(Len(paid) + 1) /\ DOMAIN paid = 1..Len(paid)
      /\ paid'[Len(paid) + 1] = rx /\ \A i \in 1..Len(paid) : paid'[i] = paid[i]
    BY <1>2
<1>5. /\ rx.nonce = atom.nonce /\ rx.amount + PROTOCOL_MIN_FEE <= atom.mass
      /\ atom.nonce = Len(paid) /\ atom.mass \in 0..MaxU64
    BY DEF Valid, AtomOK
<1>6. atom'.mass \in 0..MaxU64 /\ atom'.nonce = Len(paid')
    BY <1>3, <1>5, Fees
<1>7. atom' = [mass |-> atom'.mass, nonce |-> atom'.nonce, last |-> atom'.last]
    OBVIOUS
<1>8. ASSUME NEW i \in DOMAIN paid' PROVE paid'[i].nonce = i - 1
    BY <1>3, <1>5 DEF AtomOK
<1>9. AtomOK'
    BY <1>3, <1>6, <1>7, <1>8 DEF AtomOK
<1> QED BY <1>3, <1>9

(* What is about after a payment was about before, and the payment is the  *)
(* wallet's.                                                               *)
LEMMA PayingKnown ==
    ASSUME AllKnown, AtomOK, NEW rx, Granted(rx),
           UNCHANGED <<cmd, job, via>>,
           pool' \cup batch' \cup spread' \subseteq pool \cup batch \cup spread,
           \/ paid' = paid
           \/ /\ DOMAIN paid' = 1..(Len(paid) + 1) /\ DOMAIN paid = 1..Len(paid)
              /\ Len(paid) \in Nat /\ paid'[Len(paid) + 1] = rx
              /\ \A i \in DOMAIN paid : paid'[i] = paid[i]
    PROVE  AllKnown'
<1>1. \A r : Known(r)' <=> Known(r)
    BY DEF Known
<1>2. \A r \in pool' \cup batch' \cup spread' : Known(r)'
    BY <1>1 DEF AllKnown
<1>3. ASSUME NEW i \in DOMAIN paid' PROVE Granted(paid[i])'
  <2>1. \A r : r = paid'[i] => Granted(r)
      BY DEF AllKnown
  <2>2. \A r : r = paid'[i] => Granted(r)'
      BY <1>1, <2>1 DEF Granted
  <2> QED BY <2>2 DEF Granted, Known
<1> QED BY <1>2, <1>3 DEF AllKnown

LEMMA RewardedFacts ==
    ASSUME AtomOK
    PROVE  /\ Rewarded = [mass |-> Rewarded.mass, nonce |-> Rewarded.nonce, last |-> Rewarded.last]
           /\ Rewarded.mass \in 0..MaxU64 /\ atom.mass <= Rewarded.mass
           /\ Rewarded.nonce = atom.nonce
<1>1. /\ atom = [mass |-> atom.mass, nonce |-> atom.nonce, last |-> atom.last]
      /\ atom.mass \in 0..MaxU64
    BY DEF AtomOK
<1>2. CASE Rewarded = atom
    BY <1>1, <1>2, Fees
<1> DEFINE m == Capped(atom.mass + Reward)
           l == <<0, height + 1>>
<1>3. CASE Rewarded = [atom EXCEPT !.mass = m, !.last = l]
  <2>1. m \in 0..MaxU64 /\ atom.mass <= m
      BY <1>1, Fees DEF Capped
  <2> HIDE DEF m, l
  <2>2. Rewarded = [mass |-> m, nonce |-> atom.nonce, last |-> l]
      BY <1>1, <1>3
  <2> QED BY <2>1, <2>2
<1> QED BY <1>2, <1>3 DEF Rewarded

(* An atom that only gains mass, or keeps it. *)
LEMMA Gaining ==
    ASSUME AtomOK, paid' = paid, NEW m \in 0..MaxU64, NEW l,
           atom' = [mass |-> m, nonce |-> atom.nonce, last |-> l]
    PROVE  AtomOK'
BY DEF AtomOK

LEMMA SolidifyStep ==
    ASSUME FlowInd, Solidify
    PROVE  FlowInd'
<1>1. /\ mining /\ ~mining' /\ batch' = {} /\ pool' = pool /\ spread' = spread
      /\ UNCHANGED <<owner, via, cmd, job>> /\ mining' \in BOOLEAN
    BY DEF Solidify
<1>2. CmdsOK' /\ PoolOK'
    BY <1>1 DEF FlowInd, CmdsOK, PoolOK
<1>3. pool' \cup batch' \cup spread' \subseteq pool \cup batch \cup spread
    BY <1>1
<1>k. \A r : Known(r)' <=> Known(r)
    BY <1>1 DEF Known
<1>s. ASSUME paid' = paid PROVE AllKnown'
  <2>1. \A r \in pool' \cup batch' \cup spread' : Known(r)'
      BY <1>3, <1>k DEF AllKnown, FlowInd
  <2>2. ASSUME NEW i \in DOMAIN paid' PROVE Granted(paid[i])'
    <3>1. \A r : r = paid[i] => Granted(r)
        BY <1>s DEF AllKnown, FlowInd
    <3>2. \A r : r = paid[i] => Granted(r)'
        BY <1>k, <3>1 DEF Granted
    <3> QED BY <1>s, <3>2 DEF Granted, Known
  <2> QED BY <2>1, <2>2 DEF AllKnown
<1>4. CASE UNCHANGED <<atom, height, paid>>
  <2>1. MiningOK' /\ AtomOK'
      BY <1>1, <1>4 DEF FlowInd, MiningOK, AtomOK
  <2> QED BY <1>2, <1>4, <1>s, <2>1 DEF FlowInd
<1>5. ASSUME NEW kept \in {{}} \cup {{rx} : rx \in batch}, Crystal({rx \in kept : Valid(rx)})
      PROVE  FlowInd'
  <2> DEFINE rxs == {rx \in kept : Valid(rx)}
  <2>1. height' = height + 1 /\ MiningOK'
      BY <1>1, <1>5, FlowAssumption DEF Crystal, FlowInd, MiningOK
  <2>2. CASE atom' = Rewarded /\ paid' = paid
    <3> DEFINE m == Rewarded.mass
               l == Rewarded.last
    <3>1. m \in 0..MaxU64 /\ atom' = [mass |-> m, nonce |-> atom.nonce, last |-> l]
        BY <2>2, RewardedFacts DEF FlowInd
    <3> HIDE DEF m, l
    <3>2. AtomOK'
        BY <2>2, <3>1, Gaining DEF FlowInd
    <3> QED BY <1>2, <1>s, <2>1, <2>2, <3>2 DEF FlowInd
  <2>3. ASSUME NEW rx \in rxs,
               atom' = [mass |-> Rewarded.mass - (rx.amount + PROTOCOL_MIN_FEE),
                        nonce |-> rx.nonce + 1, last |-> Hash(rx)],
               paid' = Append(paid, rx)
        PROVE  FlowInd'
    <3>1. rx \in batch /\ Valid(rx) /\ Granted(rx) /\ rx.amount \in Nat
        BY <1>5, KnownAmount DEF FlowInd, AllKnown, Granted
    <3> DEFINE m == Rewarded.mass
    <3>2. m \in 0..MaxU64 /\ atom.mass <= m
        BY RewardedFacts DEF FlowInd
    <3>3. atom' = [mass |-> m - (rx.amount + PROTOCOL_MIN_FEE),
                   nonce |-> rx.nonce + 1, last |-> Hash(rx)]
        BY <2>3
    <3> HIDE DEF m
    <3>4. /\ AtomOK'
          /\ DOMAIN paid' = 1..(Len(paid) + 1) /\ DOMAIN paid = 1..Len(paid)
          /\ Len(paid) \in Nat /\ paid'[Len(paid) + 1] = rx
          /\ \A i \in DOMAIN paid : paid'[i] = paid[i]
        BY <2>3, <3>1, <3>2, <3>3, Paying DEF FlowInd
    <3>5. AllKnown'
        BY <1>1, <1>3, <3>1, <3>4, PayingKnown DEF FlowInd
    <3> QED BY <1>2, <2>1, <3>4, <3>5 DEF FlowInd
  <2> QED BY <1>5, <2>2, <2>3 DEF Crystal
<1> QED BY <1>4, <1>5 DEF Solidify

(* Another nonce does not change the hash. *)
LEMMA RenoncedKnown ==
    ASSUME FlowInd, NEW rx \in Renonced
    PROVE  Known(rx)
<1>1. PICK q \in spread, n \in 0..(MaxHeight - 1) : rx = [q EXCEPT !.nonce = n]
    BY DEF Renonced
<1>2. Known(q)
    BY DEF FlowInd, AllKnown
<1>3. PICK k \in Cmds : Hash(cmd[k].rx) = Hash(q) /\ Sent(cmd[k], job[k], via[k])
    BY <1>2 DEF Known
<1>4. rx.amount = q.amount /\ rx.last = q.last
    BY <1>1
<1>5. Hash(rx) = Hash(q)
    BY <1>4 DEF Hash
<1> QED BY <1>3, <1>5 DEF Known

LEMMA PeerReactionStep ==
    ASSUME FlowInd, PeerReaction
    PROVE  FlowInd'
<1>1. PICK rx \in Renonced : ~Pooled(rx) /\ pool' = pool \cup {rx}
    BY DEF PeerReaction
<1>2. /\ UNCHANGED <<owner, via, atom, height, paid>>
      /\ UNCHANGED <<mining, batch, spread, cmd, job>> /\ Cardinality(pool) < Capacity
    BY DEF PeerReaction, chain, mine
<1>3. CmdsOK' /\ AtomOK' /\ MiningOK'
    BY <1>2 DEF FlowInd, CmdsOK, AtomOK, MiningOK
<1>4. PoolOK'
    BY <1>1, <1>2, PoolGrows DEF FlowInd
<1>5. Known(rx)
    BY RenoncedKnown
<1>6. AllKnown'
    BY <1>1, <1>2, <1>5 DEF FlowInd, AllKnown, Granted, Known
<1> QED BY <1>3, <1>4, <1>6 DEF FlowInd

LEMMA PeerCrystalStep ==
    ASSUME FlowInd, PeerCrystal
    PROVE  FlowInd'
<1>1. PICK rx \in Renonced \cup Overrides :
          /\ Valid(rx)
          /\ atom' = [mass |-> atom.mass - (rx.amount + PROTOCOL_MIN_FEE),
                      nonce |-> rx.nonce + 1, last |-> Hash(rx)]
          /\ paid' = Append(paid, rx)
    BY DEF PeerCrystal
<1>2. /\ UNCHANGED <<owner, via, pool, mining, batch, spread, cmd, job>>
      /\ ~mining /\ height < MaxHeight /\ height' = height + 1
    BY DEF PeerCrystal, mine
<1>3. CmdsOK' /\ PoolOK' /\ MiningOK'
    BY <1>2, FlowAssumption DEF FlowInd, CmdsOK, PoolOK, MiningOK
<1>4. Granted(rx) /\ rx.amount \in Nat
  <2>1. CASE rx \in Renonced
      BY <2>1, RenoncedKnown, KnownAmount DEF FlowInd, Granted
  <2>2. CASE rx \in Overrides
    <3>1. PICK a \in Amounts : rx = [signer |-> "architect", amount |-> a, mass |-> atom.mass,
                                     nonce |-> atom.nonce, last |-> atom.last]
        BY <2>2 DEF Overrides
    <3>2. a \in Nat
        BY FlowAssumption
    <3>3. rx.signer = "architect" /\ rx.amount = a
        BY <3>1
    <3> QED BY <3>2, <3>3 DEF Granted
  <2> QED BY <2>1, <2>2
<1> DEFINE m == atom.mass
<1>5. m \in 0..MaxU64 /\ atom.mass <= m
    BY Fees DEF FlowInd, AtomOK
<1>6. /\ AtomOK'
      /\ DOMAIN paid' = 1..(Len(paid) + 1) /\ DOMAIN paid = 1..Len(paid)
      /\ Len(paid) \in Nat /\ paid'[Len(paid) + 1] = rx
      /\ \A i \in DOMAIN paid : paid'[i] = paid[i]
    BY <1>1, <1>4, <1>5, Paying DEF FlowInd
<1>7. AllKnown'
    BY <1>2, <1>4, <1>6, PayingKnown DEF FlowInd
<1> QED BY <1>3, <1>6, <1>7 DEF FlowInd

LEMMA ReceiveStep ==
    ASSUME FlowInd, Receive
    PROVE  FlowInd'
<1>1. /\ UNCHANGED <<owner, via, pool, mining, batch, spread, cmd, job, paid>>
      /\ ~mining /\ height < MaxHeight /\ height' = height + 1
      /\ atom' = [atom EXCEPT !.mass = Capped(atom.mass + Deposit)]
    BY DEF Receive, mine
<1>2. CmdsOK' /\ PoolOK' /\ MiningOK' /\ AllKnown'
    BY <1>1, FlowAssumption DEF FlowInd, CmdsOK, PoolOK, MiningOK, AllKnown, Granted, Known
<1> DEFINE m == Capped(atom.mass + Deposit)
<1>3. m \in 0..MaxU64
    BY Fees DEF FlowInd, AtomOK, Capped
<1> HIDE DEF m
<1>4. atom' = [mass |-> m, nonce |-> atom.nonce, last |-> atom.last]
  <2>1. atom = [mass |-> atom.mass, nonce |-> atom.nonce, last |-> atom.last]
      BY DEF FlowInd, AtomOK
  <2> QED BY <1>1, <2>1 DEF m
<1>5. AtomOK'
    BY <1>1, <1>3, <1>4, Gaining DEF FlowInd
<1> QED BY <1>2, <1>5 DEF FlowInd

LEMMA DrainStep ==
    ASSUME FlowInd, Drain
    PROVE  FlowInd'
<1>1. /\ UNCHANGED <<owner, via, atom, height, paid, spread, cmd, job>>
      /\ mining' = TRUE /\ height < MaxHeight
      /\ \/ batch' = pool /\ pool' = {}
         \/ batch' = {} /\ pool' = pool
    BY DEF Drain, chain
<1>2. CmdsOK' /\ MiningOK' /\ AtomOK'
    BY <1>1 DEF FlowInd, CmdsOK, MiningOK, AtomOK
<1>3. AllKnown'
    BY <1>1 DEF FlowInd, AllKnown, Granted, Known
<1>4. PoolOK'
  <2>1. CASE pool' = {}
      BY <2>1, FS_EmptySet, FlowAssumption DEF PoolOK
  <2>2. CASE pool' = pool
      BY <2>2 DEF FlowInd, PoolOK
  <2> QED BY <1>1, <2>1, <2>2
<1> QED BY <1>2, <1>3, <1>4 DEF FlowInd

(* A command's step leaves the chain and the mining loop alone. *)
LEMMA CommandsKeep ==
    ASSUME FlowInd, NEW k \in Cmds,
           Command(k) \/ Client(k) \/ Node(k) \/ Disconnect(k) \/ SubmitTimeout(k)
    PROVE  FlowInd'
<1>1. /\ UNCHANGED <<owner, via, atom, height, paid>> /\ UNCHANGED <<mining, batch>>
  BY DEF Command, Client, Node, Disconnect, SubmitTimeout, FetchAnswer, FetchTimeout, Check,
         Build, LegacySend, CheckBalance, Push, Broadcast, chain, mine
<1>2. CASE Push(k) \/ LegacySend(k)
  <2>1. CmdStep(k) /\ PoolOK'
      BY <1>2, PushStep, LegacyStep DEF FlowInd
  <2> QED BY <1>1, <2>1, CmdStepKeeps DEF FlowInd, AtomOK, MiningOK
<1>3. CASE ~(Push(k) \/ LegacySend(k))
  <2>1. CmdStep(k)
      BY <1>3, CommandStep, FetchStep, CheckStep, BuildStep, DisconnectStep, CheckBalanceStep,
         BroadcastStep, TimeoutStep DEF FlowInd, Client, Node
  <2>2. pool' = pool
      BY <1>3 DEF Command, Client, Node, Disconnect, SubmitTimeout, FetchAnswer, FetchTimeout,
                  Check, Build, CheckBalance, Broadcast
  <2> QED BY <1>1, <2>1, <2>2, CmdStepKeeps DEF FlowInd, AtomOK, MiningOK, PoolOK
<1> QED BY <1>2, <1>3

LEMMA FlowStep == FlowInd /\ [Next]_flowVars => FlowInd'
<1> SUFFICES ASSUME FlowInd, [Next]_flowVars PROVE FlowInd'
    OBVIOUS
<1>1. CASE UNCHANGED flowVars
    BY <1>1 DEF flowVars, FlowInd, CmdsOK, AllKnown, Granted, Known, PoolOK, AtomOK, MiningOK
<1> QED BY <1>1, CommandsKeep, DrainStep, SolidifyStep, PeerReactionStep, PeerCrystalStep,
           ReceiveStep DEF Next

LEMMA FlowInit == Init => FlowInd
<1> SUFFICES ASSUME Init PROVE FlowInd
    OBVIOUS
<1>1. CmdsOK
  <2>1. IsCmd(Idle) /\ Idle.pc = "unused" /\ Idle.rx = NoRx /\ Idle.out = "none"
      BY DEF IsCmd, Idle, Cmd
  <2>2. \A v : CmdOK(Idle, "none", v)
      BY <2>1 DEF CmdOK, Early, Waiting
  <2> HIDE DEF Idle
  <2> QED BY <2>2 DEF Init, CmdsOK
<1>2. AllKnown /\ PoolOK
    BY FS_EmptySet, FlowAssumption DEF Init, AllKnown, PoolOK
<1>3. MiningOK
  <2>1. height \in 0..MaxHeight
      BY FlowAssumption DEF Init
  <2>2. ~mining /\ mining \in BOOLEAN /\ batch = {}
      BY Zenon DEF Init
  <2> QED BY <2>1, <2>2 DEF MiningOK
<1>4. AtomOK
  <2>1. PICK m \in Masses : atom = [Nothing EXCEPT !.mass = m]
      BY DEF Init
  <2>2. atom = [mass |-> m, nonce |-> 0, last |-> NoHash]
      BY <2>1 DEF Nothing
  <2>3. m \in 0..MaxU64
      BY FlowAssumption
  <2>4. paid = <<>> /\ paid \in Seq({}) /\ Len(paid) = 0
      BY DEF Init
  <2> QED BY <2>2, <2>3, <2>4 DEF AtomOK
<1> QED BY <1>1, <1>2, <1>3, <1>4 DEF FlowInd

-----------------------------------------------------------------------------
(* What is paid *)

(* A payment the architect did not sign is, up to its nonce, that of a     *)
(* command that was not refused.                                           *)
LEMMA PaidByCommand ==
    ASSUME FlowInd, NEW i \in DOMAIN paid, paid[i].signer = "owner"
    PROVE  \E k \in Cmds : /\ cmd[k].rx # NoRx /\ Hash(cmd[k].rx) = Hash(paid[i])
                           /\ cmd[k].out \notin Refusals
<1>1. Known(paid[i])
    BY DEF FlowInd, AllKnown, Granted
<1> QED BY <1>1 DEF Known, Sent

(* A payment that is a command's reaction as it was signed has the amount  *)
(* that the command asked for.                                             *)
LEMMA PaidAsSigned ==
    ASSUME FlowInd, NEW i \in DOMAIN paid, NEW k \in Cmds, paid[i] = cmd[k].rx
    PROVE  cmd[k].pc # "unused" /\ cmd[k].amount = paid[i].amount
<1>1. CmdOK(cmd[k], job[k], via[k]) /\ CmdsOK
    BY DEF FlowInd, CmdsOK
<1>2. cmd[k].rx # NoRx
  <2>1. CASE paid[i].signer = "architect"
      BY <2>1 DEF NoRx
  <2>2. CASE Known(paid[i])
    <3>1. paid[i].amount # 0
        BY <1>1, <2>2, KnownAmount
    <3> QED BY <3>1 DEF NoRx
  <2> QED BY <2>1, <2>2 DEF FlowInd, AllKnown, Granted
<1> QED BY <1>1, <1>2 DEF CmdOK, Early

(* Payments differ in their nonces, so that different payments of what was *)
(* signed are those of different commands.                                 *)
LEMMA PaymentsCounted ==
    ASSUME FlowInd
    PROVE  SignedPaidOnce
<1> SUFFICES ASSUME NEW a \in Amounts
             PROVE  Cardinality({i \in DOMAIN paid :
                                    paid[i].amount = a /\ \E k \in Cmds : paid[i] = cmd[k].rx})
                        <= Cardinality({k \in Cmds : cmd[k].pc # "unused" /\ cmd[k].amount = a})
    BY DEF SignedPaidOnce
<1> DEFINE P == {i \in DOMAIN paid : paid[i].amount = a /\ \E k \in Cmds : paid[i] = cmd[k].rx}
           C == {k \in Cmds : cmd[k].pc # "unused" /\ cmd[k].amount = a}
           f == [i \in P |-> CHOOSE k \in C : cmd[k].rx = paid[i]]
<1>1. \A i \in P : \E k \in C : cmd[k].rx = paid[i]
    BY PaidAsSigned
<1>2. \A i \in P : f[i] \in C /\ cmd[f[i]].rx = paid[i]
    BY <1>1
<1>3. f \in [P -> C]
    BY <1>2
<1>4. ASSUME NEW i \in P, NEW j \in P, f[i] = f[j] PROVE i = j
  <2>1. paid[i] = paid[j]
      BY <1>2, <1>4
  <2>2. paid[i].nonce = i - 1 /\ paid[j].nonce = j - 1
      BY DEF FlowInd, AtomOK
  <2>3. i \in Nat /\ j \in Nat
    <3>1. PICK S : paid \in Seq(S)
        BY DEF FlowInd, AtomOK
    <3> QED BY <3>1
  <2> QED BY <2>1, <2>2, <2>3
<1>5. IsFiniteSet(C)
    BY FS_Subset, FlowAssumption
<1> HIDE DEF f, P, C
<1>6. f \in Injection(P, C)
    BY <1>3, <1>4 DEF Injection, IsInjective
<1>7. Cardinality(P) <= Cardinality(C)
    BY <1>5, <1>6, FS_Injection
<1> QED BY <1>7 DEF P, C

LEMMA PoolHashes ==
    ASSUME PoolOK
    PROVE  Cardinality({Hash(r) : r \in pool}) = Cardinality(pool)
<1> DEFINE H == {Hash(r) : r \in pool}
           f == [r \in pool |-> Hash(r)]
<1>1. f \in [pool -> H]
    OBVIOUS
<1>2. \A r, q \in pool : f[r] = f[q] => r = q
    BY DEF PoolOK
<1>3. \A h \in H : \E r \in pool : f[r] = h
    OBVIOUS
<1> HIDE DEF f, H
<1>4. f \in Bijection(pool, H)
    BY <1>1, <1>2, <1>3 DEF Bijection, Injection, Surjection, IsInjective
<1>5. ExistsBijection(pool, H)
    BY <1>4 DEF ExistsBijection
<1>6. Cardinality(H) = Cardinality(pool)
    BY <1>5, FS_Bijection DEF PoolOK
<1> QED BY <1>6 DEF H

LEMMA IndImplies == FlowInd => FlowInv /\ SignedIsCovered /\ RefusedIsNotPaid
<1> SUFFICES ASSUME FlowInd PROVE FlowInv /\ SignedIsCovered /\ RefusedIsNotPaid
    OBVIOUS
<1>1. FlowTypeOK
  <2>1. /\ atom.mass \in 0..MaxU64 /\ atom.nonce \in Nat
    <3>1. PICK S : paid \in Seq(S)
        BY DEF FlowInd, AtomOK
    <3> QED BY <3>1 DEF FlowInd, AtomOK
  <2>2. Cardinality({Hash(r) : r \in pool}) = Cardinality(pool)
      BY PoolHashes DEF FlowInd
  <2>3. \A k \in Cmds : job[k] \in {"none", "queued", "checked", "pushed", "done"}
      BY DEF FlowInd, CmdsOK, CmdOK, Waiting
  <2>4. height \in 0..MaxHeight /\ (mining \/ batch = {}) /\ Cardinality(pool) <= Capacity
      BY DEF FlowInd, MiningOK, PoolOK
  <2> QED BY <2>1, <2>2, <2>3, <2>4 DEF FlowTypeOK
<1>2. SignedPaidOnce /\ SpentInOrder
    BY PaymentsCounted DEF FlowInd, AtomOK, SpentInOrder
<1>3. SignedIsCovered
    BY DEF FlowInd, CmdsOK, CmdOK, SignedIsCovered
<1>4. RefusedIsNotPaid
    BY PaidByCommand DEF RefusedIsNotPaid, Refused, Refusals
<1> QED BY <1>1, <1>2, <1>3, <1>4 DEF FlowInv

(* The payments of a wallet take the nonces 0, 1, 2, ... in order, and a   *)
(* reaction as it was signed is executed no more often than it was asked   *)
(* for, whatever times out, is mined by a peer as well, is altered by one, *)
(* or is read while it is being spent; mass, nonce and mempool stay in     *)
(* bounds.  A copy with a later nonce may be executed too.                 *)
THEOREM FlowCorrect == Spec => []FlowInv
<1>1. FlowInd => FlowInv
    BY IndImplies
<1> QED BY <1>1, FlowInit, FlowStep, PTL DEF Spec

(* What the SDK's builder signs is covered by the mass the caller read or  *)
(* made up, for amounts up to the largest too.                             *)
THEOREM SignedCovered == Spec => []SignedIsCovered
<1>1. FlowInd => SignedIsCovered
    BY IndImplies
<1> QED BY <1>1, FlowInit, FlowStep, PTL DEF Spec

(* What this node or a peer executes of a wallet, without a signature of   *)
(* the architect, is up to its nonce what a command signed and was not     *)
(* told is refused.                                                        *)
THEOREM RefusedUnpaid == Spec => []RefusedIsNotPaid
<1>1. FlowInd => RefusedIsNotPaid
    BY IndImplies
<1> QED BY <1>1, FlowInit, FlowStep, PTL DEF Spec

=============================================================================
