----------------------------- MODULE PVMProofs -----------------------------
(***************************************************************************)
(* Whatever reactions crystals carry, in whatever order: no user reaction  *)
(* is executed twice, none is lost in the changeset, and no mass comes     *)
(* from nothing, for every finite set of keys, every set of reactions,     *)
(* every tax and decay, and crystals of any length.                        *)
(***************************************************************************)
EXTENDS PVM, FiniteSetTheorems, WellFoundedInduction, TLAPS

Ledgers == [Keys -> AtomRecords \cup {Absent}]

(* to is what a reaction makes of at: no atom disappears and no nonce is   *)
(* taken back.                                                             *)
Keeps(at, to) ==
    /\ to \in Ledgers
    /\ \A k \in Keys : at[k] # Absent => to[k] # Absent /\ to[k].nonce >= at[k].nonce

LEMMA AtomFields ==
    ASSUME NEW at \in Ledgers, NEW k \in Keys, at[k] # Absent
    PROVE  at[k] \in AtomRecords /\ at[k].mass \in Masses /\ at[k].nonce \in Nonces
BY DEF Ledgers, AtomRecords

LEMMA DebitedType ==
    ASSUME NEW at \in Ledgers, NEW rx, rx.sender \in Keys, at[rx.sender] # Absent,
           NEW cost \in Nat, cost <= at[rx.sender].mass
    PROVE  /\ Debited(at, rx, cost) \in AtomRecords
           /\ Debited(at, rx, cost).nonce = Saturated(at[rx.sender].nonce + 1, MaxNonce)
           /\ Debited(at, rx, cost).nonce >= at[rx.sender].nonce
<1>1. at[rx.sender].mass \in Masses /\ at[rx.sender].nonce \in Nonces
    BY AtomFields
<1> QED BY <1>1, PVMAssumption DEF Debited, AtomRecords, Masses, Nonces, Saturated

LEMMA DecayedType ==
    ASSUME NEW a \in AtomRecords, NEW i \in 0..MaxBlocks
    PROVE  Decayed(a, i) \in AtomRecords /\ Decayed(a, i).nonce = a.nonce
BY PVMAssumption DEF Decayed, AtomRecords, Masses, Nonces

LEMMA CreditedType ==
    ASSUME NEW a \in AtomRecords, NEW amount \in Nat
    PROVE  Credited(a, amount) \in AtomRecords /\ Credited(a, amount).nonce = a.nonce
BY PVMAssumption DEF Credited, AtomRecords, Masses, Nonces, Saturated

LEMMA WithKeeps ==
    ASSUME NEW at \in Ledgers, NEW k \in Keys, NEW a \in AtomRecords,
           at[k] # Absent => a.nonce >= at[k].nonce
    PROVE  Keeps(at, With(at, k, a)) /\ With(at, k, a)[k] = a /\ a # Absent
<1>1. a # Absent
    BY PVMAssumption
<1>2. \A j \in Keys : at[j] # Absent => at[j].nonce \in Nat
    BY AtomFields, PVMAssumption DEF Nonces
<1> QED BY <1>1, <1>2 DEF Keeps, With, Ledgers

LEMMA KeepsTransitive ==
    ASSUME NEW a \in Ledgers, NEW b \in Ledgers, NEW c, Keeps(a, b), Keeps(b, c)
    PROVE  Keeps(a, c)
<1>1. ASSUME NEW k \in Keys, a[k] # Absent PROVE c[k] # Absent /\ c[k].nonce >= a[k].nonce
  <2>1. b[k] # Absent /\ c[k] # Absent
      BY <1>1 DEF Keeps
  <2>2. a[k].nonce \in Nat /\ b[k].nonce \in Nat /\ c[k].nonce \in Nat
      BY <1>1, <2>1, AtomFields, PVMAssumption DEF Nonces, Keeps
  <2> QED BY <1>1, <2>1, <2>2 DEF Keeps
<1> QED BY <1>1 DEF Keeps

-----------------------------------------------------------------------------
(* What a crystal may carry: submitted reactions, and the reward. *)
Carried(rx) == rx \in Rx \/ (rx \in Reactions /\ ~IsUser(rx))

(* The fields of a carried reaction. *)
LEMMA CarriedFields ==
    ASSUME NEW rx, Carried(rx)
    PROVE  /\ rx \in Reactions /\ rx.sender \in Keys /\ rx.receiver \in Keys
           /\ rx.amount \in Nat /\ rx.amount \in Masses /\ rx.energy \in Int
           /\ rx.nonce \in Nonces /\ rx.snap \in Masses /\ rx.snapNonce \in Nonces
BY PVMAssumption DEF Carried, Reactions, Masses

LEMMA MaterialisedType ==
    ASSUME NEW at \in Ledgers, NEW rx, Carried(rx), NEW m \in Masses
    PROVE  /\ Materialised(at, rx, m) \in AtomRecords
           /\ at[rx.receiver] # Absent => Materialised(at, rx, m) = at[rx.receiver]
<1>1. rx.receiver \in Keys /\ rx.snapNonce \in Nonces
    BY CarriedFields
<1>2. at[rx.receiver] # Absent => at[rx.receiver] \in AtomRecords
    BY <1>1, AtomFields
<1> QED BY <1>1, <1>2 DEF Materialised, AtomRecords

(* What execute_single promises about nonces: the sender's advances by one *)
(* and every other one stays.                                              *)
Advances(at, rx, to) ==
    /\ Keeps(at, to)
    /\ \A k \in Keys : at[k] # Absent /\ ~(IsUser(rx) /\ k = rx.sender)
                        => to[k].nonce = at[k].nonce
    /\ IsUser(rx) => /\ at[rx.sender] # Absent
                     /\ to[rx.sender].nonce = Saturated(at[rx.sender].nonce + 1, MaxNonce)

LEMMA TransferAdvances ==
    ASSUME NEW at \in Ledgers, NEW rx, Carried(rx), NEW i \in 0..MaxBlocks,
           rx.kind = "transfer", rx.energy >= 0, Affordable(at, rx, i)
    PROVE  Advances(at, rx, Transfer(at, rx, i))
<1> DEFINE cost == rx.amount + rx.energy
           d == Debited(at, rx, cost)
           s == Decayed(d, i)
           paid == With(at, rx.sender, s)
           m == Materialised(paid, rx, 0)
           r == Decayed(m, i)
           c == Credited(r, rx.amount)
<1>1. /\ rx.sender \in Keys /\ rx.receiver \in Keys /\ rx.amount \in Nat /\ cost \in Nat
      /\ at[rx.sender] # Absent /\ cost <= at[rx.sender].mass
    BY CarriedFields DEF Affordable
<1>2. /\ d \in AtomRecords /\ d.nonce = Saturated(at[rx.sender].nonce + 1, MaxNonce)
      /\ d.nonce >= at[rx.sender].nonce
  <2> HIDE DEF cost
  <2> QED BY <1>1, DebitedType
<1>3. s \in AtomRecords /\ s.nonce = d.nonce
  <2> HIDE DEF d
  <2> QED BY <1>2, DecayedType
<1>4. Keeps(at, paid) /\ paid[rx.sender] = s /\ s # Absent
  <2> HIDE DEF s, d
  <2> QED BY <1>1, <1>2, <1>3, WithKeeps
<1>5. paid \in Ledgers
    BY <1>4 DEF Keeps
<1>6. m \in AtomRecords /\ (paid[rx.receiver] # Absent => m = paid[rx.receiver])
  <2>1. 0 \in Masses
      BY PVMAssumption DEF Masses
  <2> HIDE DEF paid
  <2> QED BY <1>5, <2>1, MaterialisedType
<1>7. r \in AtomRecords /\ r.nonce = m.nonce
  <2> HIDE DEF m
  <2> QED BY <1>6, DecayedType
<1>8. c \in AtomRecords /\ c.nonce = r.nonce
  <2> HIDE DEF r
  <2> QED BY <1>1, <1>7, CreditedType
<1>9. paid[rx.receiver] # Absent => c.nonce >= paid[rx.receiver].nonce
  <2> HIDE DEF paid, m, r, c
  <2>1. paid[rx.receiver] # Absent => paid[rx.receiver].nonce \in Nat
      BY <1>1, <1>5, AtomFields, PVMAssumption DEF Nonces
  <2> QED BY <1>6, <1>7, <1>8, <2>1
<1>10. Transfer(at, rx, i) = With(paid, rx.receiver, c)
    BY DEF Transfer
<1> HIDE DEF paid, c, s, d, m, r
<1>11. Keeps(paid, With(paid, rx.receiver, c)) /\ With(paid, rx.receiver, c)[rx.receiver] = c
    BY <1>1, <1>5, <1>8, <1>9, WithKeeps
<1>12. Keeps(at, Transfer(at, rx, i))
    BY <1>4, <1>5, <1>10, <1>11, KeepsTransitive
<1>13. Transfer(at, rx, i)[rx.sender].nonce = d.nonce
  <2>1. CASE rx.receiver = rx.sender
      BY <1>1, <1>3, <1>4, <1>6, <1>7, <1>8, <1>10, <1>11, <2>1
  <2>2. CASE rx.receiver # rx.sender
      BY <1>1, <1>3, <1>4, <1>5, <1>10, <2>2 DEF With, Ledgers
  <2> QED BY <2>1, <2>2
<1>14. ASSUME NEW k \in Keys, at[k] # Absent, k # rx.sender
       PROVE  Transfer(at, rx, i)[k].nonce = at[k].nonce
  <2>1. paid[k] = at[k]
      BY <1>1, <1>14 DEF paid, With, Ledgers
  <2>2. CASE k = rx.receiver
      BY <1>6, <1>7, <1>8, <1>10, <1>11, <1>14, <2>1, <2>2
  <2>3. CASE k # rx.receiver
    <3>1. With(paid, rx.receiver, c)[k] = paid[k]
        BY <1>5, <1>14, <2>3 DEF With, Ledgers
    <3> QED BY <1>10, <2>1, <3>1
  <2> QED BY <2>2, <2>3
<1> QED BY <1>1, <1>2, <1>12, <1>13, <1>14 DEF Advances, IsUser

(* A credit leaves every nonce as it is. *)
LEMMA CreditKeeps ==
    ASSUME NEW at \in Ledgers, NEW k \in Keys, NEW a \in AtomRecords,
           at[k] # Absent => a.nonce = at[k].nonce, NEW amount \in Nat
    PROVE  /\ Keeps(at, With(at, k, Credited(a, amount)))
           /\ \A j \in Keys : at[j] # Absent =>
                 With(at, k, Credited(a, amount))[j].nonce = at[j].nonce
<1> DEFINE c == Credited(a, amount)
<1>1. c \in AtomRecords /\ c.nonce = a.nonce
    BY CreditedType
<1> HIDE DEF c
<1>2. at[k] # Absent => c.nonce >= at[k].nonce
    BY <1>1, AtomFields, PVMAssumption DEF Nonces
<1>3. Keeps(at, With(at, k, c)) /\ With(at, k, c)[k] = c
    BY <1>1, <1>2, WithKeeps
<1>4. \A j \in Keys : at[j] # Absent => With(at, k, c)[j].nonce = at[j].nonce
    BY <1>1, <1>3 DEF With, Ledgers
<1> QED BY <1>3, <1>4 DEF c

LEMMA GenericAdvances ==
    ASSUME NEW at \in Ledgers, NEW rx, Carried(rx), NEW i \in 0..MaxBlocks,
           at[Architect] # Absent,
           rx.kind = "generic", rx.energy >= 0, Affordable(at, rx, i)
    PROVE  Advances(at, rx, Generic(at, rx, i))
<1> DEFINE tax == Tax(rx, i)
           cost == rx.energy + tax
           d == Debited(at, rx, cost)
           paid == With(at, rx.sender, d)
           m == Materialised(paid, rx, rx.snap)
           sent == With(paid, rx.receiver, Credited(m, rx.energy))
           taxed == With(sent, Architect, Credited(sent[Architect], tax))
<1>0. Architect \in Keys
    BY PVMAssumption
<1>1. /\ rx.sender \in Keys /\ rx.receiver \in Keys /\ rx.energy \in Nat /\ tax \in Nat
      /\ rx.snap \in Masses
  <2>1. rx \in Rx
      BY DEF Carried, IsUser
  <2> QED BY <2>1, CarriedFields, PVMAssumption
<1>2. at[rx.sender] # Absent /\ cost \in Nat /\ cost <= at[rx.sender].mass
    BY <1>1 DEF Affordable
<1>3. /\ d \in AtomRecords /\ d.nonce = Saturated(at[rx.sender].nonce + 1, MaxNonce)
      /\ d.nonce >= at[rx.sender].nonce
  <2> HIDE DEF cost
  <2> QED BY <1>1, <1>2, DebitedType
<1>4. Generic(at, rx, i) = IF tax > 0 /\ sent[Architect] # Absent THEN taxed ELSE sent
    BY <1>2 DEF Generic
<1> HIDE DEF d, cost, tax
<1>5. Keeps(at, paid) /\ paid[rx.sender] = d /\ d # Absent /\ paid \in Ledgers
    BY <1>1, <1>3, WithKeeps DEF Keeps
<1>o. \A k \in Keys : k # rx.sender => paid[k] = at[k]
    BY <1>1 DEF With, Ledgers
<1> HIDE DEF paid
<1>6. m \in AtomRecords /\ (paid[rx.receiver] # Absent => m = paid[rx.receiver])
    BY <1>1, <1>5, MaterialisedType
<1> HIDE DEF m
<1>7. /\ Keeps(paid, sent) /\ sent \in Ledgers
      /\ \A j \in Keys : paid[j] # Absent => sent[j].nonce = paid[j].nonce
  <2>1. paid[rx.receiver] # Absent => m.nonce = paid[rx.receiver].nonce
      BY <1>6
  <2> QED BY <1>1, <1>5, <1>6, <2>1, CreditKeeps DEF Keeps
<1> HIDE DEF sent
<1>8. Keeps(at, sent)
    BY <1>5, <1>7, KeepsTransitive
<1>9. sent[Architect] # Absent /\ sent[rx.sender] # Absent /\ sent[rx.sender].nonce = d.nonce
    BY <1>0, <1>1, <1>2, <1>5, <1>7, <1>8 DEF Keeps
<1>10. /\ Keeps(sent, taxed)
       /\ \A j \in Keys : sent[j] # Absent => taxed[j].nonce = sent[j].nonce
  <2>1. sent[Architect] \in AtomRecords
      BY <1>0, <1>7, <1>9, AtomFields
  <2> QED BY <1>0, <1>1, <1>7, <2>1, CreditKeeps
<1> HIDE DEF taxed
<1>11. Keeps(at, taxed) /\ taxed[rx.sender].nonce = d.nonce
    BY <1>1, <1>7, <1>8, <1>9, <1>10, KeepsTransitive
<1>12. ASSUME NEW k \in Keys, at[k] # Absent, k # rx.sender
       PROVE  sent[k].nonce = at[k].nonce /\ taxed[k].nonce = at[k].nonce
  <2>1. paid[k] = at[k] /\ sent[k].nonce = paid[k].nonce /\ sent[k] # Absent
      BY <1>7, <1>8, <1>12, <1>o DEF Keeps
  <2> QED BY <1>10, <1>12, <2>1
<1> QED BY <1>2, <1>3, <1>4, <1>8, <1>9, <1>11, <1>12 DEF Advances, IsUser

(* execute_single: the sender's nonce advances, no other goes back. *)
LEMMA ExecutionAdvances ==
    ASSUME NEW at \in Ledgers, NEW rx, Carried(rx), NEW i \in 0..MaxBlocks,
           at[Architect] # Absent, NEW b, NEW h, Executable(at, rx, b, h, i)
    PROVE  Advances(at, rx, After(at, rx, i))
<1>1. rx.energy >= 0 /\ Architect \in Keys
    BY PVMAssumption DEF Executable
<1>2. CASE rx.kind = "reward"
  <2>1. at[Architect] \in AtomRecords /\ rx.amount \in Nat
      BY <1>1, AtomFields, CarriedFields
  <2>2. /\ Keeps(at, MiningReward(at, rx))
        /\ \A k \in Keys : at[k] # Absent => MiningReward(at, rx)[k].nonce = at[k].nonce
      BY <1>1, <2>1, CreditKeeps DEF MiningReward
  <2>3. After(at, rx, i) = MiningReward(at, rx)
      BY <1>2 DEF After
  <2> QED BY <1>2, <2>2, <2>3 DEF Advances, IsUser
<1>3. CASE rx.kind = "transfer"
  <2>1. Affordable(at, rx, i)
      BY <1>3 DEF Executable
  <2>2. After(at, rx, i) = Transfer(at, rx, i)
      BY <1>3 DEF After
  <2> QED BY <1>1, <1>3, <2>1, <2>2, TransferAdvances
<1>4. CASE rx.kind = "generic"
  <2>1. Affordable(at, rx, i)
      BY <1>4 DEF Executable
  <2>2. After(at, rx, i) = Generic(at, rx, i)
      BY <1>4 DEF After
  <2> QED BY <1>1, <1>4, <2>1, <2>2, GenericAdvances
<1>5. CASE rx.kind = "contract"
  <2>1. /\ rx.sender \in Keys /\ rx.amount \in Nat
        /\ at[rx.sender] # Absent /\ rx.amount <= at[rx.sender].mass
      BY <1>5, CarriedFields DEF Executable, Affordable
  <2> DEFINE d == Debited(at, rx, rx.amount)
  <2>2. /\ d \in AtomRecords /\ d.nonce = Saturated(at[rx.sender].nonce + 1, MaxNonce)
        /\ d.nonce >= at[rx.sender].nonce
      BY <2>1, DebitedType
  <2>3. After(at, rx, i) = With(at, rx.sender, d)
      BY <1>5 DEF After, Deploy
  <2> HIDE DEF d
  <2>4. Keeps(at, With(at, rx.sender, d)) /\ With(at, rx.sender, d)[rx.sender] = d
      BY <2>1, <2>2, WithKeeps
  <2>5. \A k \in Keys : k # rx.sender => With(at, rx.sender, d)[k] = at[k]
      BY <2>1 DEF With, Ledgers
  <2> QED BY <1>5, <2>1, <2>2, <2>3, <2>4, <2>5 DEF Advances, IsUser
<1>6. rx.kind \in {"reward", "transfer", "generic", "contract"}
    BY DEF Executable, Affordable
<1> QED BY <1>2, <1>3, <1>4, <1>5, <1>6

-----------------------------------------------------------------------------
(* The inductive invariant: an atom's nonce is above every nonce spent     *)
(* under its key, in the ledger for committed crystals, in the changeset   *)
(* for this one; the architect's atom exists.                              *)
Past(at, tickets) ==
    \A p \in tickets : /\ p[1] \in Keys /\ p[2] \in Nonces
                       /\ at[p[1]] # Absent
                       /\ p[2] < at[p[1]].nonce \/ at[p[1]].nonce = MaxNonce

BatchOK ==
    /\ height \in Nat /\ pos \in Nat
    /\ pos # 0 => height < MaxBlocks
    /\ height <= MaxBlocks
    /\ \A n \in DOMAIN batch : Carried(batch[n])
    /\ DOMAIN batch = 1..Len(batch) /\ Len(batch) \in Nat
    /\ pos = 0 => change = NoChange /\ spending = {} /\ batch = <<>>

NonceInv ==
    /\ ledger \in Ledgers /\ ledger[Architect] # Absent
    /\ DOMAIN change \subseteq Keys /\ \A k \in DOMAIN change : change[k] \in AtomRecords
    /\ View[Architect] # Absent
    /\ Past(ledger, spent)
    /\ Past(View, spent \cup spending)

LEMMA ViewType == NonceInv => View \in Ledgers
BY DEF NonceInv, View, Ledgers

(* Advancing the view keeps every spent ticket in the past. *)
LEMMA PastAdvances ==
    ASSUME NEW at \in Ledgers, NEW to \in Ledgers, NEW T, Past(at, T), Keeps(at, to)
    PROVE  Past(to, T)
<1> SUFFICES ASSUME NEW p \in T
             PROVE  /\ p[1] \in Keys /\ p[2] \in Nonces
                    /\ to[p[1]] # Absent
                    /\ p[2] < to[p[1]].nonce \/ to[p[1]].nonce = MaxNonce
    BY DEF Past
<1>1. /\ p[1] \in Keys /\ p[2] \in Nonces /\ at[p[1]] # Absent
      /\ p[2] < at[p[1]].nonce \/ at[p[1]].nonce = MaxNonce
    BY DEF Past
<1>2. to[p[1]] # Absent /\ to[p[1]].nonce >= at[p[1]].nonce
    BY <1>1 DEF Keeps
<1>3. at[p[1]].nonce \in 0..MaxNonce /\ to[p[1]].nonce \in 0..MaxNonce /\ MaxNonce \in Nat
    BY <1>1, <1>2, AtomFields, PVMAssumption DEF Nonces
<1> QED BY <1>1, <1>2, <1>3 DEF Nonces

(* The ticket of a reaction that matched the view's nonce joins them.      *)
LEMMA TicketPast ==
    ASSUME NEW at \in Ledgers, NEW rx, Carried(rx), IsUser(rx), NEW to,
           Advances(at, rx, to), NonceMatches(at, rx)
    PROVE  Past(to, {Ticket(rx)})
<1>1. /\ rx.sender \in Keys /\ rx.nonce \in Nonces /\ at[rx.sender] # Absent
      /\ to \in Ledgers /\ to[rx.sender] # Absent
      /\ rx.nonce = at[rx.sender].nonce
    BY CarriedFields DEF Advances, Keeps, NonceMatches
<1>2. to[rx.sender].nonce = Saturated(rx.nonce + 1, MaxNonce)
    BY <1>1 DEF Advances
<1>3. rx.nonce < to[rx.sender].nonce \/ to[rx.sender].nonce = MaxNonce
    BY <1>1, <1>2, PVMAssumption DEF Saturated, Nonces
<1> QED BY <1>1, <1>3 DEF Past, Ticket

LEMMA NonceInit == Init => NonceInv /\ BatchOK
<1> SUFFICES ASSUME Init PROVE NonceInv /\ BatchOK
    OBVIOUS
<1>1. [mass |-> GenesisMass, nonce |-> 0] \in AtomRecords
    BY PVMAssumption DEF AtomRecords, Nonces
<1>2. ledger \in Ledgers /\ ledger[Architect] # Absent
    BY <1>1, PVMAssumption DEF Init, Ledgers
<1>3. DOMAIN change = {}
    BY DEF Init, NoChange
<1>4. View[Architect] # Absent
    BY <1>2, <1>3, PVMAssumption DEF View
<1>5. NonceInv
    BY <1>2, <1>3, <1>4 DEF NonceInv, Past, Init
<1>6. BatchOK
    BY PVMAssumption DEF Init, BatchOK
<1> QED BY <1>5, <1>6

(* A crystal begins with reactions that may be carried. *)
LEMMA BeginKeeps ==
    ASSUME NonceInv, BatchOK, NEW b \in Seq(Reactions),
           \A n \in DOMAIN b : Carried(b[n]), Begin(b)
    PROVE  NonceInv' /\ BatchOK'
<1>1. View' = View
    BY DEF Begin, View
<1>2. NonceInv'
    BY <1>1 DEF Begin, NonceInv, Past
<1>3. BatchOK'
    BY PVMAssumption DEF Begin, BatchOK, Carried
<1> QED BY <1>2, <1>3

LEMMA BatchesCarried ==
    ASSUME NEW n \in Int, NEW b \in Batches(n)
    PROVE  b \in Seq(Reactions) /\ b \in Seq(Rx) /\ \A m \in DOMAIN b : Carried(b[m])
<1>1. PICK m \in 0..n : b \in [1..m -> Rx]
    BY DEF Batches
<1>2. b \in Seq(Rx) /\ \A j \in DOMAIN b : b[j] \in Rx
    BY <1>1
<1> QED BY <1>2, PVMAssumption DEF Carried

LEMMA RewardCarried == NonceInv => Carried(RewardRx) /\ RewardRx \in Reactions
<1> SUFFICES ASSUME NonceInv PROVE Carried(RewardRx) /\ RewardRx \in Reactions
    OBVIOUS
<1>1. ledger[Architect].mass \in Masses /\ ledger[Architect].nonce \in Nonces
    BY AtomFields, PVMAssumption DEF NonceInv
<1>2. RewardRx \in Reactions
    BY <1>1, PVMAssumption DEF RewardRx, Reactions
<1>3. ~IsUser(RewardRx)
    BY DEF RewardRx, IsUser
<1> QED BY <1>2, <1>3 DEF Carried

LEMMA MineKeeps == ASSUME NonceInv, BatchOK, MineCrystal PROVE NonceInv' /\ BatchOK'
<1>1. PICK b \in Batches(MaxBatch - 1) :
          Begin(IF ledger[Architect] = Absent THEN b ELSE <<RewardRx>> \o b)
    BY DEF MineCrystal
<1>2. b \in Seq(Reactions) /\ \A m \in DOMAIN b : Carried(b[m])
    BY BatchesCarried, PVMAssumption
<1>3. Carried(RewardRx) /\ RewardRx \in Reactions
    BY RewardCarried
<1> DEFINE c == <<RewardRx>> \o b
<1>4. Begin(c)
    BY <1>1 DEF NonceInv
<1>5. c \in Seq(Reactions)
    BY <1>2, <1>3
<1>6. \A m \in DOMAIN c : Carried(c[m])
  <2> SUFFICES ASSUME NEW m \in DOMAIN c PROVE Carried(c[m])
      OBVIOUS
  <2>0. Len(c) = Len(b) + 1 /\ m \in 1..Len(c) /\ Len(b) \in Nat /\ DOMAIN b = 1..Len(b)
      BY <1>2, <1>3
  <2>1. CASE m = 1
      BY <1>2, <1>3, <2>1
  <2>2. CASE m # 1
    <3>1. m - 1 \in DOMAIN b
        BY <2>0, <2>2
    <3>2. c[m] = b[m - 1]
        BY <1>2, <1>3, <2>0, <2>2
    <3> QED BY <1>2, <3>1, <3>2
  <2> QED BY <2>1, <2>2
<1> QED
  <2> HIDE DEF c
  <2> QED BY <1>4, <1>5, <1>6, BeginKeeps

(* One reaction: its effect is an advance of the view. *)
LEMMA SingleAdvances ==
    ASSUME NonceInv, BatchOK, ExecuteSingle
    PROVE  /\ View \in Ledgers /\ Carried(Current)
           /\ Advances(View, Current, After(View, Current, height + 1))
           /\ IsUser(Current) => NonceMatches(View, Current)
<1>1. View \in Ledgers /\ View[Architect] # Absent
    BY ViewType DEF NonceInv
<1>2. Carried(Current) /\ height + 1 \in 0..MaxBlocks
    BY PVMAssumption DEF ExecuteSingle, BatchOK, Current
<1>3. Executable(View, Current, batch, heat, height + 1)
    BY DEF ExecuteSingle
<1>4. Advances(View, Current, After(View, Current, height + 1))
  <2> DEFINE v == View
             rx == Current
             i == height + 1
  <2>1. v \in Ledgers /\ v[Architect] # Absent /\ Carried(rx) /\ i \in 0..MaxBlocks
        /\ Executable(v, rx, batch, heat, i)
      BY <1>1, <1>2, <1>3
  <2> HIDE DEF v, rx, i
  <2>2. Advances(v, rx, After(v, rx, i))
      BY <2>1, ExecutionAdvances
  <2> QED BY <2>2 DEF v, rx, i
<1>5. IsUser(Current) => NonceMatches(View, Current)
    BY <1>3 DEF Executable, Admissible, IsUser
<1> QED BY <1>1, <1>2, <1>4, <1>5

(* The changeset holds exactly what the reactions so far have changed. *)
LEMMA ViewAfter ==
    ASSUME NonceInv, BatchOK, ExecuteSingle
    PROVE  View' = After(View, Current, height + 1)
<1> DEFINE v == View
           to == After(View, Current, height + 1)
           written == {k \in Keys : k \in DOMAIN change \/ to[k] # v[k]}
<1>1. to \in Ledgers
    BY SingleAdvances DEF Advances, Keeps
<1>2. change' = [k \in written |-> to[k]] /\ ledger' = ledger
    BY DEF ExecuteSingle
<1>3. \A k \in Keys : k \notin DOMAIN change => v[k] = ledger[k]
    BY DEF View
<1>4. View' = [k \in Keys |-> IF k \in written THEN to[k] ELSE ledger[k]]
    BY <1>2 DEF View
<1>5. \A k \in Keys : k \notin written => to[k] = ledger[k]
    BY <1>3
<1> HIDE DEF written, to, v
<1>6. View' = to
    BY <1>1, <1>4, <1>5 DEF Ledgers
<1> QED BY <1>6 DEF to

LEMMA ExecuteKeeps == ASSUME NonceInv, BatchOK, ExecuteSingle PROVE NonceInv' /\ BatchOK'
<1> DEFINE v == View
           rx == Current
           to == After(View, Current, height + 1)
           written == {k \in Keys : k \in DOMAIN change \/ to[k] # v[k]}
<1>1. v \in Ledgers /\ Carried(rx) /\ Advances(v, rx, to) /\ (IsUser(rx) => NonceMatches(v, rx))
    BY SingleAdvances
<1>2. to \in Ledgers /\ Keeps(v, to)
    BY <1>1 DEF Advances, Keeps
<1>3. change' = [k \in written |-> to[k]] /\ ledger' = ledger
    BY DEF ExecuteSingle
<1>4. \A k \in Keys : k \notin DOMAIN change => v[k] = ledger[k]
    BY DEF View
<1>5. View' = to
    BY ViewAfter
<1>6. \A k \in written : to[k] \in AtomRecords
  <2>1. ASSUME NEW k \in written PROVE to[k] # Absent
    <3>1. CASE v[k] # Absent
        BY <1>2, <3>1 DEF Keeps
    <3>2. CASE v[k] = Absent
      <4>1. k \notin DOMAIN change
        <5>1. k \in DOMAIN change => v[k] = change[k] /\ change[k] \in AtomRecords
            BY DEF View, NonceInv
        <5> QED BY <3>2, <5>1, PVMAssumption
      <4> QED BY <3>2, <4>1
    <3> QED BY <3>1, <3>2
  <2> HIDE DEF to
  <2> QED BY <1>2, <2>1 DEF Ledgers
<1>7. Past(to, spent \cup spending)
  <2> HIDE DEF v, to
  <2>1. Past(v, spent \cup spending)
      BY DEF NonceInv, v
  <2> QED BY <1>1, <1>2, <2>1, PastAdvances
<1>8. Past(to, (spent \cup spending)')
  <2>1. CASE IsUser(rx)
    <3>1. Past(to, {Ticket(rx)})
      <4> HIDE DEF v, to, rx
      <4> QED BY <1>1, <2>1, TicketPast
    <3>2. (spent \cup spending)' = (spent \cup spending) \cup {Ticket(rx)}
        BY <2>1 DEF ExecuteSingle
    <3> HIDE DEF to, rx
    <3> QED BY <1>7, <3>1, <3>2 DEF Past
  <2>2. CASE ~IsUser(rx)
    <3>1. (spent \cup spending)' = spent \cup spending
        BY <2>2 DEF ExecuteSingle
    <3> HIDE DEF to
    <3> QED BY <1>7, <3>1
  <2> QED BY <2>1, <2>2
<1>9. to[Architect] # Absent
  <2> HIDE DEF to
  <2> QED BY <1>2, PVMAssumption DEF Keeps, NonceInv
<1>10. spent' = spent /\ DOMAIN change' \subseteq Keys
       /\ \A k \in DOMAIN change' : change'[k] \in AtomRecords
  <2> HIDE DEF to
  <2> QED BY <1>3, <1>6 DEF ExecuteSingle
<1>11. NonceInv'
  <2> HIDE DEF to
  <2> QED BY <1>3, <1>5, <1>8, <1>9, <1>10 DEF NonceInv, Past
<1>12. BatchOK'
    BY DEF ExecuteSingle, BatchOK
<1> QED BY <1>11, <1>12

(* execute_payload has returned and its locals are gone. *)
LEMMA ReturnKeeps ==
    ASSUME Return, ledger' \in Ledgers, ledger'[Architect] # Absent, Past(ledger', spent'),
           height' \in Nat, height' <= MaxBlocks
    PROVE  NonceInv' /\ BatchOK'
<1>1. DOMAIN change' = {}
    BY DEF Return, NoChange
<1>2. View' = ledger'
    BY <1>1 DEF View, Ledgers
<1>3. Past(View', (spent \cup spending)')
    BY <1>2 DEF Return
<1>4. NonceInv'
    BY <1>1, <1>2, <1>3 DEF NonceInv, Past
<1>5. BatchOK'
    BY DEF Return, BatchOK
<1> QED BY <1>4, <1>5

LEMMA NonceStep == NonceInv /\ BatchOK /\ [Next]_pvmVars => NonceInv' /\ BatchOK'
<1> SUFFICES ASSUME NonceInv, BatchOK, [Next]_pvmVars PROVE NonceInv' /\ BatchOK'
    OBVIOUS
<1>1. CASE ReceiveCrystal
  <2>1. PICK b \in Batches(MaxBatch) : Begin(b)
      BY <1>1 DEF ReceiveCrystal
  <2>2. b \in Seq(Reactions) /\ \A m \in DOMAIN b : Carried(b[m])
      BY BatchesCarried, PVMAssumption
  <2> QED BY <2>1, <2>2, BeginKeeps
<1>2. CASE MineCrystal
    BY <1>2, MineKeeps
<1>3. CASE ExecuteSingle
    BY <1>3, ExecuteKeeps
<1>4. CASE Fail
  <2>1. Return /\ ledger' = ledger /\ spent' = spent /\ height' = height
      BY <1>4 DEF Fail
  <2> QED BY <2>1, ReturnKeeps DEF NonceInv, BatchOK
<1>5. CASE Commit
  <2>1. Return /\ ledger' = View /\ spent' = spent \cup spending /\ height' = height + 1
      BY <1>5 DEF Commit
  <2>2. pos # 0
      BY <1>5 DEF Commit, BatchOK
  <2>3. height' \in Nat /\ height' <= MaxBlocks
      BY <2>1, <2>2, PVMAssumption DEF BatchOK
  <2>4. ledger' \in Ledgers /\ ledger'[Architect] # Absent /\ Past(ledger', spent')
      BY <2>1, ViewType DEF NonceInv
  <2> QED BY <2>1, <2>3, <2>4, ReturnKeeps
<1>6. CASE UNCHANGED pvmVars
  <2>1. View' = View
      BY <1>6 DEF View, pvmVars
  <2> QED BY <1>6, <2>1 DEF NonceInv, BatchOK, Past, pvmVars
<1> QED BY <1>1, <1>2, <1>3, <1>4, <1>5, <1>6 DEF Next

(* The sequence check of execute_single: over the whole chain and inside   *)
(* one crystal, no user reaction is executed whose sender and nonce were   *)
(* spent before, except at the largest nonce.                              *)
THEOREM NoncesSpentOnce == Spec => NonceSpentOnce
<1>1. ASSUME NonceInv, BatchOK
      PROVE  ExecuteSingle /\ IsUser(Current)
                 => Ticket(Current) \notin spent \cup spending \/ Current.nonce = MaxNonce
  <2> SUFFICES ASSUME ExecuteSingle, IsUser(Current), Ticket(Current) \in spent \cup spending
               PROVE  Current.nonce = MaxNonce
      OBVIOUS
  <2>1. /\ View \in Ledgers /\ Carried(Current) /\ NonceMatches(View, Current)
        /\ View[Current.sender] # Absent
      BY <1>1, SingleAdvances DEF Advances
  <2>2. Current.nonce = View[Current.sender].nonce /\ Current.nonce \in Nat
      BY <2>1, CarriedFields, PVMAssumption DEF NonceMatches, Nonces
  <2>3. Ticket(Current)[2] < View[Ticket(Current)[1]].nonce \/ View[Ticket(Current)[1]].nonce = MaxNonce
      BY <1>1 DEF NonceInv, Past
  <2>4. Ticket(Current)[1] = Current.sender /\ Ticket(Current)[2] = Current.nonce
      BY DEF Ticket
  <2> QED BY <2>2, <2>3, <2>4
<1>2. NonceInv /\ BatchOK
         => [ExecuteSingle /\ IsUser(Current)
                => Ticket(Current) \notin spent \cup spending \/ Current.nonce = MaxNonce]_pvmVars
    BY <1>1
<1> QED BY <1>2, NonceInit, NonceStep, PTL DEF Spec, NonceSpentOnce

-----------------------------------------------------------------------------
(* No reaction is lost in the changeset *)

(* The places before p of the user reactions that k sent. *)
SentBefore(k, p) == {n \in 1..(p - 1) : IsUser(batch[n]) /\ batch[n].sender = k}

(* In the middle of a crystal the nonce of every atom has advanced by the  *)
(* number of user reactions of that sender executed so far.                *)
CountInv ==
    pos # 0 =>
        /\ pos <= Len(batch) + 1
        /\ \A k \in Keys : ledger[k] # Absent =>
              /\ View[k] # Absent
              /\ View[k].nonce =
                    Saturated(ledger[k].nonce + Cardinality(SentBefore(k, pos)), MaxNonce)

LEMMA SentBeforeFinite ==
    ASSUME NEW k, NEW p \in Nat
    PROVE  IsFiniteSet(SentBefore(k, p)) /\ Cardinality(SentBefore(k, p)) \in Nat
<1>1. IsFiniteSet(1..(p - 1))
    BY FS_Interval
<1>2. SentBefore(k, p) \subseteq 1..(p - 1)
    BY DEF SentBefore
<1> QED BY <1>1, <1>2, FS_Subset, FS_CardinalityType

(* The reaction at p joins the ones its sender sent. *)
LEMMA SentNext ==
    ASSUME NEW k, NEW p \in Nat \ {0}
    PROVE  Cardinality(SentBefore(k, p + 1)) =
             IF IsUser(batch[p]) /\ batch[p].sender = k
             THEN Cardinality(SentBefore(k, p)) + 1 ELSE Cardinality(SentBefore(k, p))
<1>0. p \notin SentBefore(k, p)
    BY DEF SentBefore
<1>1. IsFiniteSet(SentBefore(k, p)) /\ p \notin SentBefore(k, p)
    BY <1>0, SentBeforeFinite
<1>2. \A n : n \in 1..((p + 1) - 1) <=> n \in 1..(p - 1) \/ n = p
    OBVIOUS
<1>3. CASE IsUser(batch[p]) /\ batch[p].sender = k
  <2>1. SentBefore(k, p + 1) = SentBefore(k, p) \cup {p}
      BY <1>2, <1>3 DEF SentBefore
  <2> QED BY <1>1, <1>3, <2>1, FS_AddElement
<1>4. CASE ~(IsUser(batch[p]) /\ batch[p].sender = k)
  <2>1. SentBefore(k, p + 1) = SentBefore(k, p)
      BY <1>2, <1>4 DEF SentBefore
  <2> QED BY <1>4, <2>1
<1> QED BY <1>3, <1>4

(* A batch begins with nothing sent and the view of the ledger. *)
LEMMA BeginCounts ==
    ASSUME NonceInv, BatchOK, NEW b \in Seq(Reactions), Begin(b)
    PROVE  CountInv'
<1>1. pos' = 1 /\ batch' = b /\ ledger' = ledger /\ change' = change /\ pos = 0
    BY DEF Begin
<1>2. DOMAIN change = {}
    BY <1>1 DEF BatchOK, NoChange
<1>3. View' = ledger
    BY <1>1, <1>2 DEF View, NonceInv, Ledgers
<1>4. \A k : SentBefore(k, 1)' = {}
    BY DEF SentBefore
<1>5. \A k \in Keys : ledger[k] # Absent =>
          ledger[k].nonce = Saturated(ledger[k].nonce + 0, MaxNonce)
  <2>1. \A k \in Keys : ledger[k] # Absent => ledger[k].nonce \in Nonces
      BY AtomFields DEF NonceInv
  <2> QED BY <2>1, PVMAssumption DEF Nonces, Saturated
<1>6. ASSUME NEW k \in Keys, ledger'[k] # Absent
      PROVE  /\ View'[k] # Absent
             /\ View'[k].nonce =
                   Saturated(ledger'[k].nonce + Cardinality(SentBefore(k, pos)'), MaxNonce)
  <2>1. SentBefore(k, pos)' = {}
      BY <1>1 DEF SentBefore
  <2>2. Cardinality(SentBefore(k, pos)') = 0
      BY <2>1, FS_EmptySet
  <2> QED BY <1>1, <1>3, <1>5, <1>6, <2>2
<1>7. pos' <= Len(batch') + 1
    BY <1>1
<1> QED BY <1>6, <1>7 DEF CountInv

LEMMA ExecuteCounts ==
    ASSUME NonceInv, BatchOK, CountInv, ExecuteSingle
    PROVE  CountInv'
<1> DEFINE v == View
           to == After(View, Current, height + 1)
           rx == Current
<1>1. /\ pos \in Nat \ {0} /\ pos \in 1..Len(batch) /\ pos' = pos + 1
      /\ ledger' = ledger /\ batch' = batch /\ rx = batch[pos] /\ Len(batch) \in Nat
    BY DEF ExecuteSingle, BatchOK, Current
<1>2. v \in Ledgers /\ Advances(v, rx, to) /\ View' = to
    BY SingleAdvances, ViewAfter
<1>3. v = View
    OBVIOUS
<1> HIDE DEF v, to, rx
<1>4. ASSUME NEW k \in Keys, ledger[k] # Absent
      PROVE  /\ to[k] # Absent
             /\ to[k].nonce =
                   Saturated(ledger[k].nonce + Cardinality(SentBefore(k, pos + 1)), MaxNonce)
  <2> DEFINE c == Cardinality(SentBefore(k, pos))
  <2>1. v[k] # Absent /\ v[k].nonce = Saturated(ledger[k].nonce + c, MaxNonce)
      BY <1>1, <1>3, <1>4 DEF CountInv
  <2>2. c \in Nat /\ ledger[k].nonce \in Nat /\ MaxNonce \in Nat
      BY <1>1, <1>4, SentBeforeFinite, AtomFields, PVMAssumption DEF NonceInv, Nonces
  <2>3. to[k] # Absent
      BY <1>2, <2>1 DEF Advances, Keeps
  <2>4. CASE IsUser(rx) /\ rx.sender = k
    <3>1. to[k].nonce = Saturated(v[k].nonce + 1, MaxNonce)
        BY <1>2, <2>4 DEF Advances
    <3>2. Cardinality(SentBefore(k, pos + 1)) = c + 1
        BY <1>1, <2>4, SentNext
    <3> HIDE DEF c
    <3> QED BY <2>1, <2>2, <2>3, <3>1, <3>2 DEF Saturated
  <2>5. CASE ~(IsUser(rx) /\ rx.sender = k)
    <3>1. to[k].nonce = v[k].nonce
        BY <1>2, <2>1, <2>5 DEF Advances
    <3>2. Cardinality(SentBefore(k, pos + 1)) = c
        BY <1>1, <2>5, SentNext
    <3> QED BY <2>1, <2>3, <3>1, <3>2
  <2> QED BY <2>4, <2>5
<1>5. \A k : SentBefore(k, pos)' = SentBefore(k, pos + 1)
    BY <1>1 DEF SentBefore
<1>6. pos' <= Len(batch') + 1
    BY <1>1
<1>7. \A k \in Keys : ledger'[k] # Absent =>
         /\ View'[k] # Absent
         /\ View'[k].nonce =
               Saturated(ledger'[k].nonce + Cardinality(SentBefore(k, pos)'), MaxNonce)
    BY <1>1, <1>2, <1>4, <1>5
<1> QED BY <1>6, <1>7 DEF CountInv

LEMMA CountStep == NonceInv /\ BatchOK /\ CountInv /\ [Next]_pvmVars => CountInv'
<1> SUFFICES ASSUME NonceInv, BatchOK, CountInv, [Next]_pvmVars PROVE CountInv'
    OBVIOUS
<1>1. CASE ReceiveCrystal
  <2>1. PICK b \in Batches(MaxBatch) : Begin(b)
      BY <1>1 DEF ReceiveCrystal
  <2>2. b \in Seq(Reactions)
      BY BatchesCarried, PVMAssumption
  <2> QED BY <2>1, <2>2, BeginCounts
<1>2. CASE MineCrystal
  <2>1. PICK b \in Batches(MaxBatch - 1) :
            Begin(IF ledger[Architect] = Absent THEN b ELSE <<RewardRx>> \o b)
      BY <1>2 DEF MineCrystal
  <2> DEFINE c == <<RewardRx>> \o b
  <2>2. c \in Seq(Reactions) /\ b \in Seq(Reactions)
      BY BatchesCarried, RewardCarried, PVMAssumption
  <2>3. Begin(c)
      BY <2>1 DEF NonceInv
  <2> HIDE DEF c
  <2> QED BY <2>2, <2>3, BeginCounts
<1>3. CASE ExecuteSingle
    BY <1>3, ExecuteCounts
<1>4. CASE Fail \/ Commit
    BY <1>4 DEF Fail, Commit, Return, CountInv
<1>5. CASE UNCHANGED pvmVars
  <2>1. View' = View /\ pos' = pos /\ batch' = batch /\ ledger' = ledger
      BY <1>5 DEF View, pvmVars
  <2>2. \A k : SentBefore(k, pos)' = SentBefore(k, pos)
      BY <2>1 DEF SentBefore
  <2> QED BY <2>1, <2>2 DEF CountInv
<1> QED BY <1>1, <1>2, <1>3, <1>4, <1>5 DEF Next

(* No reaction of a committed crystal is lost in the changeset: for every  *)
(* batch a peer or the miner puts together, the nonce of every atom that   *)
(* existed advances by the number of user reactions it sent.               *)
THEOREM AllReactionsCounted == Spec => EveryReactionCounted
<1> DEFINE Step ==
      Commit => \A k \in Keys : ledger[k] # Absent =>
          LET sent == {n \in DOMAIN batch : IsUser(batch[n]) /\ batch[n].sender = k}
          IN  ledger'[k] # Absent /\ ledger'[k].nonce =
                  Saturated(ledger[k].nonce + Cardinality(sent), MaxNonce)
<1>1. NonceInv /\ BatchOK /\ CountInv => [Step]_pvmVars
  <2> SUFFICES ASSUME BatchOK, CountInv, Commit, NEW k \in Keys, ledger[k] # Absent
               PROVE  LET sent == {n \in DOMAIN batch : IsUser(batch[n]) /\ batch[n].sender = k}
                      IN  ledger'[k] # Absent /\ ledger'[k].nonce =
                              Saturated(ledger[k].nonce + Cardinality(sent), MaxNonce)
      OBVIOUS
  <2>1. pos = Len(batch) + 1 /\ Len(batch) \in Nat /\ ledger' = View
      BY DEF Commit, BatchOK
  <2>2. SentBefore(k, pos) = {n \in DOMAIN batch : IsUser(batch[n]) /\ batch[n].sender = k}
      BY <2>1 DEF SentBefore, BatchOK
  <2>3. pos # 0
      BY <2>1
  <2> QED BY <2>1, <2>2, <2>3 DEF CountInv
<1>2. Init => CountInv
    BY DEF Init, CountInv
<1> QED BY <1>1, <1>2, NonceInit, NonceStep, CountStep, PTL DEF Spec, EveryReactionCounted

-----------------------------------------------------------------------------
(* Sums over the atoms *)

(* Induction over the natural numbers, for a set of them. *)
LEMMA InductionOnSet ==
    ASSUME NEW G \in SUBSET Nat, 0 \in G, \A n \in G : n + 1 \in G
    PROVE  G = Nat
<1> SUFFICES ASSUME Nat \ G # {} PROVE FALSE
    OBVIOUS
<1> DEFINE R == {ss \in Nat \X Nat : ss[1] < ss[2]}
<1>1. IsWellFoundedOn(R, Nat)
    BY NatLessThanWellFounded DEF OpToRel
<1> HIDE DEF R
<1>2. PICK n \in Nat \ G : \A m \in Nat \ G : ~ (<<m, n>> \in R)
    BY <1>1, WFMin
<1>3. n # 0 /\ n - 1 \in Nat
    BY <1>2
<1>4. <<n - 1, n>> \in R
    BY <1>3 DEF R
<1>5. n - 1 \in G
    BY <1>2, <1>3, <1>4
<1> QED BY <1>2, <1>3, <1>5

(* SumFunction takes the elements of the domain one after another.  h is   *)
(* such a table of partial sums on the sets in D.                          *)
First(s) == CHOOSE x \in s : TRUE
Partial(f, h, D) ==
    h = [s \in D |-> IF s = {} THEN 0 ELSE f[First(s)] + h[s \ {First(s)}]]

LEMMA SumUnfolds ==
    ASSUME NEW f
    PROVE  SumFunction(f) = (CHOOSE h : Partial(f, h, SUBSET DOMAIN f))[DOMAIN f]
BY Zenon DEF SumFunction, SumFunctionOnSet, FoldFunctionOnSet, MapThenFoldSet, Partial, First

LEMMA FirstIn ==
    ASSUME NEW s, s # {}
    PROVE  First(s) \in s
BY DEF First

(* The sets of at most n elements. *)
Small(S, n) == {s \in SUBSET S : Cardinality(s) <= n}

LEMMA SmallFacts ==
    ASSUME NEW S, IsFiniteSet(S), NEW n \in Nat
    PROVE  /\ \A s \in Small(S, 0) : s = {}
           /\ \A s \in Small(S, n + 1) : s # {} => s \ {First(s)} \in Small(S, n)
           /\ \A s \in Small(S, n) : s # {} => s \ {First(s)} \in Small(S, n)
           /\ Small(S, n) \subseteq Small(S, n + 1)
           /\ Small(S, Cardinality(S)) = SUBSET S
<1>1. \A s \in SUBSET S : IsFiniteSet(s) /\ Cardinality(s) \in Nat /\ Cardinality(s) <= Cardinality(S)
    BY FS_Subset, FS_CardinalityType
<1>2. \A s \in SUBSET S : Cardinality(s) <= 0 => s = {}
    BY <1>1, FS_EmptySet
<1>3. ASSUME NEW s \in SUBSET S, s # {}
      PROVE  s \ {First(s)} \in SUBSET S /\ Cardinality(s \ {First(s)}) = Cardinality(s) - 1
    BY <1>1, <1>3, FirstIn, FS_RemoveElement
<1>4. ASSUME NEW s \in SUBSET S, s # {}, Cardinality(s) <= n + 1
      PROVE  Cardinality(s \ {First(s)}) <= n
    BY <1>1, <1>3, <1>4
<1>5. ASSUME NEW s \in SUBSET S, s # {}, Cardinality(s) <= n
      PROVE  Cardinality(s \ {First(s)}) <= n
    BY <1>1, <1>3, <1>5
<1>6. Small(S, n) \subseteq Small(S, n + 1)
    BY <1>1 DEF Small
<1>7. Small(S, Cardinality(S)) = SUBSET S
    BY <1>1 DEF Small
<1> QED BY <1>2, <1>3, <1>4, <1>5, <1>6, <1>7 DEF Small

LEMMA PartialExists ==
    ASSUME NEW S, IsFiniteSet(S), NEW f \in [S -> Nat]
    PROVE  \E h : Partial(f, h, SUBSET S)
<1> DEFINE G == {n \in Nat : \E h : Partial(f, h, Small(S, n))}
<1>1. 0 \in G
  <2> DEFINE h == [s \in Small(S, 0) |-> 0]
  <2>1. \A s \in Small(S, 0) : s = {}
      BY SmallFacts
  <2>2. Partial(f, h, Small(S, 0))
      BY <2>1 DEF Partial
  <2> QED BY <2>2
<1>2. ASSUME NEW n \in G PROVE n + 1 \in G
  <2>1. PICK h : Partial(f, h, Small(S, n))
      OBVIOUS
  <2> DEFINE g == [s \in Small(S, n + 1) |->
                      IF s = {} THEN 0 ELSE f[First(s)] + h[s \ {First(s)}]]
  <2>2. \A s \in Small(S, n) : h[s] = IF s = {} THEN 0 ELSE f[First(s)] + h[s \ {First(s)}]
      BY <2>1 DEF Partial
  <2>3. \A s \in Small(S, n) : g[s] = h[s]
      BY <2>2, SmallFacts
  <2>4. \A s \in Small(S, n + 1) : s # {} => g[s \ {First(s)}] = h[s \ {First(s)}]
    <3> HIDE DEF g
    <3> QED BY <2>3, SmallFacts
  <2>5. \A s \in Small(S, n + 1) :
           g[s] = IF s = {} THEN 0 ELSE f[First(s)] + g[s \ {First(s)}]
      BY <2>4
  <2>6. g = [s \in Small(S, n + 1) |-> g[s]]
      OBVIOUS
  <2>7. Partial(f, g, Small(S, n + 1))
    <3> HIDE DEF g
    <3> QED BY <2>5, <2>6 DEF Partial
  <2> QED BY <2>7
<1>3. G = Nat
  <2> HIDE DEF G
  <2>1. G \in SUBSET Nat
      BY DEF G
  <2> QED BY <1>1, <1>2, <2>1, InductionOnSet
<1>4. Cardinality(S) \in Nat
    BY FS_CardinalityType
<1>5. Small(S, Cardinality(S)) = SUBSET S
    BY <1>4, SmallFacts
<1> DEFINE c == Cardinality(S)
<1>6. c \in Nat /\ Small(S, c) = SUBSET S
    BY <1>4, <1>5
<1> HIDE DEF c
<1>7. c \in G
    BY <1>3, <1>6
<1>8. PICK h : Partial(f, h, Small(S, c))
    BY <1>7
<1> QED BY <1>6, <1>8

(* The partial sums of f: what SumFunction is the last one of. *)
Sums(f) == CHOOSE h : Partial(f, h, SUBSET DOMAIN f)

LEMMA SumsFacts ==
    ASSUME NEW S, IsFiniteSet(S), NEW f \in [S -> Nat]
    PROVE  /\ Sums(f)[{}] = 0
           /\ \A s \in SUBSET S : s # {} =>
                 Sums(f)[s] = f[First(s)] + Sums(f)[s \ {First(s)}]
           /\ SumFunction(f) = Sums(f)[S]
<1>1. Partial(f, Sums(f), SUBSET S)
  <2>1. \E h : Partial(f, h, SUBSET DOMAIN f)
      BY PartialExists
  <2> QED BY <2>1 DEF Sums
<1>2. SumFunction(f) = Sums(f)[S]
    BY SumUnfolds DEF Sums
<1> DEFINE h == Sums(f)
<1>3. \A s \in SUBSET S : h[s] = IF s = {} THEN 0 ELSE f[First(s)] + h[s \ {First(s)}]
  <2> HIDE DEF h
  <2> QED BY <1>1 DEF Partial, h
<1> QED BY <1>2, <1>3

LEMMA SumOfZeros ==
    ASSUME NEW S, IsFiniteSet(S)
    PROVE  SumFunction([x \in S |-> 0]) = 0
<1> DEFINE f == [x \in S |-> 0]
           h == Sums(f)
           G == {n \in Nat : \A s \in Small(S, n) : h[s] = 0}
<1>1. f \in [S -> Nat] /\ \A x \in S : f[x] = 0
    OBVIOUS
<1> HIDE DEF f
<1>2. /\ h[{}] = 0 /\ SumFunction(f) = h[S]
      /\ \A s \in SUBSET S : s # {} => h[s] = f[First(s)] + h[s \ {First(s)}]
    BY <1>1, SumsFacts
<1> HIDE DEF h
<1>3. 0 \in G
    BY <1>2, SmallFacts
<1>4. ASSUME NEW n \in G PROVE n + 1 \in G
  <2> SUFFICES ASSUME NEW s \in Small(S, n + 1) PROVE h[s] = 0
      OBVIOUS
  <2>1. CASE s = {}
      BY <1>2, <2>1
  <2>2. CASE s # {}
    <3>1. s \ {First(s)} \in Small(S, n) /\ s \in SUBSET S /\ First(s) \in S
        BY <2>2, SmallFacts, FirstIn DEF Small
    <3>2. h[s \ {First(s)}] = 0
        BY <3>1
    <3>3. h[s] = f[First(s)] + h[s \ {First(s)}]
        BY <1>2, <2>2, <3>1
    <3>4. f[First(s)] = 0
        BY <1>1, <3>1
    <3> QED BY <3>2, <3>3, <3>4
  <2> QED BY <2>1, <2>2
<1>5. G = Nat
  <2>1. G \in SUBSET Nat
      OBVIOUS
  <2> HIDE DEF G
  <2> QED BY <1>3, <1>4, <2>1, InductionOnSet
<1>6. Cardinality(S) \in Nat /\ Small(S, Cardinality(S)) = SUBSET S
    BY FS_CardinalityType, SmallFacts
<1>7. h[S] = 0
    BY <1>5, <1>6
<1> QED BY <1>2, <1>7 DEF f

(* Changing one summand changes the sum by as much. *)
LEMMA SumChanges ==
    ASSUME NEW S, IsFiniteSet(S), NEW f \in [S -> Nat], NEW g \in [S -> Nat],
           NEW k \in S, \A j \in S : j # k => g[j] = f[j]
    PROVE  /\ SumFunction(f) \in Nat /\ SumFunction(g) \in Nat
           /\ SumFunction(g) + f[k] = SumFunction(f) + g[k]
<1> DEFINE hf == Sums(f)
           hg == Sums(g)
           Good(s) == /\ hf[s] \in Nat /\ hg[s] \in Nat
                      /\ k \notin s => hg[s] = hf[s]
                      /\ k \in s => hg[s] + f[k] = hf[s] + g[k]
           G == {n \in Nat : \A s \in Small(S, n) : Good(s)}
<1>1. /\ hf[{}] = 0 /\ hg[{}] = 0
      /\ \A s \in SUBSET S : s # {} => /\ hf[s] = f[First(s)] + hf[s \ {First(s)}]
                                      /\ hg[s] = g[First(s)] + hg[s \ {First(s)}]
      /\ SumFunction(f) = hf[S] /\ SumFunction(g) = hg[S]
    BY SumsFacts
<1> HIDE DEF hf, hg
<1>2. Good({})
    BY <1>1
<1>3. ASSUME NEW s \in SUBSET S, s # {}, Good(s \ {First(s)}) PROVE Good(s)
  <2> DEFINE x == First(s)
             t == s \ {x}
  <2>1. x \in s /\ x \in S /\ f[x] \in Nat /\ g[x] \in Nat /\ f[k] \in Nat /\ g[k] \in Nat
      BY <1>3, FirstIn
  <2>2. hf[s] = f[x] + hf[t] /\ hg[s] = g[x] + hg[t]
      BY <1>1, <1>3
  <2>3. Good(t)
      BY <1>3
  <2>4. k \notin t <=> (k \notin s \/ k = x)
      OBVIOUS
  <2>5. x # k => g[x] = f[x]
      BY <2>1
  <2> HIDE DEF x, t
  <2> QED BY <2>1, <2>2, <2>3, <2>4, <2>5
<1> HIDE DEF Good
<1>4. 0 \in G
    BY <1>2, SmallFacts
<1>5. ASSUME NEW n \in G PROVE n + 1 \in G
  <2> SUFFICES ASSUME NEW s \in Small(S, n + 1) PROVE Good(s)
      OBVIOUS
  <2>1. CASE s = {}
      BY <1>2, <2>1
  <2>2. CASE s # {}
    <3>1. s \ {First(s)} \in Small(S, n) /\ s \in SUBSET S
        BY <2>2, SmallFacts DEF Small
    <3>2. Good(s \ {First(s)})
        BY <3>1
    <3> QED BY <1>3, <2>2, <3>1, <3>2
  <2> QED BY <2>1, <2>2
<1>6. G = Nat
  <2>1. G \in SUBSET Nat
      OBVIOUS
  <2> HIDE DEF G
  <2> QED BY <1>4, <1>5, <2>1, InductionOnSet
<1>7. Good(S)
  <2>1. Cardinality(S) \in Nat /\ Small(S, Cardinality(S)) = SUBSET S
      BY FS_CardinalityType, SmallFacts
  <2> QED BY <1>6, <2>1
<1> QED BY <1>1, <1>7 DEF Good

-----------------------------------------------------------------------------
(* No mass from nothing *)

LEMMA WeightsType ==
    ASSUME NEW at \in Ledgers
    PROVE  Weights(at) \in [Keys -> Nat]
<1>1. \A k \in Keys : at[k] # Absent => at[k].mass \in Nat
    BY AtomFields, PVMAssumption DEF Masses
<1> QED BY <1>1 DEF Weights

(* Writing one atom changes the total by as much as it changes the atom. *)
LEMMA TotalWith ==
    ASSUME NEW at \in Ledgers, NEW k \in Keys, NEW a \in AtomRecords
    PROVE  /\ With(at, k, a) \in Ledgers
           /\ Total(at) \in Nat /\ Total(With(at, k, a)) \in Nat
           /\ Weights(at)[k] \in Nat /\ a.mass \in Nat
           /\ Total(With(at, k, a)) + Weights(at)[k] = Total(at) + a.mass
<1> DEFINE to == With(at, k, a)
           f == Weights(at)
           g == Weights(to)
<1>1. to \in Ledgers /\ to[k] = a /\ a # Absent /\ \A j \in Keys : j # k => to[j] = at[j]
    BY PVMAssumption DEF With, Ledgers
<1>2. f \in [Keys -> Nat] /\ g \in [Keys -> Nat]
    BY <1>1, WeightsType
<1>3. g[k] = a.mass /\ \A j \in Keys : j # k => g[j] = f[j]
  <2> HIDE DEF to
  <2> QED BY <1>1 DEF Weights
<1>4. Total(at) = SumFunction(f) /\ Total(to) = SumFunction(g)
    BY DEF Total
<1> HIDE DEF f, g
<1>5. /\ SumFunction(f) \in Nat /\ SumFunction(g) \in Nat
      /\ SumFunction(g) + f[k] = SumFunction(f) + g[k]
    BY <1>2, <1>3, SumChanges, PVMAssumption
<1>6. f[k] \in Nat /\ a.mass \in Nat /\ With(at, k, a) = to
    BY <1>2, <1>3
<1> QED BY <1>1, <1>3, <1>4, <1>5, <1>6 DEF f

LEMMA DebitTotal ==
    ASSUME NEW at \in Ledgers, NEW k \in Keys, at[k] # Absent, NEW a \in AtomRecords,
           NEW cost \in Nat, a.mass + cost <= at[k].mass
    PROVE  /\ With(at, k, a) \in Ledgers
           /\ Total(at) \in Nat /\ Total(With(at, k, a)) \in Nat
           /\ Total(With(at, k, a)) + cost <= Total(at)
<1>1. Weights(at)[k] = at[k].mass
    BY DEF Weights
<1> QED BY <1>1, TotalWith

(* A credit adds at most its amount, and what it takes the atom to hold    *)
(* beyond what the view has under that key.                                *)
LEMMA CreditTotal ==
    ASSUME NEW at \in Ledgers, NEW k \in Keys, NEW a \in AtomRecords,
           NEW amount \in Nat, NEW extra \in Nat, a.mass <= Weights(at)[k] + extra
    PROVE  /\ With(at, k, Credited(a, amount)) \in Ledgers
           /\ Total(at) \in Nat /\ Total(With(at, k, Credited(a, amount))) \in Nat
           /\ Total(With(at, k, Credited(a, amount))) <= Total(at) + extra + amount
<1> DEFINE c == Credited(a, amount)
<1>1. c \in AtomRecords
    BY CreditedType
<1>2. c.mass <= a.mass + amount /\ a.mass \in Nat
    BY PVMAssumption DEF Credited, AtomRecords, Masses, Saturated
<1> HIDE DEF c
<1>3. /\ With(at, k, c) \in Ledgers
      /\ Total(at) \in Nat /\ Total(With(at, k, c)) \in Nat
      /\ Weights(at)[k] \in Nat /\ c.mass \in Nat
      /\ Total(With(at, k, c)) + Weights(at)[k] = Total(at) + c.mass
    BY <1>1, TotalWith
<1>4. Total(With(at, k, c)) <= Total(at) + extra + amount
    BY <1>2, <1>3
<1> QED BY <1>3, <1>4 DEF c

LEMMA DecayedMass ==
    ASSUME NEW a \in AtomRecords, NEW i \in 0..MaxBlocks
    PROVE  Decayed(a, i) \in AtomRecords /\ Decayed(a, i).mass <= a.mass /\ a.mass \in Nat
BY PVMAssumption DEF Decayed, AtomRecords, Masses, Nonces

LEMMA TransferTotal ==
    ASSUME NEW at \in Ledgers, NEW rx, Carried(rx), NEW i \in 0..MaxBlocks,
           rx.kind = "transfer", rx.energy >= 0, Affordable(at, rx, i)
    PROVE  /\ Total(at) \in Nat /\ Total(Transfer(at, rx, i)) \in Nat
           /\ Total(Transfer(at, rx, i)) <= Total(at)
<1> DEFINE cost == rx.amount + rx.energy
           d == Debited(at, rx, cost)
           s == Decayed(d, i)
           paid == With(at, rx.sender, s)
           m == Materialised(paid, rx, 0)
           r == Decayed(m, i)
           c == Credited(r, rx.amount)
<1>1. /\ rx.sender \in Keys /\ rx.receiver \in Keys /\ rx.amount \in Nat /\ cost \in Nat
      /\ rx.amount <= cost /\ at[rx.sender] # Absent /\ cost <= at[rx.sender].mass
    BY CarriedFields DEF Affordable
<1>2. d \in AtomRecords /\ d.mass + cost = at[rx.sender].mass
  <2> HIDE DEF cost
  <2>1. d \in AtomRecords
      BY <1>1, DebitedType
  <2>2. at[rx.sender].mass \in Nat
      BY <1>1, AtomFields, PVMAssumption DEF Masses
  <2> QED BY <1>1, <2>1, <2>2 DEF Debited
<1>3. s \in AtomRecords /\ s.mass <= d.mass
  <2> HIDE DEF d
  <2> QED BY <1>2, DecayedMass
<1>4. s.mass + cost <= at[rx.sender].mass
  <2> HIDE DEF s, d, cost
  <2>1. s.mass \in Nat /\ d.mass \in Nat
      BY <1>2, <1>3, PVMAssumption DEF AtomRecords, Masses
  <2> QED BY <1>1, <1>2, <1>3, <2>1
<1> HIDE DEF s, d
<1>5. paid \in Ledgers /\ Total(at) \in Nat /\ Total(paid) \in Nat /\ Total(paid) + cost <= Total(at)
  <2> HIDE DEF cost
  <2> QED BY <1>1, <1>3, <1>4, DebitTotal
<1> HIDE DEF paid
<1>6. m \in AtomRecords /\ m.mass = Weights(paid)[rx.receiver]
  <2>1. 0 \in Masses
      BY PVMAssumption DEF Masses
  <2>2. m \in AtomRecords
      BY <1>5, <2>1, MaterialisedType
  <2> QED BY <1>1, <2>2 DEF Materialised, Weights
<1> HIDE DEF m
<1>7. r \in AtomRecords /\ r.mass <= Weights(paid)[rx.receiver] + 0
  <2>1. r \in AtomRecords /\ r.mass <= m.mass /\ m.mass \in Nat
      BY <1>6, DecayedMass
  <2> QED BY <1>6, <2>1
<1> HIDE DEF r
<1>8. /\ Total(With(paid, rx.receiver, c)) \in Nat
      /\ Total(With(paid, rx.receiver, c)) <= Total(paid) + 0 + rx.amount
    BY <1>1, <1>5, <1>7, CreditTotal
<1>9. Transfer(at, rx, i) = With(paid, rx.receiver, c)
    BY DEF Transfer, paid, s, d, m, r
<1> HIDE DEF c
<1> QED BY <1>1, <1>5, <1>8, <1>9

(* A snapshot counts as issued when the receiver has no atom. *)
LEMMA GenericTotal ==
    ASSUME NEW at \in Ledgers, NEW rx, Carried(rx), NEW i \in 0..MaxBlocks,
           at[Architect] # Absent,
           rx.kind = "generic", rx.energy >= 0, Affordable(at, rx, i)
    PROVE  /\ Total(at) \in Nat /\ Total(Generic(at, rx, i)) \in Nat /\ Issue(at, rx) \in Nat
           /\ Total(Generic(at, rx, i)) <= Total(at) + Issue(at, rx)
<1> DEFINE tax == Tax(rx, i)
           cost == rx.energy + tax
           d == Debited(at, rx, cost)
           paid == With(at, rx.sender, d)
           m == Materialised(paid, rx, rx.snap)
           sent == With(paid, rx.receiver, Credited(m, rx.energy))
           taxed == With(sent, Architect, Credited(sent[Architect], tax))
           fresh == IF at[rx.receiver] = Absent /\ rx.receiver # rx.sender THEN rx.snap ELSE 0
<1>0. Architect \in Keys
    BY PVMAssumption
<1>1. /\ rx.sender \in Keys /\ rx.receiver \in Keys /\ rx.energy \in Nat /\ tax \in Nat
      /\ rx.snap \in Masses /\ rx.snap \in Nat
  <2>1. rx \in Rx
      BY DEF Carried, IsUser
  <2> QED BY <2>1, CarriedFields, PVMAssumption DEF Masses
<1>2. at[rx.sender] # Absent /\ cost \in Nat /\ cost <= at[rx.sender].mass
    BY <1>1 DEF Affordable
<1>3. d \in AtomRecords /\ d.mass + cost <= at[rx.sender].mass /\ d # Absent
  <2> HIDE DEF cost
  <2>1. d \in AtomRecords
      BY <1>1, <1>2, DebitedType
  <2>2. at[rx.sender].mass \in Nat
      BY <1>1, <1>2, AtomFields, PVMAssumption DEF Masses
  <2> QED BY <1>2, <2>1, <2>2, PVMAssumption DEF Debited
<1>4. Generic(at, rx, i) = IF tax > 0 /\ sent[Architect] # Absent THEN taxed ELSE sent
    BY <1>2 DEF Generic
<1>5. Issue(at, rx) = fresh /\ fresh \in Nat
    BY <1>1, <1>2 DEF Issue
<1> HIDE DEF d
<1>6. /\ paid \in Ledgers /\ Total(at) \in Nat /\ Total(paid) \in Nat
      /\ Total(paid) + cost <= Total(at)
  <2> HIDE DEF cost
  <2> QED BY <1>1, <1>2, <1>3, DebitTotal
<1>7. paid[rx.receiver] = Absent => at[rx.receiver] = Absent /\ rx.receiver # rx.sender
    BY <1>1, <1>3 DEF With, Ledgers
<1> HIDE DEF paid
<1>8. m \in AtomRecords /\ m.mass <= Weights(paid)[rx.receiver] + fresh
  <2>1. m \in AtomRecords /\ (paid[rx.receiver] # Absent => m = paid[rx.receiver])
      BY <1>1, <1>6, MaterialisedType
  <2>2. m.mass \in Nat
      BY <2>1, PVMAssumption DEF AtomRecords, Masses
  <2>3. CASE paid[rx.receiver] # Absent
    <3>1. m.mass = Weights(paid)[rx.receiver]
        BY <1>1, <2>1, <2>3 DEF Weights
    <3> HIDE DEF fresh, m
    <3> QED BY <1>5, <2>1, <2>2, <3>1
  <2>4. CASE paid[rx.receiver] = Absent
    <3>1. m.mass = rx.snap /\ fresh = rx.snap /\ Weights(paid)[rx.receiver] = 0
        BY <1>1, <1>7, <2>4 DEF Materialised, Weights
    <3> HIDE DEF fresh, m
    <3> QED BY <1>1, <2>1, <3>1
  <2> QED BY <2>3, <2>4
<1> HIDE DEF m, fresh
<1>9. /\ sent \in Ledgers /\ Total(sent) \in Nat
      /\ Total(sent) <= Total(paid) + fresh + rx.energy
    BY <1>1, <1>5, <1>6, <1>8, CreditTotal
<1> HIDE DEF sent
<1>10. ASSUME sent[Architect] # Absent
       PROVE  Total(taxed) \in Nat /\ Total(taxed) <= Total(sent) + 0 + tax
  <2> DEFINE a == sent[Architect]
  <2>1. a \in AtomRecords /\ a.mass \in Nat
      BY <1>0, <1>9, <1>10, AtomFields, PVMAssumption DEF Masses
  <2>2. a.mass <= Weights(sent)[Architect] + 0
      BY <1>0, <1>10, <2>1 DEF Weights
  <2> HIDE DEF a, tax
  <2>3. /\ Total(With(sent, Architect, Credited(a, tax))) \in Nat
        /\ Total(With(sent, Architect, Credited(a, tax))) <= Total(sent) + 0 + tax
      BY <1>0, <1>1, <1>9, <2>1, <2>2, CreditTotal
  <2> QED BY <2>3 DEF a
<1> HIDE DEF taxed, tax
<1>11. CASE tax > 0 /\ sent[Architect] # Absent
    BY <1>1, <1>4, <1>5, <1>6, <1>9, <1>10, <1>11
<1>12. CASE ~(tax > 0 /\ sent[Architect] # Absent)
    BY <1>1, <1>4, <1>5, <1>6, <1>9, <1>12
<1> QED BY <1>11, <1>12

(* execute_single: the atoms gain at most what the reaction issues. *)
LEMMA ExecutionTotal ==
    ASSUME NEW at \in Ledgers, NEW rx, Carried(rx), NEW i \in 0..MaxBlocks,
           at[Architect] # Absent, NEW b, NEW h, Executable(at, rx, b, h, i)
    PROVE  /\ Total(at) \in Nat /\ Total(After(at, rx, i)) \in Nat /\ Issue(at, rx) \in Nat
           /\ Total(After(at, rx, i)) <= Total(at) + Issue(at, rx)
<1>1. rx.energy >= 0 /\ Architect \in Keys
    BY PVMAssumption DEF Executable
<1>2. CASE rx.kind = "reward"
  <2> DEFINE a == at[Architect]
  <2>1. a \in AtomRecords /\ a.mass \in Nat /\ rx.amount \in Nat
      BY <1>1, AtomFields, CarriedFields, PVMAssumption DEF Masses
  <2>2. a.mass <= Weights(at)[Architect] + 0
      BY <1>1, <2>1 DEF Weights
  <2>3. After(at, rx, i) = With(at, Architect, Credited(a, rx.amount)) /\ Issue(at, rx) = rx.amount
      BY <1>2 DEF After, MiningReward, Issue
  <2> HIDE DEF a
  <2>4. /\ Total(at) \in Nat /\ Total(With(at, Architect, Credited(a, rx.amount))) \in Nat
        /\ Total(With(at, Architect, Credited(a, rx.amount))) <= Total(at) + 0 + rx.amount
      BY <1>1, <2>1, <2>2, CreditTotal
  <2> QED BY <2>1, <2>3, <2>4
<1>3. CASE rx.kind = "transfer"
  <2>1. Affordable(at, rx, i)
      BY <1>3 DEF Executable
  <2>2. After(at, rx, i) = Transfer(at, rx, i) /\ Issue(at, rx) = 0
      BY <1>3 DEF After, Issue
  <2> QED BY <1>1, <1>3, <2>1, <2>2, TransferTotal
<1>4. CASE rx.kind = "generic"
  <2>1. Affordable(at, rx, i)
      BY <1>4 DEF Executable
  <2>2. After(at, rx, i) = Generic(at, rx, i)
      BY <1>4 DEF After
  <2> QED BY <1>1, <1>4, <2>1, <2>2, GenericTotal
<1>5. CASE rx.kind = "contract"
  <2>1. /\ rx.sender \in Keys /\ rx.amount \in Nat
        /\ at[rx.sender] # Absent /\ rx.amount <= at[rx.sender].mass
      BY <1>5, CarriedFields DEF Executable, Affordable
  <2> DEFINE d == Debited(at, rx, rx.amount)
  <2>2. d \in AtomRecords /\ d.mass + rx.amount <= at[rx.sender].mass
    <3>1. d \in AtomRecords
        BY <2>1, DebitedType
    <3>2. at[rx.sender].mass \in Nat
        BY <2>1, AtomFields, PVMAssumption DEF Masses
    <3> QED BY <2>1, <3>1, <3>2 DEF Debited
  <2>3. After(at, rx, i) = With(at, rx.sender, d) /\ Issue(at, rx) = 0
      BY <1>5 DEF After, Deploy, Issue
  <2> HIDE DEF d
  <2>4. /\ Total(at) \in Nat /\ Total(With(at, rx.sender, d)) \in Nat
        /\ Total(With(at, rx.sender, d)) + rx.amount <= Total(at)
      BY <2>1, <2>2, DebitTotal
  <2> QED BY <2>1, <2>3, <2>4
<1>6. rx.kind \in {"reward", "transfer", "generic", "contract"}
    BY DEF Executable, Affordable
<1> QED BY <1>2, <1>3, <1>4, <1>5, <1>6

(* The invariant: PVMInv, and between two crystals nothing is being issued *)
(* (the changeset is then empty and the view is the ledger).               *)
MassInv ==
    /\ heat \in Nat
    /\ spent \subseteq Keys \X Nonces /\ spending \subseteq Keys \X Nonces
    /\ issued \in Nat /\ issuing \in Nat
    /\ pos = 0 => issuing = 0
    /\ NoMassFromNothing

LEMMA IdleView == NonceInv /\ BatchOK /\ pos = 0 => View = ledger
<1> SUFFICES ASSUME NonceInv, BatchOK, pos = 0 PROVE View = ledger
    OBVIOUS
<1>1. DOMAIN change = {}
    BY DEF BatchOK, NoChange
<1> QED BY <1>1 DEF View, NonceInv, Ledgers

(* Genesis: the architect's atom is all there is. *)
LEMMA MassInit == Init => MassInv
<1> SUFFICES ASSUME Init PROVE MassInv
    OBVIOUS
<1>0. NonceInv /\ BatchOK /\ pos = 0 /\ Architect \in Keys /\ GenesisMass \in Nat
    BY NonceInit, PVMAssumption DEF Init, Masses
<1> DEFINE none == [k \in Keys |-> Absent]
           a == [mass |-> GenesisMass, nonce |-> 0]
<1>1. none \in Ledgers /\ a \in AtomRecords /\ a.mass = GenesisMass
    BY PVMAssumption DEF Ledgers, AtomRecords, Nonces
<1>2. ledger = With(none, Architect, a)
    BY <1>0 DEF Init, With
<1>3. Total(none) = 0 /\ Weights(none)[Architect] = 0
  <2> DEFINE f == Weights(none)
  <2>1. f = [k \in Keys |-> 0]
      BY DEF Weights
  <2>2. f \in [Keys -> Nat]
      BY <2>1
  <2> HIDE DEF f
  <2>3. SumFunction(f) = 0
      BY <2>1, <2>2, SumOfZeros, PVMAssumption
  <2> QED BY <1>0, <2>1, <2>3 DEF Total, f
<1> HIDE DEF none, a
<1>4. Total(ledger) = GenesisMass
    BY <1>0, <1>1, <1>2, <1>3, TotalWith
<1>5. View = ledger
    BY <1>0, IdleView
<1>6. NoMassFromNothing
    BY <1>0, <1>4, <1>5 DEF NoMassFromNothing, Init
<1> QED BY <1>0, <1>6 DEF MassInv, Init

LEMMA ExecuteMass ==
    ASSUME NonceInv, BatchOK, MassInv, ExecuteSingle
    PROVE  MassInv'
<1> DEFINE v == View
           rx == Current
           i == height + 1
           to == After(v, rx, i)
<1>1. /\ v \in Ledgers /\ v[Architect] # Absent /\ Carried(rx) /\ i \in 0..MaxBlocks
      /\ Executable(v, rx, batch, heat, i)
    BY SingleAdvances, PVMAssumption DEF ExecuteSingle, BatchOK, NonceInv
<1>2. View' = to
    BY ViewAfter
<1>3. /\ issuing' = issuing + Issue(v, rx) /\ issued' = issued /\ ledger' = ledger
      /\ spent' = spent /\ pos' # 0
      /\ heat' = heat + (IF IsUser(rx) THEN Curvature(rx, i) ELSE 0)
      /\ spending' = spending \cup (IF IsUser(rx) THEN {Ticket(rx)} ELSE {})
    BY DEF ExecuteSingle, BatchOK
<1>4. View = v
    OBVIOUS
<1> HIDE DEF v, rx, i
<1>5. /\ Total(v) \in Nat /\ Total(to) \in Nat /\ Issue(v, rx) \in Nat
      /\ Total(to) <= Total(v) + Issue(v, rx)
    BY <1>1, ExecutionTotal
<1> HIDE DEF to
<1>6. Total(View') <= issued' + issuing' /\ issuing' \in Nat
    BY <1>2, <1>3, <1>4, <1>5 DEF MassInv, NoMassFromNothing
<1>7. heat' \in Nat
  <2>1. IsUser(rx) => Curvature(rx, i) \in Nat
      BY <1>1, PVMAssumption DEF Carried
  <2> QED BY <1>3, <2>1 DEF MassInv
<1>8. spending' \subseteq Keys \X Nonces
  <2>1. Ticket(rx) \in Keys \X Nonces
      BY <1>1, CarriedFields DEF Ticket
  <2> QED BY <1>3, <2>1 DEF MassInv
<1>9. NoMassFromNothing'
    BY <1>3, <1>6 DEF MassInv, NoMassFromNothing
<1> QED BY <1>3, <1>6, <1>7, <1>8, <1>9 DEF MassInv

LEMMA MassStep == NonceInv /\ BatchOK /\ MassInv /\ [Next]_pvmVars => MassInv'
<1> SUFFICES ASSUME NonceInv, BatchOK, MassInv, [Next]_pvmVars PROVE MassInv'
    OBVIOUS
<1>0. NonceInv' /\ BatchOK'
    BY NonceStep
<1>1. ASSUME NEW b, Begin(b) PROVE MassInv'
  <2>1. View' = View /\ pos' # 0
      BY <1>1 DEF Begin, View
  <2> QED BY <1>1, <2>1 DEF Begin, MassInv, NoMassFromNothing
<1>2. CASE ReceiveCrystal \/ MineCrystal
    BY <1>1, <1>2 DEF ReceiveCrystal, MineCrystal
<1>3. CASE ExecuteSingle
    BY <1>3, ExecuteMass
<1>4. ASSUME Return PROVE View' = ledger' /\ spending' = {} /\ issuing' = 0 /\ heat' = 0
  <2>1. DOMAIN change' = {}
      BY <1>4 DEF Return, NoChange
  <2>2. ledger' \in Ledgers
      BY <1>0 DEF NonceInv
  <2> QED BY <1>4, <2>1, <2>2 DEF Return, View, Ledgers
<1>5. CASE Fail
  <2>1. Return /\ ledger' = ledger /\ issued' = issued /\ spent' = spent
      BY <1>5 DEF Fail
  <2>2. NoMassFromNothing'
      BY <1>4, <2>1 DEF MassInv, NoMassFromNothing
  <2> QED BY <1>4, <2>1, <2>2 DEF MassInv
<1>6. CASE Commit
  <2>1. Return /\ ledger' = View /\ issued' = issued + issuing /\ spent' = spent \cup spending
      BY <1>6 DEF Commit
  <2>2. issued' \in Nat /\ spent' \subseteq Keys \X Nonces
      BY <2>1 DEF MassInv
  <2>3. Total(ledger') <= issued' /\ Total(View') <= issued' + issuing'
      BY <1>4, <2>1, <2>2 DEF MassInv, NoMassFromNothing
  <2> QED BY <1>4, <2>1, <2>2, <2>3 DEF MassInv, NoMassFromNothing
<1>7. CASE UNCHANGED pvmVars
  <2>1. View' = View
      BY <1>7 DEF View, pvmVars
  <2> QED BY <1>7, <2>1 DEF MassInv, NoMassFromNothing, pvmVars
<1> QED BY <1>2, <1>3, <1>5, <1>6, <1>7 DEF Next

(* No mass from nothing: whatever reactions crystals carry, in every state *)
(* and so also between two reactions of one crystal, the atoms hold no     *)
(* more than genesis, the rewards and the snapshots taken over by Generic  *)
(* have issued, and masses and nonces fit their width.                     *)
THEOREM MassConserved == Spec => []PVMInv
<1>1. NonceInv /\ BatchOK /\ CountInv /\ MassInv => PVMInv
  <2> SUFFICES ASSUME NonceInv, BatchOK, CountInv, MassInv PROVE PVMInv
      OBVIOUS
  <2>1. pos \in 0..(Len(batch) + 1) /\ height \in 0..MaxBlocks
      BY PVMAssumption DEF BatchOK, CountInv
  <2> QED BY <2>1 DEF PVMInv, PVMTypeOK, NonceInv, MassInv, Ledgers
<1>2. Init => CountInv
    BY DEF Init, CountInv
<1> QED BY <1>1, <1>2, NonceInit, NonceStep, CountStep, MassInit, MassStep, PTL DEF Spec

=============================================================================
