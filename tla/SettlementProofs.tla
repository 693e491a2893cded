-------------------------- MODULE SettlementProofs --------------------------
(***************************************************************************)
(* For any handlers, messages, wallets, prices and number of failures: the *)
(* settlement's types, the soundness of the wallets, the conservation of   *)
(* credits, and, when no leaf costs more than its call earns, that it      *)
(* implements the escrow; then, following one call: who closes its hold,   *)
(* what its caller pays, and that its shares are paid.                     *)
(* The second half is about the routing before it: for any servers,        *)
(* leaves, records and preferences, the server that is chosen is a         *)
(* lexicographic best, its leaf is not dominated, and the hold bounds the  *)
(* bill.                                                                   *)
(***************************************************************************)
EXTENDS Settlement, Routing, WalletStateProofs, SequenceTheorems, WellFoundedInduction

(* No leaf costs more than the call earns: pricing.py leaves it to the     *)
(* broker to reject the dispatches for which this is not so.               *)
Solvent == \A h \in Handlers : \A s \in Bills[h] : s.server >= 0

-----------------------------------------------------------------------------
(* What a step does to the credits, whichever action takes it.             *)
Quiet == UNCHANGED <<wallets, charged, paid>>

Reserves(h) ==
    /\ HoldOutcome(wallets[Caller(h)], Msg(h), HoldAmount[h]) = OK
    /\ SetWallet(Caller(h), ApplyHold(wallets[Caller(h)], Msg(h), HoldAmount[h]))
    /\ UNCHANGED history

Cancels(h) ==
    /\ RefundOutcome(wallets[Caller(h)], Msg(h)) = OK
    /\ SetWallet(Caller(h), ApplyRefund(wallets[Caller(h)], Msg(h)))
    /\ UNCHANGED history

Charges(h) ==
    /\ pc[h] = "debit"
    /\ ReleaseOutcome(wallets[Caller(h)], Msg(h), bill[h].pre_tax) = OK
    /\ SetWallet(Caller(h), ApplyRelease(wallets[Caller(h)], Msg(h), bill[h].pre_tax))
    /\ charged' = [charged EXCEPT ![h] = bill[h].pre_tax]
    /\ UNCHANGED paid

Pays(h) ==
    LET owner == Recipient(h, pc[h])
        amount == bill[h][pc[h]]
    IN /\ pc[h] \in Shares
       /\ amount > 0
       /\ SetWallet(owner, ApplyCredit(wallets[owner], amount))
       /\ paid' = [paid EXCEPT ![h] = @ + amount]
       /\ UNCHANGED charged

Moves(h) == Reserves(h) \/ Cancels(h) \/ Charges(h) \/ Pays(h)

(* Every step leaves the credits alone or moves them in one of these ways. *)
LEMMA StepMoves == Next => Quiet \/ \E h \in Handlers : Moves(h)
<1> SUFFICES ASSUME Next PROVE Quiet \/ \E h \in Handlers : Moves(h)
  OBVIOUS
<1>1. CASE \E m \in Messages : ExpireMirror(m)
  BY <1>1 DEF ExpireMirror, Quiet, history
<1>2. CASE \E h \in Handlers : Handle(h) \/ Stop(h)
  <2> PICK h \in Handlers : Handle(h) \/ Stop(h)
    BY <1>2
  <2>1. CASE Stop(h) \/ Lookup(h) \/ FreeDispatch(h) \/ Dispatch(h) \/ Price(h)
    BY <2>1 DEF Stop, Lookup, FreeDispatch, Dispatch, Price, Quiet, history, wallet_vars
  <2>2. CASE ReadReputation(h) \/ WriteReputation(h) \/ Nudge(h) \/ Survey(h)
    BY <2>2 DEF ReadReputation, WriteReputation, Nudge, Survey, Quiet, history
  <2>3. CASE PlaceHold(h)
    BY <2>3 DEF PlaceHold, Moves, Reserves, Quiet, history, wallet_vars
  <2>4. CASE Refund(h)
    BY <2>4 DEF Refund, Moves, Cancels, Quiet, history, wallet_vars
  <2>5. CASE Undo(h)
    BY <2>5 DEF Undo, Moves, Cancels, Quiet, history, wallet_vars
  <2>6. CASE Debit(h)
    BY <2>6 DEF Debit, Moves, Charges, Quiet, history
  <2>7. CASE Credit(h)
    BY <2>7 DEF Credit, Moves, Pays, Quiet, history
  <2> QED BY <2>1, <2>2, <2>3, <2>4, <2>5, <2>6, <2>7 DEF Handle
<1> QED BY <1>1, <1>2 DEF Next

-----------------------------------------------------------------------------
IsBill(b) ==
    /\ b = [pre_tax |-> b.pre_tax, server |-> b.server, compute |-> b.compute,
            broker |-> b.broker, commons |-> b.commons]
    /\ b.pre_tax \in Nat /\ b.compute \in Nat /\ b.broker \in Nat /\ b.commons \in Nat
    /\ b.server \in Int
    /\ b.pre_tax = b.server + b.compute + b.broker + b.commons

(* Whatever a handler computed, it is the output of settle_payment. *)
LEMMA BillType ==
  ASSUME TypeOK, NEW h \in Handlers
  PROVE  IsBill(bill[h])
<1>1. IsBill(NoBill)
  BY DEF IsBill, NoBill
<1>2. ASSUME NEW b \in Bills[h] PROVE IsBill(b)
  BY BillsAssumption DEF IsBill
<1> QED BY <1>1, <1>2 DEF TypeOK

(* The parties of a call all have wallets. *)
LEMMA PartyType ==
  ASSUME NEW h \in Handlers
  PROVE  /\ Msg(h) \in Messages
         /\ Caller(h) \in Owners
         /\ HoldAmount[h] \in Nat
         /\ \A share \in Shares : Recipient(h, share) \in Owners
<1>1. Msg(h) \in Messages
  BY SettlementAssumption DEF Msg
<1>2. Caller(h) \in Owners /\ HoldAmount[h] \in Nat
  BY <1>1, SettlementAssumption DEF Caller
<1>3. \A share \in Shares : Recipient(h, share) \in Owners
  BY <1>1, SettlementAssumption DEF Recipient, Shares
<1> QED BY <1>1, <1>2, <1>3

(* A positive share is a number of credits. *)
LEMMA ShareType ==
  ASSUME TypeOK, NEW h \in Handlers, pc[h] \in Shares, bill[h][pc[h]] > 0
  PROVE  bill[h][pc[h]] \in Nat
<1> DEFINE b == bill[h]
<1>1. IsBill(b)
  BY BillType
<1>2. CASE pc[h] = "server"
  <2>1. b[pc[h]] = b.server
    BY <1>2
  <2> QED BY <1>1, <2>1 DEF IsBill
<1>3. CASE pc[h] = "compute"
  BY <1>1, <1>3 DEF IsBill
<1>4. CASE pc[h] = "broker"
  BY <1>1, <1>4 DEF IsBill
<1>5. CASE pc[h] = "commons"
  BY <1>1, <1>5 DEF IsBill
<1> QED BY <1>2, <1>3, <1>4, <1>5 DEF Shares

WalletsTyped == DOMAIN wallets = Owners /\ \A o \in Owners : IsWallet(wallets[o], Messages)

(* One wallet replaced by a sound one leaves all of them sound. *)
LEMMA SetSound ==
  ASSUME WalletsTyped, WalletsSound, NEW o \in Owners, NEW w,
         IsWallet(w, Messages), Sound(w), SetWallet(o, w)
  PROVE  WalletsTyped' /\ WalletsSound'
<1>1. \A p \in Owners : wallets'[p] = IF p = o THEN w ELSE wallets[p]
  BY DEF WalletsTyped, SetWallet
<1>2. DOMAIN wallets' = Owners
  BY DEF WalletsTyped, SetWallet
<1>3. \A p \in Owners : IsWallet(wallets'[p], Messages) /\ Sound(wallets'[p])
  BY <1>1 DEF WalletsTyped, WalletsSound
<1> QED BY <1>2, <1>3 DEF WalletsTyped, WalletsSound

(* Whatever a step does to the credits, every wallet stays sound. *)
LEMMA MovesSound ==
  ASSUME TypeOK, WalletsSound, NEW h \in Handlers, Moves(h)
  PROVE  WalletsTyped' /\ WalletsSound'
<1> DEFINE c == Caller(h)
           w == wallets[c]
<1> USE PartyType
<1>1. WalletsTyped
  BY DEF TypeOK, WalletsTyped
<1>2. IsFiniteSet(Messages)
  BY SettlementAssumption
<1>3. IsWallet(w, Messages) /\ Sound(w)
  BY <1>1 DEF WalletsTyped, WalletsSound
<1>4. CASE Reserves(h)
  <2> DEFINE v == ApplyHold(w, Msg(h), HoldAmount[h])
  <2>1. IsWallet(v, Messages) /\ Sound(v)
    BY <1>2, <1>3, <1>4, HoldSound DEF Reserves
  <2>2. SetWallet(c, v)
    BY <1>4 DEF Reserves
  <2> QED BY <1>1, <2>1, <2>2, SetSound
<1>5. CASE Cancels(h)
  <2> DEFINE v == ApplyRefund(w, Msg(h))
  <2>1. IsWallet(v, Messages) /\ Sound(v)
    BY <1>2, <1>3, <1>5, RefundSound DEF Cancels
  <2>2. SetWallet(c, v)
    BY <1>5 DEF Cancels
  <2> QED BY <1>1, <2>1, <2>2, SetSound
<1>6. CASE Charges(h)
  <2> DEFINE v == ApplyRelease(w, Msg(h), bill[h].pre_tax)
  <2>1. bill[h].pre_tax \in Nat
    BY BillType DEF IsBill
  <2>2. IsWallet(v, Messages) /\ Sound(v)
    BY <1>2, <1>3, <1>6, <2>1, ReleaseSound DEF Charges
  <2>3. SetWallet(c, v)
    BY <1>6 DEF Charges
  <2> QED BY <1>1, <2>2, <2>3, SetSound
<1>7. CASE Pays(h)
  <2> DEFINE o == Recipient(h, pc[h])
             v == ApplyCredit(wallets[o], bill[h][pc[h]])
  <2>1. o \in Owners
    BY <1>7 DEF Pays
  <2>2. bill[h][pc[h]] \in Nat
    BY <1>7, ShareType DEF Pays
  <2>3. IsWallet(wallets[o], Messages) /\ Sound(wallets[o])
    BY <1>1, <2>1 DEF WalletsTyped, WalletsSound
  <2>4. IsWallet(v, Messages) /\ Sound(v)
    BY <2>2, <2>3, CreditSound
  <2>5. SetWallet(o, v)
    BY <1>7 DEF Pays
  <2> QED BY <1>1, <2>1, <2>4, <2>5, SetSound
<1> QED BY <1>4, <1>5, <1>6, <1>7 DEF Moves

(* What was charged and paid stays a number of credits. *)
LEMMA MovesHistory ==
  ASSUME TypeOK, NEW h \in Handlers, Moves(h)
  PROVE  charged' \in [Handlers -> Nat] /\ paid' \in [Handlers -> Nat]
<1>1. charged \in [Handlers -> Nat] /\ paid \in [Handlers -> Nat]
  BY DEF TypeOK
<1>2. CASE Reserves(h) \/ Cancels(h)
  BY <1>1, <1>2 DEF Reserves, Cancels, history
<1>3. CASE Charges(h)
  <2>1. bill[h].pre_tax \in Nat
    BY BillType DEF IsBill
  <2> QED BY <1>1, <1>3, <2>1 DEF Charges
<1>4. CASE Pays(h)
  <2>1. bill[h][pc[h]] \in Nat
    BY <1>4, ShareType DEF Pays
  <2>2. paid[h] + bill[h][pc[h]] \in Nat
    BY <1>1, <2>1
  <2> QED BY <1>1, <1>4, <2>2 DEF Pays
<1> QED BY <1>2, <1>3, <1>4 DEF Moves

(* The variables that are not about credits. *)
Labels == Working \cup Done

ControlTyped ==
    /\ mirrors \in SUBSET Messages
    /\ pc \in [Handlers -> Labels]
    /\ DOMAIN bill = Handlers
    /\ \A h \in Handlers : bill[h] \in Bills[h] \cup {NoBill}
    /\ accepted \in [Owners -> Nat]
    /\ seen \in [Handlers -> Nat]
    /\ nudged \in SUBSET Handlers
    /\ surveyed \in SUBSET Handlers
    /\ faults \in 0..MaxFaults

(* Moving one handler to a label, with or without a failure. *)
LEMMA ControlMoves ==
  ASSUME ControlTyped, NEW h \in Handlers, NEW next \in Labels, NEW failed \in Labels,
         \/ Goto(h, next) /\ UNCHANGED faults
         \/ Fault(h, failed)
  PROVE  pc' \in [Handlers -> Labels] /\ faults' \in 0..MaxFaults
BY SettlementAssumption DEF ControlTyped, Goto, Fault

LEMMA HandleControl ==
  ASSUME ControlTyped, NEW h \in Handlers, Handle(h) \/ Stop(h)
  PROVE  ControlTyped'
<1> USE PartyType
<1> USE DEF Succeed, effects, history, wallet_vars, Labels, Working, Shares, Done
<1>1. CASE Stop(h)
  BY <1>1, ControlMoves DEF Stop, ControlTyped
<1>2. CASE Lookup(h)
  BY <1>2, ControlMoves DEF Lookup, ControlTyped
<1>3. CASE FreeDispatch(h)
  BY <1>3, ControlMoves DEF FreeDispatch, ControlTyped
<1>4. CASE PlaceHold(h)
  BY <1>4, ControlMoves DEF PlaceHold, ControlTyped
<1>5. CASE Dispatch(h)
  BY <1>5, ControlMoves DEF Dispatch, ControlTyped
<1>6. CASE Refund(h)
  BY <1>6, ControlMoves DEF Refund, ControlTyped
<1>7. CASE Price(h)
  <2>1. pc' \in [Handlers -> Labels] /\ faults' \in 0..MaxFaults
    BY <1>7, ControlMoves DEF Price
  <2>2. DOMAIN bill' = Handlers /\ \A g \in Handlers : bill'[g] \in Bills[g] \cup {NoBill}
    BY <1>7 DEF Price, ControlTyped
  <2> QED BY <1>7, <2>1, <2>2 DEF Price, ControlTyped
<1>8. CASE Debit(h)
  BY <1>8, ControlMoves DEF Debit, ControlTyped
<1>9. CASE Credit(h)
  <2>1. After(pc[h]) \in Labels
    BY <1>9 DEF Credit, After
  <2>2. pc' \in [Handlers -> Labels] /\ faults' \in 0..MaxFaults
    BY <1>9, <2>1, ControlMoves DEF Credit
  <2> QED BY <1>9, <2>2 DEF Credit, ControlTyped
<1>10. CASE ReadReputation(h)
  <2>1. ServerOf[h] \in Owners
    BY SettlementAssumption
  <2>2. seen' \in [Handlers -> Nat]
    BY <1>10, <2>1 DEF ReadReputation, ControlTyped
  <2> QED BY <1>10, <2>2, ControlMoves DEF ReadReputation, ControlTyped
<1>11. CASE WriteReputation(h)
  <2>1. accepted' \in [Owners -> Nat]
    BY <1>11 DEF WriteReputation, ControlTyped
  <2> QED BY <1>11, <2>1, ControlMoves DEF WriteReputation, ControlTyped
<1>12. CASE Nudge(h)
  BY <1>12, ControlMoves DEF Nudge, ControlTyped
<1>13. CASE Survey(h)
  BY <1>13, ControlMoves DEF Survey, ControlTyped
<1>14. CASE Undo(h)
  BY <1>14, ControlMoves DEF Undo, ControlTyped
<1> QED BY <1>1, <1>2, <1>3, <1>4, <1>5, <1>6, <1>7, <1>8, <1>9, <1>10, <1>11,
           <1>12, <1>13, <1>14 DEF Handle

LEMMA NextControl == ControlTyped /\ Next => ControlTyped'
<1> SUFFICES ASSUME ControlTyped, Next PROVE ControlTyped'
  OBVIOUS
<1>1. CASE \E m \in Messages : ExpireMirror(m)
  BY <1>1 DEF ExpireMirror, ControlTyped, effects
<1>2. CASE \E h \in Handlers : Handle(h) \/ Stop(h)
  BY <1>2, HandleControl
<1> QED BY <1>1, <1>2 DEF Next

-----------------------------------------------------------------------------
(* How far a handler's payment has come, by where the handler is.          *)
Unbilled == {"lookup", "free", "hold", "dispatch", "refund_none", "refund_raise",
             "price", "none", "raised"}
Billed == Shares \cup {"read_rep", "write_rep", "nudge", "survey"}

(* The shares credited before a handler gets to label l. *)
PaidBefore(b, l) ==
    CASE l = "server"  -> 0
      [] l = "compute" -> Positive(b.server)
      [] l = "broker"  -> Positive(b.server) + b.compute
      [] l = "commons" -> Positive(b.server) + b.compute + b.broker
      [] OTHER         -> Positive(b.server) + b.compute + b.broker + b.commons

PaidInFull(h) == charged[h] = bill[h].pre_tax /\ paid[h] = PaidBefore(bill[h], "read_rep")

(* Nothing is charged before the debit, the whole price afterwards, and    *)
(* the shares are credited one label at a time.                            *)
Stage(h) ==
    /\ pc[h] \in Unbilled \cup {"debit"} => charged[h] = 0 /\ paid[h] = 0
    /\ pc[h] \in Billed \cup {"debit"} => bill[h] \in Bills[h]
    /\ pc[h] \in Billed => charged[h] = bill[h].pre_tax /\ paid[h] = PaidBefore(bill[h], pc[h])
    /\ h \in nudged \cup surveyed =>
         pc[h] \in {"survey", "returned", "stopped"} /\ PaidInFull(h)
    /\ charged[h] \in {0, bill[h].pre_tax}
    /\ Solvent => paid[h] <= charged[h]

Stages == \A h \in Handlers : Stage(h)

LEMMA InitStages == Init => Stages
BY DEF Init, Stages, Stage, Unbilled, Billed, Shares

(* A handler's step says nothing about the stage of another. *)
LEMMA OtherStages ==
  ASSUME Stages, NEW h \in Handlers, Stage(h)',
         \A g \in Handlers : g # h =>
            /\ pc'[g] = pc[g] /\ bill'[g] = bill[g]
            /\ charged'[g] = charged[g] /\ paid'[g] = paid[g]
            /\ g \in nudged' <=> g \in nudged
            /\ g \in surveyed' <=> g \in surveyed
  PROVE  Stages'
<1> SUFFICES ASSUME NEW g \in Handlers, g # h PROVE Stage(g)'
  BY DEF Stages
<1>1. Stage(g)
  BY DEF Stages
<1> QED BY <1>1 DEF Stage, PaidInFull

(* The bill of a handler that is about to debit or has debited.            *)
LEMMA SolventBill ==
  ASSUME NEW h \in Handlers, NEW b \in Bills[h]
  PROVE  /\ IsBill(b)
         /\ Solvent => b.server >= 0
BY BillsAssumption DEF IsBill, Solvent

LEMMA HandleStage ==
  ASSUME TypeOK, Stages, NEW h \in Handlers, Handle(h) \/ Stop(h)
  PROVE  Stages'
<1>0. Stage(h) /\ IsBill(bill[h])
  BY BillType DEF Stages
<1> USE <1>0
<1> USE DEF Succeed, Goto, Fault, effects, history, wallet_vars
<1> USE DEF TypeOK
<1>1. CASE Stop(h)
  <2>1. Stage(h)'
    BY <1>1 DEF Stop, Stage, Done, Unbilled, Billed, Shares, PaidInFull
  <2> QED BY <1>1, <2>1, OtherStages DEF Stop
<1>2. CASE Lookup(h) \/ FreeDispatch(h)
  <2>1. Stage(h)'
    BY <1>2 DEF Lookup, FreeDispatch, Stage, Unbilled, Billed, Shares, PaidInFull
  <2> QED BY <1>2, <2>1, OtherStages DEF Lookup, FreeDispatch
<1>3. CASE PlaceHold(h)
  <2>1. Stage(h)'
    BY <1>3 DEF PlaceHold, Stage, Unbilled, Billed, Shares, PaidInFull
  <2> QED BY <1>3, <2>1, OtherStages DEF PlaceHold
<1>4. CASE Dispatch(h)
  <2>1. Stage(h)'
    BY <1>4 DEF Dispatch, Stage, Unbilled, Billed, Shares, PaidInFull
  <2> QED BY <1>4, <2>1, OtherStages DEF Dispatch
<1>5. CASE Refund(h)
  <2>1. Stage(h)'
    BY <1>5 DEF Refund, Stage, Unbilled, Billed, Shares, PaidInFull
  <2> QED BY <1>5, <2>1, OtherStages DEF Refund
<1>6. CASE Price(h)
  <2>1. Stage(h)'
    BY <1>6 DEF Price, Stage, Unbilled, Billed, Shares, PaidInFull
  <2> QED BY <1>6, <2>1, OtherStages DEF Price
<1>7. CASE Debit(h)
  <2>1. Stage(h)'
    BY <1>7, SolventBill DEF Debit, Stage, Unbilled, Billed, Shares, PaidInFull, PaidBefore, IsBill
  <2> QED BY <1>7, <2>1, OtherStages DEF Debit
<1>8. CASE Credit(h)
  <2> DEFINE l == pc[h]
             b == bill[h]
  <2>1. l \in Shares /\ b \in Bills[h] /\ (Solvent => b.server >= 0)
    BY <1>8, SolventBill DEF Credit, Stage, Billed
  <2>2. /\ charged[h] = b.pre_tax /\ charged'[h] = b.pre_tax
        /\ bill' = bill /\ nudged' = nudged /\ surveyed' = surveyed
        /\ h \notin nudged \cup surveyed
    BY <1>8, <2>1 DEF Credit, Stage, Billed, Shares
  <2>3. b[l] \in Int
    BY <2>1 DEF Shares, IsBill
  <2>4. paid'[h] \in {paid[h], paid[h] + Positive(b[l])}
        /\ (pc'[h] = After(l) => paid'[h] = paid[h] + Positive(b[l]))
    BY <1>8, <2>3 DEF Credit, Positive, After, Shares
  <2>5. PaidBefore(b, After(l)) = PaidBefore(b, l) + Positive(b[l])
    BY <2>1, <2>3 DEF PaidBefore, After, Positive, Shares, IsBill
  <2>6. Solvent => paid'[h] <= charged'[h]
    <3> SUFFICES ASSUME Solvent PROVE paid'[h] <= b.pre_tax
      BY <2>2
    <3>1. paid[h] = PaidBefore(b, l)
      BY <2>1 DEF Stage, Billed
    <3>2. PaidBefore(b, l) <= b.pre_tax /\ PaidBefore(b, After(l)) <= b.pre_tax
      BY <2>1 DEF PaidBefore, After, Positive, Shares, IsBill
    <3> QED BY <2>4, <2>5, <3>1, <3>2
  <2>7. pc'[h] \in {After(l), "undo"}
    BY <1>8 DEF Credit
  <2>8. After(l) \in Billed \ {"survey"}
    BY <2>1 DEF After, Billed, Shares
  <2>9. Stage(h)'
    BY <2>1, <2>2, <2>4, <2>5, <2>6, <2>7, <2>8 DEF Stage, Unbilled, Billed, Shares
  <2> QED BY <1>8, <2>9, OtherStages DEF Credit
<1>9. CASE ReadReputation(h) \/ WriteReputation(h)
  <2>1. Stage(h)'
    BY <1>9 DEF ReadReputation, WriteReputation, Stage, Unbilled, Billed, Shares, PaidInFull, PaidBefore
  <2> QED BY <1>9, <2>1, OtherStages DEF ReadReputation, WriteReputation
<1>10. CASE Nudge(h)
  <2>1. Stage(h)'
    BY <1>10 DEF Nudge, Stage, Unbilled, Billed, Shares, PaidInFull, PaidBefore
  <2> QED BY <1>10, <2>1, OtherStages DEF Nudge
<1>11. CASE Survey(h)
  <2>1. Stage(h)'
    BY <1>11 DEF Survey, Stage, Unbilled, Billed, Shares, PaidInFull, PaidBefore
  <2> QED BY <1>11, <2>1, OtherStages DEF Survey
<1>12. CASE Undo(h)
  <2>1. Stage(h)'
    BY <1>12 DEF Undo, Stage, Unbilled, Billed, Shares, PaidInFull
  <2> QED BY <1>12, <2>1, OtherStages DEF Undo
<1> QED BY <1>1, <1>2, <1>3, <1>4, <1>5, <1>6, <1>7, <1>8, <1>9, <1>10, <1>11, <1>12
        DEF Handle

(* A step of the clock is not about any handler's payment. *)
LEMMA NextStages == TypeOK /\ Stages /\ Next => Stages'
<1> SUFFICES ASSUME TypeOK, Stages, Next PROVE Stages'
  OBVIOUS
<1>1. CASE \E m \in Messages : ExpireMirror(m)
  BY <1>1 DEF ExpireMirror, Stages, Stage, PaidInFull, effects, history
<1>2. CASE \E h \in Handlers : Handle(h) \/ Stop(h)
  BY <1>2, HandleStage
<1> QED BY <1>1, <1>2 DEF Next

-----------------------------------------------------------------------------
(* Conservation.  Balances are numbers of credits because a sound wallet   *)
(* covers its holds.                                                       *)
LEMMA BalanceType ==
  ASSUME NEW w, IsWallet(w, Messages), Sound(w)
  PROVE  w.balance \in Nat
<1>1. IsFiniteSet(DOMAIN w.holds)
  BY SettlementAssumption, FS_Subset DEF IsWallet
<1>2. w.holds \in [DOMAIN w.holds -> Nat]
  BY DEF IsWallet
<1>3. Total(w.holds) \in Nat
  BY <1>1, <1>2, TotalType
<1> QED BY <1>3 DEF IsWallet, Sound

(* A wallet is replaced by one that is worth n credits more or less: the   *)
(* wallets together are worth that much more or less.                      *)
LEMMA SetBalance ==
  ASSUME WalletsTyped, WalletsSound, WalletsTyped', WalletsSound',
         NEW o \in Owners, NEW w, SetWallet(o, w)
  PROVE  /\ Total(Balances) \in Nat /\ Total(Balances') \in Nat
         /\ Total(Balances') = Total(Balances) - wallets[o].balance + w.balance
<1> DEFINE f == Balances
           g == Balances'
<1>1. f \in [Owners -> Nat] /\ g \in [Owners -> Nat]
  BY BalanceType DEF Balances, WalletsTyped, WalletsSound
<1>2. \A p \in Owners : wallets'[p] = IF p = o THEN w ELSE wallets[p]
  BY DEF WalletsTyped, SetWallet
<1>3. f[o] = wallets[o].balance /\ g[o] = w.balance
  BY <1>2 DEF Balances
<1>4. \A p \in Owners : p # o => g[p] = f[p]
  BY <1>2 DEF Balances
<1>5. IsFiniteSet(Owners)
  BY SettlementAssumption
<1> QED BY <1>1, <1>3, <1>4, <1>5, TotalChange

(* The same for what one handler charged or paid. *)
LEMMA SetHistory ==
  ASSUME NEW f \in [Handlers -> Nat], NEW g \in [Handlers -> Nat], NEW h \in Handlers,
         \A k \in Handlers : k # h => g[k] = f[k]
  PROVE  /\ Total(f) \in Nat /\ Total(g) \in Nat
         /\ Total(g) = Total(f) - f[h] + g[h]
BY SettlementAssumption, TotalChange

LEMMA MovesConserve ==
  ASSUME TypeOK, WalletsSound, Stages, CreditsConserved,
         NEW h \in Handlers, Moves(h)
  PROVE  CreditsConserved'
<1> DEFINE c == Caller(h)
           w == wallets[c]
<1>1. WalletsTyped /\ charged \in [Handlers -> Nat] /\ paid \in [Handlers -> Nat]
  BY DEF TypeOK, WalletsTyped
<1>2. WalletsTyped' /\ WalletsSound' /\ charged' \in [Handlers -> Nat] /\ paid' \in [Handlers -> Nat]
  BY MovesSound, MovesHistory
<1>3. c \in Owners /\ Msg(h) \in Messages
  BY PartyType
<1>4. Endowment' = Endowment
  BY DEF Endowment
<1>5. IsWallet(w, Messages)
  BY <1>1, <1>3 DEF WalletsTyped
<1>6. CASE Reserves(h)
  <2> DEFINE v == ApplyHold(w, Msg(h), HoldAmount[h])
  <2>1. v.balance = w.balance
    BY <1>5 DEF ApplyHold, IsWallet
  <2>2. SetWallet(c, v) /\ charged' = charged /\ paid' = paid
    BY <1>6 DEF Reserves, history
  <2>3. Total(Balances') = Total(Balances) - w.balance + v.balance /\ Total(Balances) \in Nat
    BY <1>1, <1>2, <1>3, <2>2, SetBalance
  <2>4. Total(Balances') = Total(Balances)
    BY <1>5, <2>1, <2>3 DEF IsWallet
  <2> QED BY <1>4, <2>2, <2>4 DEF CreditsConserved
<1>7. CASE Cancels(h)
  <2> DEFINE v == ApplyRefund(w, Msg(h))
  <2>1. v.balance = w.balance
    BY DEF ApplyRefund
  <2>2. SetWallet(c, v) /\ charged' = charged /\ paid' = paid
    BY <1>7 DEF Cancels, history
  <2>3. Total(Balances') = Total(Balances) - w.balance + v.balance /\ Total(Balances) \in Nat
    BY <1>1, <1>2, <1>3, <2>2, SetBalance
  <2>4. Total(Balances') = Total(Balances)
    BY <1>5, <2>1, <2>3 DEF IsWallet
  <2> QED BY <1>4, <2>2, <2>4 DEF CreditsConserved
<1>8. CASE Charges(h)
  <2> DEFINE price == bill[h].pre_tax
             v == ApplyRelease(w, Msg(h), price)
  <2>1. price \in Nat
    BY BillType DEF IsBill
  <2>2. v.balance = w.balance - price
    BY DEF ApplyRelease
  <2>3. SetWallet(c, v) /\ charged' = [charged EXCEPT ![h] = price] /\ paid' = paid
    BY <1>8 DEF Charges
  <2>4. Total(Balances') = Total(Balances) - w.balance + v.balance /\ Total(Balances) \in Nat
    BY <1>1, <1>2, <1>3, <2>3, SetBalance
  <2>5. Total(Balances') = Total(Balances) - price
    BY <1>5, <2>1, <2>2, <2>4 DEF IsWallet
  <2>6. charged[h] = 0
    BY <1>8 DEF Charges, Stages, Stage
  <2>7. Total(charged) \in Nat /\ Total(charged') = Total(charged) - charged[h] + price
    <3>1. charged'[h] = price /\ \A k \in Handlers : k # h => charged'[k] = charged[k]
      BY <1>1, <2>3
    <3> QED BY <1>1, <1>2, <3>1, SetHistory
  <2>8. Total(charged') = Total(charged) + price
    BY <2>1, <2>6, <2>7
  <2> QED BY <1>4, <2>1, <2>3, <2>4, <2>5, <2>7, <2>8 DEF CreditsConserved
<1>9. CASE Pays(h)
  <2> DEFINE o == Recipient(h, pc[h])
             amount == bill[h][pc[h]]
             v == ApplyCredit(wallets[o], amount)
  <2>1. o \in Owners
    BY <1>9, PartyType DEF Pays
  <2>2. amount \in Nat
    BY <1>9, ShareType DEF Pays
  <2>3. IsWallet(wallets[o], Messages)
    BY <1>1, <2>1 DEF WalletsTyped
  <2>4. v.balance = wallets[o].balance + amount
    BY <2>3 DEF ApplyCredit, IsWallet
  <2>5. SetWallet(o, v) /\ paid' = [paid EXCEPT ![h] = paid[h] + amount] /\ charged' = charged
    BY <1>9 DEF Pays
  <2>6. Total(Balances') = Total(Balances) - wallets[o].balance + v.balance /\ Total(Balances) \in Nat
    BY <1>1, <1>2, <2>1, <2>5, SetBalance
  <2>7. Total(Balances') = Total(Balances) + amount
    BY <2>2, <2>3, <2>4, <2>6 DEF IsWallet
  <2>8. Total(paid) \in Nat /\ Total(paid') = Total(paid) - paid[h] + (paid[h] + amount)
    <3>1. paid'[h] = paid[h] + amount /\ \A k \in Handlers : k # h => paid'[k] = paid[k]
      BY <1>1, <2>5
    <3> QED BY <1>1, <1>2, <3>1, SetHistory
  <2>9. Total(paid') = Total(paid) + amount /\ Total(charged) \in Nat
    <3>1. Total(charged) \in Nat
      BY <1>1, SettlementAssumption, TotalType
    <3> QED BY <1>1, <2>2, <2>8, <3>1
  <2>10. Endowment \in Int
    <3>1. [p \in Owners |-> INITIAL_FUND] \in [Owners -> Nat]
      BY FundAssumption
    <3> QED BY <3>1, SettlementAssumption, TotalType DEF Endowment
  <2> QED BY <1>4, <2>2, <2>5, <2>6, <2>7, <2>8, <2>9, <2>10 DEF CreditsConserved
<1> QED BY <1>6, <1>7, <1>8, <1>9 DEF Moves

-----------------------------------------------------------------------------
(* The inductive invariant.  Conservation alone is not inductive: that a   *)
(* debit is only taken once needs the stages, and that a price fits the    *)
(* wallet needs the wallets to be sound.                                   *)
IInv == TypeOK /\ WalletsSound /\ Stages /\ CreditsConserved

LEMMA TypeParts ==
  TypeOK <=> /\ WalletsTyped /\ ControlTyped
             /\ charged \in [Handlers -> Nat] /\ paid \in [Handlers -> Nat]
BY DEF TypeOK, WalletsTyped, ControlTyped, Labels

LEMMA InitIInv == Init => IInv
<1> SUFFICES ASSUME Init PROVE IInv
  OBVIOUS
<1>1. WalletsTyped /\ WalletsSound
  <2>1. IsWallet(FreshWallet, Messages) /\ Sound(FreshWallet)
    BY FreshWalletSound DEF IsWallet
  <2> QED BY <2>1 DEF Init, WalletsTyped, WalletsSound
<1>2. ControlTyped
  BY SettlementAssumption DEF Init, ControlTyped, Labels, Working
<1>3. charged \in [Handlers -> Nat] /\ paid \in [Handlers -> Nat]
  BY DEF Init
<1>4. CreditsConserved
  <2>1. Balances = [o \in Owners |-> INITIAL_FUND]
    BY DEF Init, Balances, FreshWallet
  <2>2. charged = paid
    BY DEF Init
  <2> QED BY <2>1, <2>2 DEF CreditsConserved, Endowment
<1> QED BY <1>1, <1>2, <1>3, <1>4, InitStages, TypeParts DEF IInv

LEMMA NextIInv == IInv /\ [Next]_vars => IInv'
<1> SUFFICES ASSUME IInv, [Next]_vars PROVE IInv'
  OBVIOUS
<1> USE DEF IInv
<1>1. CASE UNCHANGED vars
  <2>1. TypeOK'
    BY <1>1 DEF vars, TypeOK
  <2>2. WalletsSound' /\ CreditsConserved'
    BY <1>1 DEF vars, WalletsSound, CreditsConserved, Balances, Endowment
  <2>3. Stages'
    BY <1>1 DEF vars, Stages, Stage, PaidInFull
  <2> QED BY <2>1, <2>2, <2>3
<1>2. CASE Next
  <2>1. ControlTyped'
    BY <1>2, NextControl, TypeParts
  <2>2. Stages'
    BY <1>2, NextStages
  <2>3. CASE Quiet
    <3>1. WalletsTyped' /\ WalletsSound' /\ CreditsConserved'
      BY <2>3, TypeParts DEF Quiet, WalletsTyped, WalletsSound, CreditsConserved, Balances, Endowment
    <3>2. charged' \in [Handlers -> Nat] /\ paid' \in [Handlers -> Nat]
      BY <2>3, TypeParts DEF Quiet
    <3>3. TypeOK'
      BY <2>1, <3>1, <3>2 DEF TypeOK, WalletsTyped, ControlTyped, Labels
    <3> QED BY <2>2, <3>1, <3>3
  <2>4. CASE \E h \in Handlers : Moves(h)
    <3> PICK h \in Handlers : Moves(h)
      BY <2>4
    <3>1. WalletsTyped' /\ WalletsSound' /\ CreditsConserved'
      BY MovesSound, MovesConserve
    <3>2. charged' \in [Handlers -> Nat] /\ paid' \in [Handlers -> Nat]
      BY MovesHistory
    <3>3. TypeOK'
      BY <2>1, <3>1, <3>2 DEF TypeOK, WalletsTyped, ControlTyped, Labels
    <3> QED BY <2>2, <3>1, <3>3
  <2> QED BY <1>2, <2>3, <2>4, StepMoves
<1> QED BY <1>1, <1>2

LEMMA IInvHolds == Spec => []IInv
BY InitIInv, NextIInv, PTL DEF Spec

(* Every variable of the settlement keeps its type: no handler ends        *)
(* anywhere else than in the labels of the code, whatever fails.           *)
THEOREM SettlementTypeCorrect == Spec => []TypeOK
<1>1. IInv => TypeOK
  BY DEF IInv
<1> QED BY <1>1, IInvHolds, PTL

(* No interleaving of holds, settlements and refunds, and no failure among *)
(* them, drives a wallet negative or leaves it unable to honour its holds. *)
THEOREM SettlementKeepsWalletsSound == Spec => []WalletsSound
<1>1. IInv => WalletsSound
  BY DEF IInv
<1> QED BY <1>1, IInvHolds, PTL

(* Credits are only moved, for any number of wallets, calls and failures:  *)
(* Broker.settle creates none beyond what it charges, and what is missing  *)
(* from the wallets was charged and not passed on.                         *)
THEOREM CreditsAreConserved == Spec => []CreditsConserved
<1>1. IInv => CreditsConserved
  BY DEF IInv
<1> QED BY <1>1, IInvHolds, PTL

(* A caller that the engine told there is no answer was charged nothing.   *)
THEOREM NoAnswerNoCharge == Spec => []ChargedOnlyIfAnswered
<1>1. IInv => ChargedOnlyIfAnswered
  BY DEF IInv, Stages, Stage, ChargedOnlyIfAnswered, Unbilled
<1> QED BY <1>1, IInvHolds, PTL

(* If no leaf costs more than its call earns, the recipients of a call     *)
(* never receive more than its caller was charged.                         *)
THEOREM SolventSettlementsMintNothing ==
  ASSUME Solvent
  PROVE  Spec => []NoCreditsMinted
<1>1. IInv => NoCreditsMinted
  BY DEF IInv, Stages, Stage, NoCreditsMinted
<1> QED BY <1>1, IInvHolds, PTL

(* A responder is only rewarded, and a caller only asked for a survey, for *)
(* an answered call that was charged and paid out in full, whatever failed *)
(* around it and whatever its leaf costs.                                  *)
THEOREM RewardedCallsArePaid == Spec => []RewardsFollowPayment
<1>1. ASSUME IInv PROVE RewardsFollowPayment
  BY <1>1 DEF IInv, TypeOK, Stages, Stage, PaidInFull, PaidBefore, Payout, RewardsFollowPayment
<1> QED BY <1>1, IInvHolds, PTL

-----------------------------------------------------------------------------
(* The escrow.  What a step does to the holds of the caller's wallet it    *)
(* does to the reserves.                                                   *)
LEMMA ReserveType ==
  ASSUME NEW m \in Messages
  PROVE  /\ m \in DOMAIN Reserve <=> IsOpen(m)
         /\ IsOpen(m) => Reserve[m] = wallets[CallerOf[m]].holds[m]
         /\ m \in DOMAIN Reserve' <=> IsOpen(m)'
         /\ IsOpen(m)' => Reserve'[m] = wallets'[CallerOf[m]].holds[m]
BY DEF Reserve

LEMMA ReserveAfterOpen ==
  ASSUME WalletsTyped, NEW h \in Handlers, Reserves(h)
  PROVE  Reserve' = IF Msg(h) \in DOMAIN Reserve THEN Reserve
                    ELSE With(Reserve, Msg(h), HoldAmount[h])
<1> DEFINE c == Caller(h)
           i == Msg(h)
           w == wallets[c]
           v == ApplyHold(w, i, HoldAmount[h])
<1>1. c \in Owners /\ i \in Messages /\ c = CallerOf[i]
  BY PartyType DEF Caller
<1>2. \A o \in Owners : wallets'[o] = IF o = c THEN v ELSE wallets[o]
  BY DEF WalletsTyped, SetWallet, Reserves
<1>3. \A m \in Messages : CallerOf[m] \in Owners
  BY SettlementAssumption
<1>4. IsWallet(w, Messages)
  BY <1>1 DEF WalletsTyped
<1>5. CASE IsHeld(w, i)
  <2>1. v = w
    BY <1>5 DEF ApplyHold
  <2>2. \A m \in Messages : wallets'[CallerOf[m]] = wallets[CallerOf[m]]
    BY <1>2, <1>3, <2>1
  <2>3. i \in DOMAIN Reserve
    BY <1>1, <1>5 DEF Reserve, IsOpen
  <2>4. Reserve' = Reserve
    BY <2>2 DEF Reserve, IsOpen, IsHeld
  <2> QED BY <2>3, <2>4
<1>6. CASE ~IsHeld(w, i)
  <2>1. v.holds = With(w.holds, i, HoldAmount[h])
    BY <1>4, <1>6 DEF ApplyHold, IsWallet
  <2>2. \A m \in Messages : m # i => (IsHeld(v, m) <=> IsHeld(w, m)) /\ (IsHeld(w, m) => v.holds[m] = w.holds[m])
    BY <2>1 DEF IsHeld, With
  <2>3. IsHeld(v, i) /\ v.holds[i] = HoldAmount[h]
    BY <2>1 DEF IsHeld, With
  <2>4. \A m \in Messages : IsOpen(m)' <=> IsOpen(m) \/ m = i
    BY <1>1, <1>2, <1>3, <2>2, <2>3 DEF IsOpen
  <2>5. i \notin DOMAIN Reserve
    BY <1>1, <1>6 DEF Reserve, IsOpen
  <2>6. DOMAIN Reserve' = DOMAIN Reserve \cup {i}
    BY <1>1, <2>4 DEF Reserve
  <2>7. \A m \in DOMAIN Reserve' : Reserve'[m] = IF m = i THEN HoldAmount[h] ELSE Reserve[m]
    BY <1>1, <1>2, <1>3, <2>2, <2>3, <2>4, ReserveType DEF Reserve, IsOpen
  <2>8. Reserve' = [m \in DOMAIN Reserve' |-> Reserve'[m]]
    BY DEF Reserve
  <2>9. Reserve' = With(Reserve, i, HoldAmount[h])
    BY <2>6, <2>7, <2>8 DEF With
  <2> QED BY <2>5, <2>9
<1> QED BY <1>5, <1>6

LEMMA ReserveAfterClose ==
  ASSUME WalletsTyped, NEW h \in Handlers, IsHeld(wallets[Caller(h)], Msg(h)),
         NEW v, SetWallet(Caller(h), v), v.holds = Without(wallets[Caller(h)].holds, Msg(h))
  PROVE  /\ Msg(h) \in DOMAIN Reserve
         /\ Reserve[Msg(h)] = wallets[Caller(h)].holds[Msg(h)]
         /\ Reserve' = Without(Reserve, Msg(h))
<1> DEFINE c == Caller(h)
           i == Msg(h)
           w == wallets[c]
<1>1. c \in Owners /\ i \in Messages /\ c = CallerOf[i]
  BY PartyType DEF Caller
<1>2. \A o \in Owners : wallets'[o] = IF o = c THEN v ELSE wallets[o]
  BY DEF WalletsTyped, SetWallet
<1>3. \A m \in Messages : CallerOf[m] \in Owners
  BY SettlementAssumption
<1>4. \A m \in Messages : m # i => (IsHeld(v, m) <=> IsHeld(w, m)) /\ (IsHeld(w, m) => v.holds[m] = w.holds[m])
  BY DEF IsHeld, Without
<1>5. ~IsHeld(v, i)
  BY DEF IsHeld, Without
<1>6. \A m \in Messages : IsOpen(m)' <=> IsOpen(m) /\ m # i
  BY <1>1, <1>2, <1>3, <1>4, <1>5 DEF IsOpen
<1>7. IsOpen(i)
  BY <1>1 DEF IsOpen
<1>8. DOMAIN Reserve' = DOMAIN Reserve \ {i}
  BY <1>6 DEF Reserve
<1>9. \A m \in DOMAIN Reserve' : Reserve'[m] = Reserve[m]
  BY <1>2, <1>3, <1>4, <1>6, ReserveType DEF Reserve, IsOpen
<1>10. Reserve' = [m \in DOMAIN Reserve' |-> Reserve'[m]]
  BY DEF Reserve
<1>11. Reserve' = Without(Reserve, i)
  BY <1>8, <1>9, <1>10 DEF Without
<1> QED BY <1>1, <1>7, <1>11, ReserveType

LEMMA ReserveAfterPay ==
  ASSUME WalletsTyped, NEW h \in Handlers, Pays(h)
  PROVE  Reserve' = Reserve
<1> DEFINE o == Recipient(h, pc[h])
           v == ApplyCredit(wallets[o], bill[h][pc[h]])
<1>1. o \in Owners
  BY PartyType DEF Pays
<1>2. v.holds = wallets[o].holds
  BY <1>1 DEF ApplyCredit, WalletsTyped, IsWallet
<1>3. \A p \in Owners : wallets'[p] = IF p = o THEN v ELSE wallets[p]
  BY DEF WalletsTyped, SetWallet, Pays
<1>4. \A p \in Owners : wallets'[p].holds = wallets[p].holds
  BY <1>2, <1>3
<1>5. \A m \in Messages : CallerOf[m] \in Owners
  BY SettlementAssumption
<1> QED BY <1>4, <1>5 DEF Reserve, IsOpen, IsHeld

-----------------------------------------------------------------------------
(* The escrow's dictionaries are this module's. *)
LEMMA SameHelpers ==
  /\ \A f, x : ThisEscrow!Without(f, x) = Without(f, x)
  /\ \A f, x, v : ThisEscrow!With(f, x, v) = With(f, x, v)
  /\ ThisEscrow!NoCredits = NoCredits
BY DEF ThisEscrow!Without, ThisEscrow!With, ThisEscrow!NoCredits, Without, With, NoCredits

LEMMA EscrowOpen ==
  ASSUME NEW h \in Handlers, MessageOf[h] \notin DOMAIN Reserve,
         Reserve' = With(Reserve, MessageOf[h], HoldAmount[h]), UNCHANGED <<charged, paid>>
  PROVE  ThisEscrow!Next
BY SameHelpers DEF ThisEscrow!Next, ThisEscrow!Open

LEMMA EscrowCancel ==
  ASSUME NEW m \in Messages, m \in DOMAIN Reserve, Reserve' = Without(Reserve, m),
         UNCHANGED <<charged, paid>>
  PROVE  ThisEscrow!Next
BY SameHelpers DEF ThisEscrow!Next, ThisEscrow!Cancel

LEMMA EscrowCharge ==
  ASSUME NEW h \in Handlers, MessageOf[h] \in DOMAIN Reserve, charged[h] = 0,
         NEW price \in 0..Reserve[MessageOf[h]],
         charged' = [charged EXCEPT ![h] = price],
         Reserve' = Without(Reserve, MessageOf[h]), UNCHANGED paid
  PROVE  ThisEscrow!Next
BY SameHelpers DEF ThisEscrow!Next, ThisEscrow!Charge

LEMMA EscrowPay ==
  ASSUME NEW h \in Handlers, NEW total \in paid[h] + 1..charged[h],
         paid' = [paid EXCEPT ![h] = total], Reserve' = Reserve, UNCHANGED charged
  PROVE  ThisEscrow!Next
BY DEF ThisEscrow!Next, ThisEscrow!Pay

(* Each way of moving credits is a step of the escrow, or none. *)
LEMMA MovesImplement ==
  ASSUME IInv, Solvent, Stages', NEW h \in Handlers, Moves(h)
  PROVE  [ThisEscrow!Next]_(ThisEscrow!vars)
<1> DEFINE i == Msg(h)
           w == wallets[Caller(h)]
<1>1. WalletsTyped /\ charged \in [Handlers -> Nat] /\ paid \in [Handlers -> Nat]
  BY TypeParts DEF IInv
<1>2. i \in Messages /\ i = MessageOf[h] /\ Caller(h) \in Owners
  BY PartyType DEF Msg, Caller
<1>3. CASE Reserves(h)
  <2>1. Reserve' = IF i \in DOMAIN Reserve THEN Reserve ELSE With(Reserve, i, HoldAmount[h])
    BY <1>1, <1>3, ReserveAfterOpen
  <2>2. UNCHANGED <<charged, paid>>
    BY <1>3 DEF Reserves, history
  <2>3. CASE i \in DOMAIN Reserve
    BY <2>1, <2>2, <2>3 DEF ThisEscrow!vars
  <2>4. CASE i \notin DOMAIN Reserve
    BY <1>2, <2>1, <2>2, <2>4, EscrowOpen
  <2> QED BY <2>3, <2>4
<1>4. CASE Cancels(h)
  <2> DEFINE v == ApplyRefund(w, i)
  <2>1. IsHeld(w, i)
    BY <1>4 DEF Cancels, RefundOutcome, OK, UnknownHoldError
  <2>2. v.holds = Without(w.holds, i) /\ SetWallet(Caller(h), v) /\ UNCHANGED <<charged, paid>>
    BY <1>4 DEF Cancels, ApplyRefund, history
  <2>3. i \in DOMAIN Reserve /\ Reserve' = Without(Reserve, i)
    BY <1>1, <2>1, <2>2, ReserveAfterClose
  <2> QED BY <1>2, <2>2, <2>3, EscrowCancel
<1>5. CASE Charges(h)
  <2> DEFINE price == bill[h].pre_tax
             v == ApplyRelease(w, i, price)
  <2>1. IsHeld(w, i) /\ ~(price > w.holds[i])
    BY <1>5 DEF Charges, ReleaseOutcome, OK, UnknownHoldError, InsufficientFundsError
  <2>2. v.holds = Without(w.holds, i) /\ SetWallet(Caller(h), v)
    BY <1>5 DEF Charges, ApplyRelease
  <2>3. i \in DOMAIN Reserve /\ Reserve[i] = w.holds[i] /\ Reserve' = Without(Reserve, i)
    BY <1>1, <2>1, <2>2, ReserveAfterClose
  <2>4. price \in 0..Reserve[i]
    <3>1. price \in Nat
      BY BillType DEF IInv, IsBill
    <3>2. w.holds[i] \in Nat
      BY <1>1, <1>2, <2>1 DEF WalletsTyped, IsWallet, IsHeld
    <3> QED BY <2>1, <2>3, <3>1, <3>2
  <2>5. charged[h] = 0
    BY <1>5 DEF Charges, IInv, Stages, Stage
  <2>6. charged' = [charged EXCEPT ![h] = price] /\ UNCHANGED paid
    BY <1>5 DEF Charges
  <2> QED BY <1>2, <2>3, <2>4, <2>5, <2>6, EscrowCharge
<1>6. CASE Pays(h)
  <2> DEFINE amount == bill[h][pc[h]]
             total == paid[h] + amount
  <2>1. Reserve' = Reserve
    BY <1>1, <1>6, ReserveAfterPay
  <2>2. amount \in Nat /\ amount > 0
    BY <1>6, ShareType DEF Pays, IInv
  <2>3. UNCHANGED charged /\ paid' = [paid EXCEPT ![h] = total]
    BY <1>6 DEF Pays
  <2>4. total <= charged[h]
    BY <1>1, <2>3 DEF Stages, Stage
  <2>5. total \in paid[h] + 1..charged[h]
    BY <1>1, <2>2, <2>4
  <2> QED BY <2>1, <2>3, <2>5, EscrowPay
<1> QED BY <1>3, <1>4, <1>5, <1>6 DEF Moves

LEMMA NextImplements ==
  IInv /\ IInv' /\ Solvent /\ [Next]_vars => [ThisEscrow!Next]_(ThisEscrow!vars)
<1> SUFFICES ASSUME IInv, IInv', Solvent, [Next]_vars
             PROVE  [ThisEscrow!Next]_(ThisEscrow!vars)
  OBVIOUS
<1>1. CASE Quiet
  BY <1>1 DEF Quiet, Reserve, IsOpen, ThisEscrow!vars
<1>2. CASE \E h \in Handlers : Moves(h)
  BY <1>2, MovesImplement DEF IInv
<1>3. CASE UNCHANGED vars
  BY <1>1, <1>3 DEF vars, Quiet
<1> QED BY <1>1, <1>2, <1>3, StepMoves

LEMMA InitImplements == Init => ThisEscrow!Init
<1> SUFFICES ASSUME Init PROVE ThisEscrow!Init
  OBVIOUS
<1>1. \A m \in Messages : ~IsOpen(m)
  BY SettlementAssumption DEF Init, IsOpen, IsHeld, FreshWallet, NoCredits
<1>2. Reserve = NoCredits
  BY <1>1 DEF Reserve, NoCredits
<1> QED BY <1>2, SameHelpers DEF Init, ThisEscrow!Init

(* If no leaf costs more than its call earns, the settlement does with a   *)
(* caller's credits only what the escrow allows: one charge per handler,   *)
(* within the hold, which it closes; and payouts within the charge.        *)
THEOREM SolventSettlementImplementsEscrow ==
  ASSUME Solvent
  PROVE  Spec => ImplementsEscrow
<1>1. IInv /\ IInv' /\ [Next]_vars => [ThisEscrow!Next]_(ThisEscrow!vars)
  BY NextImplements
<1> QED BY <1>1, InitImplements, IInvHolds, PTL DEF Spec, ThisEscrow!Spec, ImplementsEscrow

-----------------------------------------------------------------------------
(* Behaviours in which nothing fails.  What a handler's step does then, by *)
(* where it takes the handler.                                             *)
Holding == {"dispatch", "refund_none", "refund_raise", "price", "debit", "undo"}
Earning == Billed \ Shares

HoldClosed(h) == Cancels(h) \/ (Quiet /\ ~IsOpen(Msg(h)))

CalmStep(h) ==
    \/ /\ pc[h] = "hold" /\ pc'[h] = "dispatch" /\ Reserves(h) /\ bill'[h] = bill[h]
    \/ /\ pc[h] \in {"lookup", "free", "hold"}
       /\ pc'[h] \in {"free", "hold", "returned", "none", "raised"}
       /\ Quiet /\ bill'[h] = bill[h]
    \/ /\ pc[h] = "dispatch" /\ pc'[h] \in {"price", "refund_none", "refund_raise"}
       /\ Quiet /\ bill'[h] = bill[h]
    \/ /\ pc[h] = "price" /\ pc'[h] = "debit" /\ Quiet
    \/ /\ pc[h] = "debit" /\ pc'[h] = "server" /\ Charges(h) /\ bill'[h] = bill[h]
    \/ /\ pc[h] = "debit" /\ pc'[h] = "undo" /\ Quiet /\ bill'[h] = bill[h]
       /\ ReleaseOutcome(wallets[Caller(h)], Msg(h), bill[h].pre_tax) # OK
    \/ /\ pc[h] \in {"refund_none", "refund_raise"} /\ pc'[h] \in {"none", "raised"}
       /\ HoldClosed(h) /\ bill'[h] = bill[h]
    \/ /\ pc[h] = "undo" /\ pc'[h] = "returned" /\ HoldClosed(h) /\ bill'[h] = bill[h]
    \/ /\ pc[h] \in Shares /\ pc'[h] \in Billed /\ (Pays(h) \/ Quiet) /\ bill'[h] = bill[h]
    \/ /\ pc[h] \in Earning /\ pc'[h] \in Billed /\ Quiet /\ bill'[h] = bill[h]
    \/ /\ pc[h] = "survey" /\ pc'[h] = "returned" /\ Quiet /\ bill'[h] = bill[h]

LEMMA CalmSteps ==
  ASSUME ControlTyped, NEW h \in Handlers, Handle(h), faults' = 0
  PROVE  /\ faults = 0 /\ CalmStep(h)
         /\ \A g \in Handlers : g # h => pc'[g] = pc[g] /\ bill'[g] = bill[g]
<1> USE DEF Quiet, history, wallet_vars, effects, Billed, Earning, Shares
<1>1. pc \in [Handlers -> Labels] /\ faults \in Nat /\ DOMAIN bill = Handlers
  BY SettlementAssumption DEF ControlTyped
<1>2. \A l : ~Fault(h, l)
  BY <1>1 DEF Fault
<1>3. \A l : Goto(h, l) => pc'[h] = l /\ \A g \in Handlers : g # h => pc'[g] = pc[g]
  BY <1>1 DEF Goto
<1>4. IsOpen(Msg(h)) <=> RefundOutcome(wallets[Caller(h)], Msg(h)) = OK
  BY DEF IsOpen, Caller, RefundOutcome, OK, UnknownHoldError
<1>5. CASE Lookup(h)
  BY <1>2, <1>3, <1>5 DEF Lookup, CalmStep
<1>6. CASE FreeDispatch(h)
  BY <1>2, <1>3, <1>6 DEF FreeDispatch, CalmStep
<1>7. CASE PlaceHold(h)
  BY <1>2, <1>3, <1>7 DEF PlaceHold, Succeed, Reserves, CalmStep
<1>8. CASE Dispatch(h)
  BY <1>2, <1>3, <1>8 DEF Dispatch, CalmStep
<1>9. CASE Refund(h)
  BY <1>2, <1>3, <1>4, <1>9 DEF Refund, Succeed, Cancels, HoldClosed, CalmStep
<1>10. CASE Price(h)
  <2>1. PICK s \in Bills[h] : bill' = [bill EXCEPT ![h] = s] /\ Goto(h, "debit") /\ UNCHANGED faults
    BY <1>2, <1>10 DEF Price
  <2> QED BY <1>1, <1>3, <1>10, <2>1 DEF Price, CalmStep
<1>11. CASE Debit(h)
  BY <1>2, <1>3, <1>11 DEF Debit, Succeed, Charges, CalmStep
<1>12. CASE Credit(h)
  BY <1>2, <1>3, <1>12 DEF Credit, Succeed, Pays, After, CalmStep
<1>13. CASE ReadReputation(h)
  BY <1>2, <1>3, <1>13 DEF ReadReputation, CalmStep
<1>14. CASE WriteReputation(h)
  BY <1>2, <1>3, <1>14 DEF WriteReputation, Succeed, CalmStep
<1>15. CASE Nudge(h) \/ Survey(h)
  BY <1>3, <1>15 DEF Nudge, Survey, CalmStep
<1>16. CASE Undo(h)
  BY <1>2, <1>3, <1>4, <1>16 DEF Undo, Succeed, Cancels, HoldClosed, CalmStep
<1> QED BY <1>5, <1>6, <1>7, <1>8, <1>9, <1>10, <1>11, <1>12, <1>13, <1>14, <1>15, <1>16 DEF Handle

(* What each of them does to the holds. *)
LEMMA OpensHold ==
  ASSUME WalletsTyped, NEW h \in Handlers, Reserves(h)
  PROVE  /\ IsOpen(Msg(h))' /\ Reserve'[Msg(h)] = HoldAmount[h]
         /\ \A m \in Messages : m # Msg(h) =>
              (IsOpen(m)' <=> IsOpen(m)) /\ (IsOpen(m) => Reserve'[m] = Reserve[m])
<1> DEFINE i == Msg(h)
<1>1. i \in Messages /\ Caller(h) = CallerOf[i]
  BY PartyType DEF Caller
<1>2. Reserve' = IF i \in DOMAIN Reserve THEN Reserve ELSE With(Reserve, i, HoldAmount[h])
  BY ReserveAfterOpen
<1>3. IsOpen(i) => Reserve[i] = HoldAmount[h]
  BY <1>1, ReserveType DEF Reserves, HoldOutcome, IsOpen, OK, ValueError
<1>4. /\ i \in DOMAIN Reserve' /\ Reserve'[i] = HoldAmount[h]
      /\ \A m \in Messages : m # i =>
           (m \in DOMAIN Reserve' <=> m \in DOMAIN Reserve) /\ (m \in DOMAIN Reserve => Reserve'[m] = Reserve[m])
  BY <1>1, <1>2, <1>3, ReserveType DEF With
<1> QED BY <1>1, <1>4, ReserveType

LEMMA ClosesHold ==
  ASSUME WalletsTyped, NEW h \in Handlers, Cancels(h) \/ Charges(h)
  PROVE  /\ ~IsOpen(Msg(h))'
         /\ \A m \in Messages : m # Msg(h) =>
              (IsOpen(m)' <=> IsOpen(m)) /\ (IsOpen(m) => Reserve'[m] = Reserve[m])
<1> DEFINE i == Msg(h)
           w == wallets[Caller(h)]
<1>1. i \in Messages
  BY PartyType
<1>2. Reserve' = Without(Reserve, i)
  <2>1. CASE Cancels(h)
    <3>1. IsHeld(w, i)
      BY <2>1 DEF Cancels, RefundOutcome, OK, UnknownHoldError
    <3>2. SetWallet(Caller(h), ApplyRefund(w, i)) /\ ApplyRefund(w, i).holds = Without(w.holds, i)
      BY <2>1 DEF Cancels, ApplyRefund
    <3> QED BY <3>1, <3>2, ReserveAfterClose
  <2>2. CASE Charges(h)
    <3> DEFINE v == ApplyRelease(w, i, bill[h].pre_tax)
    <3>1. IsHeld(w, i)
      BY <2>2 DEF Charges, ReleaseOutcome, OK, UnknownHoldError
    <3>2. SetWallet(Caller(h), v) /\ v.holds = Without(w.holds, i)
      BY <2>2 DEF Charges, ApplyRelease
    <3> QED BY <3>1, <3>2, ReserveAfterClose
  <2> QED BY <2>1, <2>2
<1>3. /\ i \notin DOMAIN Reserve'
      /\ \A m \in Messages : m # i =>
           (m \in DOMAIN Reserve' <=> m \in DOMAIN Reserve) /\ (m \in DOMAIN Reserve => Reserve'[m] = Reserve[m])
  BY <1>2 DEF Without
<1> QED BY <1>1, <1>3, ReserveType

LEMMA KeepsHolds ==
  ASSUME WalletsTyped, NEW h \in Handlers, Pays(h) \/ Quiet
  PROVE  \A m \in Messages :
           (IsOpen(m)' <=> IsOpen(m)) /\ (IsOpen(m) => Reserve'[m] = Reserve[m])
<1>1. Reserve' = Reserve
  BY ReserveAfterPay DEF Quiet, Reserve, IsOpen
<1> QED BY <1>1, ReserveType

(* An open hold has a handler that still comes to it. *)
HoldInv ==
    faults = 0 =>
      \A m \in Messages : IsOpen(m) => \E h \in Handlers : Msg(h) = m /\ pc[h] \in Holding

(* A handler alone on its message keeps its hold until it has charged it,  *)
(* and only undoes a charge that the hold does not cover.                  *)
Alone(h) ==
    /\ pc[h] \in Unbilled \cup {"free"} => bill[h] = NoBill
    /\ pc[h] \in Holding \ {"undo"} => IsOpen(Msg(h)) /\ Reserve[Msg(h)] = HoldAmount[h]
    /\ pc[h] = "undo" => bill[h].pre_tax > HoldAmount[h]
    /\ pc[h] = "returned" /\ bill[h] # NoBill =>
         bill[h].pre_tax > HoldAmount[h] \/ PaidInFull(h)
AloneInv == faults = 0 => \A h \in Handlers : Twins(h) = {h} => Alone(h)

LEMMA HandleHoldInv ==
  ASSUME IInv, HoldInv, NEW h \in Handlers, Handle(h)
  PROVE  HoldInv'
<1> SUFFICES ASSUME faults' = 0, NEW m \in Messages, IsOpen(m)'
             PROVE  \E g \in Handlers : Msg(g) = m /\ pc'[g] \in Holding
  BY DEF HoldInv, Msg
<1>1. ControlTyped /\ WalletsTyped /\ Msg(h) \in Messages
  BY TypeParts, PartyType DEF IInv
<1>2. /\ faults = 0 /\ CalmStep(h)
      /\ \A g \in Handlers : g # h => pc'[g] = pc[g]
  BY <1>1, CalmSteps
<1>3. CASE pc'[h] \in Holding /\ m = Msg(h)
  BY <1>3
<1>4. CASE ~(pc'[h] \in Holding /\ m = Msg(h))
  <2>1. IsOpen(m) /\ (m = Msg(h) => pc[h] \notin Holding)
    <3>1. Reserves(h) /\ pc'[h] \in Holding => IsOpen(m)
      BY <1>1, <1>4, OpensHold
    <3>2. Cancels(h) \/ Charges(h) => IsOpen(m) /\ m # Msg(h)
      BY <1>1, ClosesHold
    <3>3. Pays(h) \/ Quiet => IsOpen(m)
      BY <1>1, KeepsHolds
    <3>4. \/ Reserves(h) /\ pc'[h] \in Holding
          \/ Cancels(h) \/ Charges(h) \/ Pays(h) \/ Quiet
      BY <1>2 DEF CalmStep, HoldClosed, Holding
    <3>5. IsOpen(m)
      BY <3>1, <3>2, <3>3, <3>4
    <3>6. \/ Cancels(h) \/ Charges(h)
          \/ Quiet /\ ~IsOpen(Msg(h))
          \/ pc'[h] \in Holding \/ pc[h] \notin Holding
      BY <1>2 DEF CalmStep, HoldClosed, Holding, Billed, Earning, Shares
    <3> QED BY <1>4, <3>2, <3>5, <3>6
  <2>2. PICK g \in Handlers : Msg(g) = m /\ pc[g] \in Holding
    BY <1>2, <2>1 DEF HoldInv
  <2>3. g # h
    BY <2>1, <2>2
  <2> QED BY <1>2, <2>2, <2>3
<1> QED BY <1>3, <1>4

(* The handler's own step. *)
LEMMA OwnAlone ==
  ASSUME IInv, NEW h \in Handlers, Alone(h), Handle(h), faults' = 0
  PROVE  Alone(h)'
<1>1. /\ ControlTyped /\ WalletsTyped /\ Msg(h) \in Messages
      /\ CalmStep(h) /\ Stage(h) /\ IsBill(bill[h]) /\ HoldAmount[h] \in Nat
  BY TypeParts, PartyType, BillType, CalmSteps DEF IInv, Stages
<1> USE DEF Holding, Unbilled
<1>2. CASE pc[h] = "hold" /\ pc'[h] = "dispatch" /\ Reserves(h) /\ bill'[h] = bill[h]
  <2>1. IsOpen(Msg(h))' /\ Reserve'[Msg(h)] = HoldAmount[h]
    BY <1>1, <1>2, OpensHold
  <2> QED BY <1>1, <1>2, <2>1 DEF Alone, Msg
<1>3. CASE /\ pc[h] \in {"lookup", "free", "hold"}
           /\ pc'[h] \in {"free", "hold", "returned", "none", "raised"}
           /\ Quiet /\ bill'[h] = bill[h]
  BY <1>1, <1>3 DEF Alone
<1>4. CASE \/ /\ pc[h] = "dispatch" /\ pc'[h] \in {"price", "refund_none", "refund_raise"}
              /\ Quiet /\ bill'[h] = bill[h]
           \/ pc[h] = "price" /\ pc'[h] = "debit" /\ Quiet
  <2>1. IsOpen(Msg(h))' /\ Reserve'[Msg(h)] = HoldAmount[h]
    BY <1>1, <1>4, KeepsHolds DEF Alone
  <2> QED BY <1>1, <1>4, <2>1 DEF Alone, Msg
<1>5. CASE /\ pc[h] = "debit" /\ pc'[h] = "undo" /\ Quiet /\ bill'[h] = bill[h]
           /\ ReleaseOutcome(wallets[Caller(h)], Msg(h), bill[h].pre_tax) # OK
  <2>1. IsOpen(Msg(h)) /\ wallets[Caller(h)].holds[Msg(h)] = HoldAmount[h]
    BY <1>1, <1>5, ReserveType DEF Alone, Caller
  <2>2. bill[h].pre_tax > HoldAmount[h]
    BY <1>1, <1>5, <2>1 DEF ReleaseOutcome, IsOpen, Caller, IsBill
  <2> QED BY <1>1, <1>5, <2>2 DEF Alone
<1>6. CASE \/ pc[h] = "debit" /\ pc'[h] = "server"
           \/ pc[h] \in Shares \cup Earning /\ pc'[h] \in Billed
  BY <1>1, <1>6 DEF Alone, Shares, Billed, Earning
<1>7. CASE /\ pc[h] \in {"refund_none", "refund_raise"} /\ pc'[h] \in {"none", "raised"}
           /\ bill'[h] = bill[h]
  BY <1>1, <1>7 DEF Alone
<1>8. CASE pc[h] = "undo" /\ pc'[h] = "returned" /\ bill'[h] = bill[h]
  BY <1>1, <1>8 DEF Alone
<1>9. CASE pc[h] = "survey" /\ pc'[h] = "returned" /\ Quiet /\ bill'[h] = bill[h]
  <2>1. PaidInFull(h)
    BY <1>1, <1>9 DEF Stage, Billed, Shares, PaidInFull, PaidBefore
  <2>2. PaidInFull(h)'
    BY <1>1, <1>9, <2>1 DEF PaidInFull, Quiet
  <2> QED BY <1>1, <1>9, <2>2 DEF Alone
<1> QED BY <1>1, <1>2, <1>3, <1>4, <1>5, <1>6, <1>7, <1>8, <1>9 DEF CalmStep

(* A step of a handler of another message. *)
LEMMA OtherAlone ==
  ASSUME IInv, NEW h \in Handlers, Alone(h), NEW g \in Handlers, Msg(g) # Msg(h), Handle(g),
         faults' = 0
  PROVE  Alone(h)'
<1>1. /\ ControlTyped /\ WalletsTyped /\ Msg(h) \in Messages /\ g # h
      /\ charged \in [Handlers -> Nat] /\ paid \in [Handlers -> Nat]
  BY TypeParts, PartyType DEF IInv
<1>2. CalmStep(g) /\ pc'[h] = pc[h] /\ bill'[h] = bill[h]
  BY <1>1, CalmSteps
<1>3. Moves(g) \/ Quiet
  BY <1>2 DEF CalmStep, HoldClosed, Moves
<1>4. /\ IsOpen(Msg(h))' <=> IsOpen(Msg(h))
      /\ IsOpen(Msg(h)) => Reserve'[Msg(h)] = Reserve[Msg(h)]
  BY <1>1, <1>3, OpensHold, ClosesHold, KeepsHolds DEF Moves
<1>5. charged'[h] = charged[h] /\ paid'[h] = paid[h]
  BY <1>1, <1>3 DEF Moves, Reserves, Cancels, Charges, Pays, Quiet, history
<1>6. PaidInFull(h)' <=> PaidInFull(h)
  BY <1>2, <1>5 DEF PaidInFull
<1> QED BY <1>2, <1>4, <1>6 DEF Alone, Msg

LEMMA NextCalmInvs == IInv /\ HoldInv /\ AloneInv /\ [Next]_vars => HoldInv' /\ AloneInv'
<1> SUFFICES ASSUME IInv, HoldInv, AloneInv, [Next]_vars PROVE HoldInv' /\ AloneInv'
  OBVIOUS
<1>1. faults \in Nat
  BY TypeParts, SettlementAssumption DEF IInv, ControlTyped
<1>2. CASE (\E m \in Messages : ExpireMirror(m)) \/ UNCHANGED vars
  <2>1. UNCHANGED <<wallets, pc, bill, faults, charged, paid>>
    BY <1>2 DEF ExpireMirror, vars, history
  <2> QED BY <2>1 DEF HoldInv, AloneInv, Alone, IsOpen, Reserve, PaidInFull, Twins
<1>3. CASE \E h \in Handlers : Stop(h)
  BY <1>1, <1>3 DEF Stop, Fault, HoldInv, AloneInv
<1>4. ASSUME NEW g \in Handlers, Handle(g)
      PROVE  HoldInv' /\ AloneInv'
  <2>1. HoldInv'
    BY <1>4, HandleHoldInv
  <2>2. ASSUME faults' = 0, NEW h \in Handlers, Twins(h) = {h}
        PROVE  Alone(h)'
    <3>1. Alone(h)
      BY <1>4, <2>2, CalmSteps, TypeParts DEF IInv, AloneInv
    <3>2. g = h \/ Msg(g) # Msg(h)
      BY <2>2 DEF Twins
    <3> QED BY <1>4, <2>2, <3>1, <3>2, OwnAlone, OtherAlone
  <2> QED BY <2>1, <2>2 DEF AloneInv, Twins, Msg
<1> QED BY <1>2, <1>3, <1>4 DEF Next

LEMMA CalmInvsHold == Spec => [](IInv /\ HoldInv /\ AloneInv)
<1>1. Init => HoldInv /\ AloneInv
  <2> SUFFICES ASSUME Init PROVE HoldInv /\ AloneInv
    OBVIOUS
  <2>1. \A m \in Messages : ~IsOpen(m)
    BY SettlementAssumption DEF Init, IsOpen, IsHeld, FreshWallet, NoCredits
  <2> QED BY <2>1 DEF Init, HoldInv, AloneInv, Alone, Holding, Unbilled
<1>2. IInv /\ HoldInv /\ AloneInv /\ [Next]_vars => (IInv /\ HoldInv /\ AloneInv)'
  BY NextIInv, NextCalmInvs
<1> QED BY <1>1, <1>2, InitIInv, PTL DEF Spec

(* While nothing fails, every way out of _broker_send_get has settled or   *)
(* refunded the hold: none outlives the handlers of its message.           *)
THEOREM HandlersCloseTheirHolds == Spec => []HoldsCloseWithHandlers
<1>1. HoldInv => HoldsCloseWithHandlers
  <2> SUFFICES ASSUME HoldInv, NEW h \in Handlers, faults = 0,
                      \A g \in Twins(h) : pc[g] \in Done, IsOpen(Msg(h))
               PROVE  FALSE
    BY DEF HoldsCloseWithHandlers
  <2>1. PICK g \in Handlers : Msg(g) = Msg(h) /\ pc[g] \in Holding
    BY PartyType DEF HoldInv
  <2> QED BY <2>1 DEF Twins, Holding, Done
<1> QED BY <1>1, CalmInvsHold, PTL

(* If no leaf costs more than its call earns and nothing fails, an answer  *)
(* within the hold is charged and paid out in full when it is returned.    *)
THEOREM SolventAnswersArePaidFor ==
  ASSUME Solvent
  PROVE  Spec => []AnswersArePaidFor
<1>1. IInv /\ AloneInv => AnswersArePaidFor
  <2> SUFFICES ASSUME IInv, AloneInv, NEW h \in Handlers,
                      pc[h] = "returned", bill[h] # NoBill, faults = 0, Twins(h) = {h},
                      bill[h].pre_tax <= HoldAmount[h]
               PROVE  charged[h] = bill[h].pre_tax /\ paid[h] = charged[h]
    BY DEF AnswersArePaidFor
  <2>1. bill[h] \in Bills[h] /\ HoldAmount[h] \in Nat
    BY TypeParts, PartyType DEF IInv, ControlTyped
  <2>2. IsBill(bill[h]) /\ bill[h].server >= 0
    BY <2>1, SolventBill
  <2>3. PaidInFull(h)
    BY <2>1, <2>2 DEF AloneInv, Alone, IsBill
  <2> QED BY <2>2, <2>3 DEF PaidInFull, PaidBefore, Positive, IsBill
<1> QED BY <1>1, CalmInvsHold, PTL

-----------------------------------------------------------------------------
(* A caller that is nobody's recipient: only its own calls touch its       *)
(* balance, and only when they charge it.                                  *)
CallsOf(o) == {h \in Handlers : Caller(h) = o}
Spent(o) == Total([h \in CallsOf(o) |-> charged[h]])
Pure(o) == o \notin {Recipient(h, s) : h \in Handlers, s \in Shares}

LEMMA MovesSpend ==
  ASSUME IInv, NEW h \in Handlers, Moves(h), NEW o \in Owners, Pure(o),
         wallets[o].balance = INITIAL_FUND - Spent(o)
  PROVE  wallets'[o].balance = INITIAL_FUND - Spent(o)'
<1> DEFINE c == Caller(h)
           w == wallets[c]
           S == CallsOf(o)
           f == [g \in S |-> charged[g]]
<1>1. /\ WalletsTyped /\ charged \in [Handlers -> Nat] /\ Stage(h)
      /\ c \in Owners /\ IsWallet(w, Messages) /\ IsWallet(wallets[o], Messages)
  BY TypeParts, PartyType DEF IInv, Stages, WalletsTyped
<1>2. ASSUME NEW p \in Owners, NEW v, SetWallet(p, v)
      PROVE  wallets'[o] = IF p = o THEN v ELSE wallets[o]
  BY <1>1, <1>2 DEF SetWallet, WalletsTyped
<1>3. S = CallsOf(o)'
  BY DEF CallsOf, Caller, Msg
<1>4. CASE Reserves(h) \/ Cancels(h)
  <2>1. /\ ApplyHold(w, Msg(h), HoldAmount[h]).balance = w.balance
        /\ ApplyRefund(w, Msg(h)).balance = w.balance
    BY <1>1 DEF ApplyHold, ApplyRefund, IsWallet
  <2>2. wallets'[o].balance = wallets[o].balance
    BY <1>1, <1>2, <1>4, <2>1 DEF Reserves, Cancels
  <2>3. UNCHANGED charged
    BY <1>4 DEF Reserves, Cancels, history
  <2> QED BY <1>3, <2>2, <2>3 DEF Spent
<1>5. CASE Charges(h)
  <2> DEFINE price == bill[h].pre_tax
             v == ApplyRelease(w, Msg(h), price)
  <2>1. price \in Nat /\ charged' = [charged EXCEPT ![h] = price] /\ charged[h] = 0
    BY <1>1, <1>5, BillType DEF IInv, IsBill, Charges, Stage
  <2>2. wallets'[o] = IF c = o THEN v ELSE wallets[o]
    BY <1>1, <1>2, <1>5 DEF Charges
  <2>3. CASE c # o
    <3>1. \A g \in S : charged'[g] = charged[g]
      BY <1>1, <2>1, <2>3 DEF CallsOf
    <3>2. Spent(o)' = Spent(o)
      BY <1>3, <3>1 DEF Spent
    <3> QED BY <2>2, <2>3, <3>2
  <2>4. CASE c = o
    <3> DEFINE g == [k \in S |-> charged'[k]]
    <3>1. h \in S /\ S \subseteq Handlers /\ IsFiniteSet(S)
      BY <2>4, SettlementAssumption, FS_Subset DEF CallsOf
    <3>2. /\ f \in [S -> Nat] /\ g \in [S -> Nat] /\ f[h] = 0 /\ g[h] = price
          /\ \A k \in S : k # h => g[k] = f[k]
      BY <1>1, <2>1, <3>1
    <3>3. Total(f) \in Nat /\ Total(g) \in Nat /\ Total(g) = Total(f) - f[h] + g[h]
      <4> HIDE DEF f, g, S
      <4> QED BY <3>1, <3>2, TotalChange
    <3>4. Spent(o) = Total(f) /\ Spent(o)' = Total(g)
      BY <1>3 DEF Spent
    <3>5. v.balance = w.balance - price
      BY DEF ApplyRelease
    <3> QED BY <1>1, <2>1, <2>2, <2>4, <3>2, <3>3, <3>4, <3>5, FundAssumption DEF IsWallet
  <2> QED BY <2>3, <2>4
<1>6. CASE Pays(h)
  <2>1. Recipient(h, pc[h]) # o /\ Recipient(h, pc[h]) \in Owners
    BY <1>6, PartyType DEF Pays, Pure
  <2>2. wallets'[o] = wallets[o] /\ UNCHANGED charged
    BY <1>2, <1>6, <2>1 DEF Pays
  <2> QED BY <1>3, <2>2 DEF Spent
<1> QED BY <1>4, <1>5, <1>6 DEF Moves

(* What an amount does not contribute can be left out of a total. *)
LEMMA TotalOfSome ==
  ASSUME NEW S, NEW T \in SUBSET S, NEW f \in [S -> Nat],
         \A x \in S \ T : f[x] = 0
  PROVE  Total(f) = Total([x \in T |-> f[x]])
<1> DEFINE g == [x \in T |-> f[x]]
<1>1. \A x \in S \ T : {x} \X (1..f[x]) = {}
  OBVIOUS
<1>2. Units(f) = UNION {{x} \X (1..f[x]) : x \in T}
  BY <1>1 DEF Units
<1>3. Units(g) = UNION {{x} \X (1..f[x]) : x \in T}
  BY DEF Units
<1> QED BY <1>2, <1>3 DEF Total

(* A caller that earns nothing pays the prices of some of its calls and    *)
(* nothing else, at every step and whatever fails: of no call that ended   *)
(* without an answer, and, if nothing failed, of every answer, save those  *)
(* whose price is above the hold or whose message was handled twice.       *)
THEOREM CallersPayTheirPrices == Spec => []CallersPayWhatTheyOwe
<1> DEFINE PurseInv == \A o \in Owners : Pure(o) => wallets[o].balance = INITIAL_FUND - Spent(o)
<1>1. Init => PurseInv
  <2> SUFFICES ASSUME Init, NEW o \in Owners PROVE wallets[o].balance = INITIAL_FUND - Spent(o)
    OBVIOUS
  <2> DEFINE f == [h \in CallsOf(o) |-> charged[h]]
  <2>1. DOMAIN f = CallsOf(o) /\ \A h \in CallsOf(o) : f[h] = 0 /\ {h} \X (1..f[h]) = {}
    BY DEF Init, CallsOf
  <2>2. Units(f) = {}
    BY <2>1 DEF Units
  <2>3. Spent(o) = 0
    BY <2>2, FS_EmptySet DEF Total, Spent
  <2> QED BY <2>3, FundAssumption DEF Init, FreshWallet
<1>2. IInv /\ PurseInv /\ [Next]_vars => PurseInv'
  <2> SUFFICES ASSUME IInv, PurseInv, [Next]_vars, NEW o \in Owners, Pure(o)'
               PROVE  wallets'[o].balance = INITIAL_FUND - Spent(o)'
    OBVIOUS
  <2>1. Pure(o)
    BY DEF Pure
  <2>2. CASE Quiet \/ UNCHANGED vars
    BY <2>1, <2>2 DEF Quiet, vars, Spent, CallsOf, Caller, Msg
  <2>3. CASE \E h \in Handlers : Moves(h)
    BY <2>1, <2>3, MovesSpend
  <2> QED BY <2>2, <2>3, StepMoves
<1>3. ASSUME IInv, AloneInv, PurseInv PROVE CallersPayWhatTheyOwe
  <2> SUFFICES ASSUME NEW m \in Messages, Pure(CallerOf[m])
               PROVE  \E settled \in SUBSET CallsOf(CallerOf[m]) :
                        /\ wallets[CallerOf[m]].balance =
                             INITIAL_FUND - Total([h \in settled |-> bill[h].pre_tax])
                        /\ \A h \in settled : pc[h] \notin {"none", "raised"}
                        /\ \A h \in CallsOf(CallerOf[m]) \ settled :
                             faults = 0 /\ pc[h] = "returned" => IsFree(h)
    BY DEF CallersPayWhatTheyOwe, Pure, CallsOf
  <2> DEFINE o == CallerOf[m]
             mine == CallsOf(o)
             settled == {h \in mine : charged[h] = bill[h].pre_tax
                                        /\ pc[h] \notin {"none", "raised"}}
             f == [h \in mine |-> charged[h]]
  <2>1. /\ charged \in [Handlers -> Nat] /\ mine \subseteq Handlers
        /\ \A h \in Handlers : Stage(h)
    BY <1>3, TypeParts DEF IInv, CallsOf, Stages
  <2>2. \A h \in mine \ settled : f[h] = 0
    BY <2>1 DEF Stage, Unbilled
  <2>3. Total(f) = Total([h \in settled |-> f[h]])
    <3> f \in [mine -> Nat] /\ settled \in SUBSET mine
      BY <2>1
    <3> QED BY <2>2, TotalOfSome
  <2>4. [h \in settled |-> f[h]] = [h \in settled |-> bill[h].pre_tax]
    OBVIOUS
  <2>5. wallets[o].balance = INITIAL_FUND - Total([h \in settled |-> bill[h].pre_tax])
    BY <1>3, <2>3, <2>4, SettlementAssumption DEF Spent
  <2>6. ASSUME NEW h \in mine \ settled, faults = 0, pc[h] = "returned", ~IsFree(h)
        PROVE  FALSE
    <3>1. bill[h] # NoBill /\ Twins(h) = {h} /\ ~(bill[h].pre_tax > HoldAmount[h])
      BY <2>6 DEF IsFree
    <3>2. h \in Handlers /\ IsBill(bill[h]) /\ HoldAmount[h] \in Nat
      BY <1>3, <2>1, BillType, PartyType DEF IInv
    <3>3. PaidInFull(h)
      BY <1>3, <2>6, <3>1, <3>2 DEF AloneInv, Alone, IsBill
    <3> QED BY <2>6, <3>3 DEF PaidInFull
  <2>7. settled \in SUBSET mine /\ \A h \in settled : pc[h] \notin {"none", "raised"}
    OBVIOUS
  <2> HIDE DEF settled
  <2> QED BY <2>5, <2>6, <2>7
<1> QED BY <1>1, <1>2, <1>3, IInvHolds, CalmInvsHold, PTL DEF Spec

-----------------------------------------------------------------------------
(* Routing.                                                                *)

(* A finite set of integers has a greatest and a least element. *)
LEMMA Extremes ==
    ASSUME NEW S \in SUBSET Int, IsFiniteSet(S), S # {}
    PROVE  /\ Max(S) \in S /\ Min(S) \in S
           /\ \A y \in S : Min(S) <= y /\ y <= Max(S)
BY LeastAndGreatest DEF Max, Min

(* Where values are normalised, the span is positive and a better value    *)
(* is a greater part of it.                                                *)
LEMMA Spanned ==
    ASSUME NEW S \in SUBSET Int, IsFiniteSet(S), S # {}
    PROVE  /\ Span(S) \in Nat \ {0}
           /\ \A v \in S : NormalizeInverse(v, S) \in Nat /\ NormalizeDirect(v, S) \in Nat
           /\ \A v, u \in S :
                /\ v <= u => /\ NormalizeInverse(u, S) <= NormalizeInverse(v, S)
                             /\ NormalizeDirect(v, S) <= NormalizeDirect(u, S)
                /\ v < u => /\ NormalizeInverse(u, S) < NormalizeInverse(v, S)
                            /\ NormalizeDirect(v, S) < NormalizeDirect(u, S)
<1> DEFINE hi == Max(S)
           lo == Min(S)
<1>1. hi \in Int /\ lo \in Int /\ lo <= hi /\ \A y \in S : lo <= y /\ y <= hi
  BY Extremes
<1>2. /\ Span(S) = IF hi = lo THEN 1 ELSE hi - lo
      /\ \A v : NormalizeInverse(v, S) = IF hi = lo THEN 1 ELSE hi - v
      /\ \A v : NormalizeDirect(v, S) = IF hi = lo THEN 1 ELSE v - lo
  BY DEF Span, NormalizeInverse, NormalizeDirect
<1> HIDE DEF hi, lo
<1>3. \A v, u \in S : v < u => hi # lo
  BY <1>1
<1>4. \A v, u \in S : v \in Int /\ u \in Int
  OBVIOUS
<1>5. Span(S) \in Nat \ {0}
  BY <1>1, <1>2
<1>6. \A v \in S : NormalizeInverse(v, S) \in Nat /\ NormalizeDirect(v, S) \in Nat
  BY <1>1, <1>2
<1> QED
  BY <1>1, <1>2, <1>3, <1>4, <1>5, <1>6

Four == 1 .. 4

(* A term of the weighted sum grows with its part. *)
LEMMA Terms ==
    ASSUME NEW w \in Nat \ {0}, NEW k \in Nat \ {0}, NEW p \in Nat, NEW q \in Nat, p <= q
    PROVE  /\ w * (p * k) \in Nat /\ w * (q * k) \in Nat
           /\ w * (p * k) <= w * (q * k)
           /\ p < q => w * (p * k) < w * (q * k)
<1>1. p * k \in Nat /\ q * k \in Nat /\ p * k <= q * k /\ (p < q => p * k < q * k)
  BY Products
<1> DEFINE a == p * k
           b == q * k
<1> HIDE DEF a, b
<1>2. a \in Nat /\ b \in Nat /\ a <= b /\ (p < q => a < b)
  BY <1>1 DEF a, b
<1>3. a * w \in Nat /\ b * w \in Nat /\ a * w <= b * w /\ (a < b => a * w < b * w)
  BY <1>2, Products
<1>4. a * w = w * a /\ b * w = w * b
  BY <1>2
<1> QED
  BY <1>2, <1>3, <1>4 DEF a, b

(* The weighted sum grows with each of its parts. *)
LEMMA SumsOfTerms ==
    ASSUME NEW w, NEW p, NEW q, NEW span,
           \A i \in Four : /\ w[i] \in Nat \ {0} /\ span[i] \in Nat \ {0}
                           /\ p[i] \in Nat /\ q[i] \in Nat /\ p[i] <= q[i]
    PROVE  /\ Weighted(w, p, span) \in Int /\ Weighted(w, q, span) \in Int
           /\ (\E i \in Four : p[i] < q[i]) => Weighted(w, p, span) < Weighted(w, q, span)
<1> DEFINE k1 == span[2] * (span[3] * span[4])
           k2 == span[1] * (span[3] * span[4])
           k3 == span[1] * (span[2] * span[4])
           k4 == span[1] * (span[2] * span[3])
<1>1. 1 \in Four /\ 2 \in Four /\ 3 \in Four /\ 4 \in Four
      /\ \A i \in Four : i \in {1, 2, 3, 4}
  BY DEF Four
<1>2. k1 \in Nat \ {0} /\ k2 \in Nat \ {0} /\ k3 \in Nat \ {0} /\ k4 \in Nat \ {0}
  BY <1>1, Products
<1> HIDE DEF k1, k2, k3, k4
<1> DEFINE T(x, i, k) == w[i] * (x[i] * k)
<1>3. /\ Weighted(w, p, span) = T(p, 1, k1) + T(p, 2, k2) + T(p, 3, k3) + T(p, 4, k4)
      /\ Weighted(w, q, span) = T(q, 1, k1) + T(q, 2, k2) + T(q, 3, k3) + T(q, 4, k4)
  BY Zenon DEF Weighted, k1, k2, k3, k4
<1>4. ASSUME NEW i \in Four, NEW k \in Nat \ {0}
      PROVE  /\ T(p, i, k) \in Nat /\ T(q, i, k) \in Nat /\ T(p, i, k) <= T(q, i, k)
             /\ p[i] < q[i] => T(p, i, k) < T(q, i, k)
  BY <1>4, Terms
<1> HIDE DEF T
<1> QED
  BY <1>1, <1>2, <1>3, <1>4

-----------------------------------------------------------------------------
(* A function takes finitely many values on a finite set. *)
LEMMA FiniteRange ==
    ASSUME NEW S, IsFiniteSet(S), NEW f, f = [x \in S |-> f[x]]
    PROVE  IsFiniteSet({f[x] : x \in S})
<1>1. f \in Surjection(S, {f[x] : x \in S})
  BY DEF Surjection
<1> QED
  BY <1>1, FS_Surjection

(* The values that the leaves are compared by. *)
LEMMA ValuesOfLeaves ==
    ASSUME NEW H, IsFiniteSet(H), H # {}, \A l \in H : IsLeaf(l), NEW reps,
           \A l \in H : reps[l.provider] \in Int
    PROVE  \A S \in {Rates(H), Latencies(H), Capacities(H), Reputations(H, reps)} :
             S \in SUBSET Int /\ IsFiniteSet(S) /\ S # {}
<1>1. /\ IsFiniteSet(Rates(H)) /\ IsFiniteSet(Latencies(H)) /\ IsFiniteSet(Capacities(H))
      /\ IsFiniteSet(Reputations(H, reps))
  <2>1. IsFiniteSet({l.rate : l \in H})
    <3> DEFINE f == [l \in H |-> l.rate]
    <3>1. IsFiniteSet({f[l] : l \in H})
      <4>1. f = [l \in H |-> f[l]]
        OBVIOUS
      <4> HIDE DEF f
      <4> QED BY <4>1, FiniteRange
    <3> QED
      BY <3>1
  <2>2. IsFiniteSet({l.latency : l \in H})
    <3> DEFINE f == [l \in H |-> l.latency]
    <3>1. IsFiniteSet({f[l] : l \in H})
      <4>1. f = [l \in H |-> f[l]]
        OBVIOUS
      <4> HIDE DEF f
      <4> QED BY <4>1, FiniteRange
    <3> QED
      BY <3>1
  <2>3. IsFiniteSet({l.capacity : l \in H})
    <3> DEFINE f == [l \in H |-> l.capacity]
    <3>1. IsFiniteSet({f[l] : l \in H})
      <4>1. f = [l \in H |-> f[l]]
        OBVIOUS
      <4> HIDE DEF f
      <4> QED BY <4>1, FiniteRange
    <3> QED
      BY <3>1
  <2>4. IsFiniteSet({reps[l.provider] : l \in H})
    <3> DEFINE f == [l \in H |-> reps[l.provider]]
    <3>1. IsFiniteSet({f[l] : l \in H})
      <4>1. f = [l \in H |-> f[l]]
        OBVIOUS
      <4> HIDE DEF f
      <4> QED BY <4>1, FiniteRange
    <3> QED
      BY <3>1
  <2> QED
    BY <2>1, <2>2, <2>3, <2>4 DEF Rates, Latencies, Capacities, Reputations
<1>2. Rates(H) \in SUBSET Int /\ Rates(H) # {}
  BY DEF IsLeaf, Rates
<1>3. Latencies(H) \in SUBSET Int /\ Latencies(H) # {}
  BY DEF IsLeaf, Latencies
<1>4. Capacities(H) \in SUBSET Int /\ Capacities(H) # {}
  BY DEF IsLeaf, Capacities
<1>5. Reputations(H, reps) \in SUBSET Int /\ Reputations(H, reps) # {}
  BY DEF Reputations
<1> QED
  BY <1>1, <1>2, <1>3, <1>4, <1>5

(* Every weight of every ranking is positive. *)
LEMMA WeightsPositive ==
    \A rank_by : \A i \in Four : Weights(rank_by)[i] \in Nat \ {0}
<1> SUFFICES ASSUME NEW rank_by
             PROVE  \A i \in Four : Weights(rank_by)[i] \in Nat \ {0}
  OBVIOUS
<1>1. Weights(rank_by) \in {<<15, 60, 20, 5>>, <<15, 20, 60, 5>>, <<15, 10, 10, 65>>,
                            <<60, 20, 15, 5>>}
  BY DEF Weights
<1>2. \A i \in Four : i \in {1, 2, 3, 4}
  BY DEF Four
<1> QED
  BY <1>1, <1>2

(* A leaf that is at least as good in everything scores at least as high,  *)
(* and higher when it is better in something.                              *)
LEMMA BetterScoresHigher ==
    ASSUME NEW H, IsFiniteSet(H), \A l \in H : IsLeaf(l), NEW reps,
           \A l \in H : reps[l.provider] \in Int, NEW rank_by,
           NEW l \in H, NEW m \in H
    PROVE  /\ Score(l, H, rank_by, reps) \in Int
           /\ /\ m.rate <= l.rate /\ m.latency <= l.latency /\ m.capacity >= l.capacity
              /\ reps[m.provider] = reps[l.provider]
              /\ <<m.rate, m.latency, m.capacity>> # <<l.rate, l.latency, l.capacity>>
              => Score(l, H, rank_by, reps) < Score(m, H, rank_by, reps)
<1> DEFINE Parts(x) ==
             <<NormalizeInverse(x.rate, Rates(H)), NormalizeInverse(x.latency, Latencies(H)),
               NormalizeDirect(x.capacity, Capacities(H)),
               NormalizeDirect(reps[x.provider], Reputations(H, reps))>>
           w == Weights(rank_by)
           span == Spans(H, reps)
<1>1. \A x : Score(x, H, rank_by, reps) = Weighted(w, Parts(x), span)
  BY Zenon DEF Score
<1>2. \A x \in {l, m} : /\ x.rate \in Rates(H) /\ x.latency \in Latencies(H)
                        /\ x.capacity \in Capacities(H)
                        /\ reps[x.provider] \in Reputations(H, reps)
                        /\ x.rate \in Int /\ x.latency \in Int /\ x.capacity \in Int
                        /\ reps[x.provider] \in Int
  BY DEF Rates, Latencies, Capacities, Reputations, IsLeaf
<1>3. \A S \in {Rates(H), Latencies(H), Capacities(H), Reputations(H, reps)} :
        S \in SUBSET Int /\ IsFiniteSet(S) /\ S # {}
  BY ValuesOfLeaves
<1>4. \A i \in Four : i \in {1, 2, 3, 4}
  BY DEF Four
<1>5. \A i \in Four : w[i] \in Nat \ {0} /\ span[i] \in Nat \ {0}
  <2>1. span[1] \in Nat \ {0} /\ span[2] \in Nat \ {0}
        /\ span[3] \in Nat \ {0} /\ span[4] \in Nat \ {0}
    BY <1>3, Spanned DEF Spans
  <2>2. \A i \in Four : span[i] \in Nat \ {0}
    <3> HIDE DEF span
    <3> QED BY <2>1, <1>4
  <2> QED
    BY <2>2, WeightsPositive
<1>6. \A x \in {l, m} : \A i \in Four : Parts(x)[i] \in Nat
  <2> SUFFICES ASSUME NEW x \in {l, m} PROVE \A i \in Four : Parts(x)[i] \in Nat
    OBVIOUS
  <2>1. /\ NormalizeInverse(x.rate, Rates(H)) \in Nat
        /\ NormalizeInverse(x.latency, Latencies(H)) \in Nat
        /\ NormalizeDirect(x.capacity, Capacities(H)) \in Nat
        /\ NormalizeDirect(reps[x.provider], Reputations(H, reps)) \in Nat
    BY <1>2, <1>3, Spanned
  <2> QED
    BY <2>1, <1>4
<1>7. ASSUME m.rate <= l.rate, m.latency <= l.latency, m.capacity >= l.capacity,
             reps[m.provider] = reps[l.provider],
             <<m.rate, m.latency, m.capacity>> # <<l.rate, l.latency, l.capacity>>
      PROVE  /\ \A i \in Four : Parts(l)[i] <= Parts(m)[i]
             /\ \E i \in Four : Parts(l)[i] < Parts(m)[i]
  <2>1. /\ Parts(l)[1] <= Parts(m)[1] /\ (m.rate < l.rate => Parts(l)[1] < Parts(m)[1])
    BY <1>2, <1>3, <1>7, Spanned
  <2>2. /\ Parts(l)[2] <= Parts(m)[2] /\ (m.latency < l.latency => Parts(l)[2] < Parts(m)[2])
    BY <1>2, <1>3, <1>7, Spanned
  <2>3. /\ Parts(l)[3] <= Parts(m)[3] /\ (l.capacity < m.capacity => Parts(l)[3] < Parts(m)[3])
    BY <1>2, <1>3, <1>7, Spanned
  <2>4. Parts(l)[4] <= Parts(m)[4]
    BY <1>2, <1>3, <1>7, Spanned
  <2>5. m.rate < l.rate \/ m.latency < l.latency \/ l.capacity < m.capacity
    BY <1>2, <1>7
  <2>6. 1 \in Four /\ 2 \in Four /\ 3 \in Four
    BY DEF Four
  <2> HIDE DEF Parts
  <2> QED
    BY <1>4, <2>1, <2>2, <2>3, <2>4, <2>5, <2>6
<1> HIDE DEF Parts, w, span
<1>8. Weighted(w, Parts(l), span) \in Int
  BY <1>5, <1>6, SumsOfTerms
<1>9. ASSUME m.rate <= l.rate, m.latency <= l.latency, m.capacity >= l.capacity,
             reps[m.provider] = reps[l.provider],
             <<m.rate, m.latency, m.capacity>> # <<l.rate, l.latency, l.capacity>>
      PROVE  Weighted(w, Parts(l), span) < Weighted(w, Parts(m), span)
  BY <1>5, <1>6, <1>7, <1>9, SumsOfTerms
<1> QED
  BY <1>1, <1>8, <1>9

(* The leaf that best_leaf returns, when a healthy one matches, is one of  *)
(* them and outranks the others.                                           *)
LEMMA BestLeaf ==
    ASSUME NEW leaves, IsFiniteSet(leaves), \A l \in leaves : IsLeaf(l),
           \A l, m \in leaves : l.place = m.place => l = m,
           NEW reps, \A l \in leaves : reps[l.provider] \in Int,
           NEW pattern, NEW rank_by,
           NEW H, H = {l \in matching_leaves(pattern, leaves) : l.healthy}, H # {}
    PROVE  LET best == best_leaf(pattern, leaves, rank_by, reps)
           IN  best \in H /\ \A m \in H \ {best} : Outranks(best, m, H, rank_by, reps)
<1>1. H \subseteq leaves /\ IsFiniteSet(H) 
  <2>1. H \subseteq leaves
    BY DEF matching_leaves
  <2> QED
    BY <2>1, FS_Subset
<1> DEFINE R == {ss \in H \X H : Outranks(ss[1], ss[2], H, rank_by, reps)}
           sc(x) == Score(x, H, rank_by, reps)
<1>2. \A x \in H : sc(x) \in Int /\ x.place \in Int
  <2>1. \A x \in H : sc(x) \in Int
    BY <1>1, BetterScoresHigher
  <2> QED
    BY <2>1, <1>1 DEF IsLeaf
<1>3. \A x, y \in H : <<x, y>> \in R <=> \/ sc(x) > sc(y)
                                         \/ sc(x) = sc(y) /\ x.place < y.place
  BY Zenon DEF Outranks
<1>4. \A x, y \in H : x.place = y.place => x = y
  BY <1>1
<1> HIDE DEF R, sc
<1>5. /\ \A x \in H : <<x, x>> \notin R
      /\ \A x, y, z \in H : <<x, y>> \in R /\ <<y, z>> \in R => <<x, z>> \in R
      /\ \A x, y \in H : x = y \/ <<x, y>> \in R \/ <<y, x>> \in R
  BY <1>2, <1>3, <1>4
<1>6. \E x \in H : \A y \in H \ {x} : <<x, y>> \in R
  BY <1>1, <1>5, FirstOf
<1>7. \E x \in H : \A y \in H \ {x} : Outranks(x, y, H, rank_by, reps)
  BY <1>6 DEF R
<1>8. best_leaf(pattern, leaves, rank_by, reps)
        = CHOOSE x \in H : \A y \in H \ {x} : Outranks(x, y, H, rank_by, reps)
  BY Zenon DEF best_leaf
<1> QED
  BY <1>7, <1>8
-----------------------------------------------------------------------------
Prefers(prefs) ==
    /\ prefs.specialties \in Seq(Range(prefs.specialties))
    /\ prefs.integrations \in Seq(Range(prefs.integrations))

(* The wishes are a sequence. *)
LEMMA WishesAreSets ==
    ASSUME NEW prefs, Prefers(prefs)
    PROVE  Len(Wishes(prefs)) \in Nat /\ DOMAIN Wishes(prefs) = 1 .. Len(Wishes(prefs))
<1> DEFINE S == {prefs.servers} \cup SUBSET Servers
           a == [i \in DOMAIN prefs.specialties |->
                   {s \in Servers : prefs.specialties[i] \in Meta[s].specialties}]
           b == [i \in DOMAIN prefs.integrations |->
                   {s \in Servers : prefs.integrations[i] \in Meta[s].integrations}]
           c == IF prefs.servers = {} THEN <<>> ELSE <<prefs.servers>>
<1>1. a \in Seq(S) /\ b \in Seq(S)
  BY DEF Prefers
<1>2. c \in Seq(S)
  <2>1. prefs.servers \in S
    OBVIOUS
  <2> HIDE DEF S
  <2>2. <<>> \in Seq(S) /\ <<prefs.servers>> \in Seq(S)
    BY <2>1
  <2> QED
    BY <2>2
<1>3. Wishes(prefs) = a \o b \o c
  BY Zenon DEF Wishes
<1> HIDE DEF a, b, c, S
<1>4. Wishes(prefs) \in Seq(S)
  BY <1>1, <1>2, <1>3
<1> QED
  BY <1>4, LenProperties

(* Narrowing goes on, one preference after the other. *)
Narrows(N, n, w, pool) ==
    N = [i \in 0 .. n |-> IF i = 0 THEN pool ELSE Narrow(N[i - 1], w[i])]

(* The soft filter's recursion has a value at every step. *)
LEMMA NarrowingGoesOn ==
    ASSUME NEW n \in Nat, NEW w, NEW pool
    PROVE  \E N : Narrows(N, n, w, pool)
<1> DEFINE S == {k \in Nat : \E N : Narrows(N, k, w, pool)}
<1>1. 0 \in S
  <2> DEFINE N == [i \in 0 .. 0 |-> pool]
  <2>1. Narrows(N, 0, w, pool)
    BY DEF Narrows
  <2> QED
    BY <2>1
<1>2. ASSUME NEW k \in Nat, k \in S PROVE k + 1 \in S
  <2>1. PICK N : Narrows(N, k, w, pool)
    BY <1>2
  <2> DEFINE M == [i \in 0 .. k + 1 |-> IF i = k + 1 THEN Narrow(N[k], w[k + 1]) ELSE N[i]]
  <2>2. \A i \in 0 .. k : M[i] = N[i]
    OBVIOUS
  <2>3. \A i \in 0 .. k + 1 : M[i] = IF i = 0 THEN pool ELSE Narrow(M[i - 1], w[i])
    <3> SUFFICES ASSUME NEW i \in 0 .. k + 1
                 PROVE  M[i] = IF i = 0 THEN pool ELSE Narrow(M[i - 1], w[i])
      OBVIOUS
    <3>1. CASE i = k + 1
      <4>1. i - 1 = k /\ M[k] = N[k] /\ M[i] = Narrow(N[k], w[i])
        BY <3>1
      <4> QED
        BY <4>1, <3>1
    <3>2. CASE i \in 0 .. k
      <4>1. N[i] = IF i = 0 THEN pool ELSE Narrow(N[i - 1], w[i])
        BY <2>1, <3>2 DEF Narrows
      <4>2. i # 0 => i - 1 \in 0 .. k
        BY <3>2
      <4> HIDE DEF M
      <4> QED
        BY <4>1, <4>2, <2>2, <3>2
    <3> QED
      BY <3>1, <3>2
  <2>4. Narrows(M, k + 1, w, pool)
    BY <2>3 DEF Narrows
  <2> QED
    BY <2>4
<1>3. Nat \subseteq S
  <2> HIDE DEF S
  <2> QED
    BY <1>1, <1>2, StepByStep
<1> QED
  BY <1>3

(* The soft filter narrows the pool by one wish after the other. *)
LEMMA SoftFilterNarrows ==
    ASSUME NEW pool, NEW prefs, Prefers(prefs)
    PROVE  \E N : /\ Narrows(N, Len(Wishes(prefs)), Wishes(prefs), pool)
                  /\ SoftFilter(pool, prefs) = N[Len(Wishes(prefs))]
<1> DEFINE w == Wishes(prefs)
           n == Len(w)
           N == CHOOSE f : f = [i \in 0 .. n |-> IF i = 0 THEN pool ELSE Narrow(f[i - 1], w[i])]
<1>1. \E f : f = [i \in 0 .. n |-> IF i = 0 THEN pool ELSE Narrow(f[i - 1], w[i])]
  <2>1. n \in Nat
    BY WishesAreSets
  <2> HIDE DEF n, w
  <2>2. \E f : Narrows(f, n, w, pool)
    BY <2>1, NarrowingGoesOn
  <2> QED
    BY <2>2, Zenon DEF Narrows
<1>2. N = [i \in 0 .. n |-> IF i = 0 THEN pool ELSE Narrow(N[i - 1], w[i])]
  <2> HIDE DEF w, n
  <2> QED
    BY <1>1
<1>3. SoftFilter(pool, prefs) = N[n]
  BY Zenon DEF SoftFilter
<1>4. Narrows(N, n, w, pool)
  BY <1>2 DEF Narrows
<1> HIDE DEF N
<1> QED
  BY <1>3, <1>4

(* One step of it. *)
LEMMA OneNarrower ==
    ASSUME NEW n \in Nat, NEW w, NEW pool, NEW N, Narrows(N, n, w, pool)
    PROVE  /\ N[0] = pool
           /\ \A k \in Nat : k + 1 <= n => N[k + 1] = Narrow(N[k], w[k + 1])
<1>1. 0 \in 0 .. n
  OBVIOUS
<1>2. N[0] = pool
  BY <1>1 DEF Narrows
<1>3. ASSUME NEW k \in Nat, k + 1 <= n PROVE N[k + 1] = Narrow(N[k], w[k + 1])
  <2>1. k + 1 \in 0 .. n /\ k + 1 # 0 /\ (k + 1) - 1 = k
    BY <1>3
  <2> QED
    BY <2>1 DEF Narrows
<1> QED
  BY <1>2, <1>3

(* Nobody comes back, and somebody is left, at every step. *)
LEMMA Narrower ==
    ASSUME NEW n \in Nat, NEW w, NEW pool, NEW N, Narrows(N, n, w, pool), pool # {}
    PROVE  \A k \in 0 .. n : N[n] \subseteq N[k] /\ N[k] \subseteq pool /\ N[k] # {}
<1>1. /\ N[0] = pool
      /\ \A k \in Nat : k + 1 <= n => N[k + 1] = Narrow(N[k], w[k + 1])
  BY OneNarrower
<1>2. \A k \in Nat : k <= n => N[k] \subseteq pool /\ N[k] # {}
  <2> DEFINE S == {k \in Nat : k <= n => N[k] \subseteq pool /\ N[k] # {}}
  <2>1. 0 \in S
    BY <1>1
  <2>2. ASSUME NEW k \in Nat, k \in S PROVE k + 1 \in S
    <3> SUFFICES ASSUME k + 1 <= n
                 PROVE  N[k + 1] \subseteq pool /\ N[k + 1] # {}
      OBVIOUS
    <3>1. N[k] \subseteq pool /\ N[k] # {}
      BY <2>2
    <3>2. N[k + 1] = Narrow(N[k], w[k + 1])
      BY <1>1
    <3> QED
      BY <3>1, <3>2, Zenon DEF Narrow
  <2>3. Nat \subseteq S
    <3> HIDE DEF S
    <3> QED BY <2>1, <2>2, StepByStep
  <2> QED
    BY <2>3
<1>3. \A k \in Nat : k <= n => N[n] \subseteq N[n - k]
  <2> DEFINE S == {k \in Nat : k <= n => N[n] \subseteq N[n - k]}
  <2>1. 0 \in S
    OBVIOUS
  <2>2. ASSUME NEW k \in Nat, k \in S PROVE k + 1 \in S
    <3> SUFFICES ASSUME k + 1 <= n PROVE N[n] \subseteq N[n - (k + 1)]
      OBVIOUS
    <3> DEFINE j == n - (k + 1)
    <3>1. j \in Nat /\ j + 1 = n - k /\ j + 1 <= n
      OBVIOUS
    <3>2. N[n] \subseteq N[j + 1]
      BY <2>2, <3>1
    <3>3. N[j + 1] = Narrow(N[j], w[j + 1])
      <4> HIDE DEF j
      <4> QED BY <1>1, <3>1
    <3> HIDE DEF j
    <3>4. N[j + 1] \subseteq N[j]
      BY <3>3 DEF Narrow
    <3> QED
      BY <3>2, <3>4 DEF j
  <2>3. Nat \subseteq S
    <3> HIDE DEF S
    <3> QED BY <2>1, <2>2, StepByStep
  <2> QED
    BY <2>3
<1>4. ASSUME NEW k \in 0 .. n PROVE N[n] \subseteq N[k]
  <2>1. n - k \in Nat /\ n - k <= n /\ n - (n - k) = k
    OBVIOUS
  <2> QED
    BY <1>3, <2>1
<1> QED
  BY <1>2, <1>4

(* Who is left at the end is a lexicographic best of those it started with. *)
LEMMA LexicographicBest ==
    ASSUME NEW n \in Nat, NEW w, NEW pool, NEW N, Narrows(N, n, w, pool), pool # {},
           NEW s \in N[n], NEW t \in pool,
           NEW D, D = {i \in 1 .. n : (s \in w[i]) # (t \in w[i])}
    PROVE  /\ D = {} => t \in N[n]
           /\ \A m \in D : (\A i \in D : m <= i) => s \in w[m]
<1>1. /\ N[0] = pool
      /\ \A k \in Nat : k + 1 <= n => N[k + 1] = Narrow(N[k], w[k + 1])
  BY OneNarrower
<1>2. \A k \in 0 .. n : s \in N[k]
  BY Narrower
<1> DEFINE S == {k \in Nat : k <= n /\ (\A i \in D : k < i) => t \in N[k]}
<1>3. 0 \in S
  BY <1>1
<1>4. ASSUME NEW k \in Nat, k \in S PROVE k + 1 \in S
  <2> SUFFICES ASSUME k + 1 <= n, \A i \in D : k + 1 < i PROVE t \in N[k + 1]
    OBVIOUS
  <2>1. \A i \in D : i \in Int
    OBVIOUS
  <2>2. t \in N[k]
    BY <1>4, <2>1
  <2>3. k + 1 \notin D /\ k + 1 \in 1 .. n /\ k + 1 \in 0 .. n
    OBVIOUS
  <2>4. (s \in w[k + 1]) = (t \in w[k + 1])
    BY <2>3
  <2>5. s \in N[k + 1] /\ N[k + 1] = Narrow(N[k], w[k + 1])
    BY <1>1, <1>2, <2>3
  <2> QED
    BY <2>2, <2>4, <2>5 DEF Narrow
<1>5. Nat \subseteq S
  <2> HIDE DEF S
  <2> QED BY <1>3, <1>4, StepByStep
<1>6. D = {} => t \in N[n]
  BY <1>5
<1>7. ASSUME NEW m \in D, \A i \in D : m <= i PROVE s \in w[m]
  <2> DEFINE k == m - 1
  <2>1. m \in 1 .. n /\ k \in Nat /\ k + 1 = m /\ k + 1 <= n /\ k <= n
    OBVIOUS
  <2>2. \A i \in D : k < i
    BY <1>7, <2>1
  <2>3. t \in N[k]
    <3> HIDE DEF k
    <3> QED BY <1>5, <2>1, <2>2
  <2>4. s \in N[m] /\ N[m] = Narrow(N[k], w[m])
    <3> HIDE DEF k
    <3> QED BY <1>1, <1>2, <2>1
  <2> SUFFICES ASSUME s \notin w[m] PROVE FALSE
    OBVIOUS
  <2>5. t \in w[m]
    OBVIOUS
  <2> QED
    <3> HIDE DEF k
    <3> QED BY <2>3, <2>4, <2>5 DEF Narrow
<1> QED
  BY <1>6, <1>7
-----------------------------------------------------------------------------
(* The keys of the ranks are integers. *)
LEMMA RankKeys ==
    ASSUME NEW s \in Servers, NEW rep, IsEntry(rep),
           NEW rank_by \in {"cheapest", "best_reputation", "highest_csat", "lowest_latency"}
    PROVE  RankKey(s, rep, rank_by) \in Int /\ Meta[s].place \in Int
<1>1. Meta[s].base_rate \in Int /\ Meta[s].place \in Int
  BY RoutingAssumption DEF RoutingAssumption
<1>2. rep.reputation \in Int /\ rep.csat \in Int
  BY DEF IsEntry
<1>3. rep.completed_total \in Nat /\ rep.sum_latency \in Nat
  BY DEF IsEntry
<1>4. avg_latency(rep) \in Int
  BY <1>3 DEF avg_latency
<1>5. \/ RankKey(s, rep, rank_by) = Meta[s].base_rate
      \/ RankKey(s, rep, rank_by) = - rep.reputation
      \/ RankKey(s, rep, rank_by) = - rep.csat
      \/ RankKey(s, rep, rank_by) \in {1000000, avg_latency(rep)}
  BY DEF RankKey
<1> QED
  BY <1>1, <1>2, <1>4, <1>5

(* The first of the pool is in it and ranks before the others. *)
LEMMA FirstRanks ==
    ASSUME NEW S, S \subseteq Servers, S # {}, NEW reps, \A s \in S : IsEntry(reps[s]),
           NEW rank_by \in {"cheapest", "best_reputation", "highest_csat", "lowest_latency"}
    PROVE  LET first == First(S, reps, rank_by)
           IN  first \in S /\ \A t \in S \ {first} : RanksBefore(first, t, reps, rank_by)
<1> DEFINE R == {ss \in S \X S : RanksBefore(ss[1], ss[2], reps, rank_by)}
           key(s) == RankKey(s, reps[s], rank_by)
           place(s) == Meta[s].place
<1>1. \A s \in S : key(s) \in Int /\ place(s) \in Int
  BY RankKeys
<1>2. \A s, t \in S : place(s) = place(t) => s = t
  BY RoutingAssumption DEF RoutingAssumption
<1>3. IsFiniteSet(S)
  BY RoutingAssumption, FS_Subset DEF RoutingAssumption
<1>4. \A s, t \in S : <<s, t>> \in R <=> \/ key(s) < key(t)
                                         \/ key(s) = key(t) /\ place(s) < place(t)
  BY Zenon DEF RanksBefore
<1> HIDE DEF R, key, place
<1>5. /\ \A x \in S : <<x, x>> \notin R
      /\ \A x, y, z \in S : <<x, y>> \in R /\ <<y, z>> \in R => <<x, z>> \in R
      /\ \A x, y \in S : x = y \/ <<x, y>> \in R \/ <<y, x>> \in R
  BY <1>1, <1>2, <1>4
<1>6. \E x \in S : \A y \in S \ {x} : <<x, y>> \in R
  BY <1>3, <1>5, FirstOf
<1>7. \E x \in S : \A y \in S \ {x} : RanksBefore(x, y, reps, rank_by)
  BY <1>6 DEF R
<1> QED
  BY <1>7 DEF First

Fields == {"reputation", "completed_accepted", "completed_total", "failed", "sum_latency",
           "avg_overage", "csat", "csat_samples"}

(* An update of one field leaves an entry an entry. *)
LEMMA FieldsStay ==
    ASSUME NEW e, IsEntry(e)
    PROVE  /\ \A v \in Int : /\ IsEntry([e EXCEPT !.reputation = v])
                             /\ IsEntry([e EXCEPT !.avg_overage = v])
                             /\ IsEntry([e EXCEPT !.csat = v])
           /\ \A v \in Nat : /\ IsEntry([e EXCEPT !.completed_accepted = v])
                             /\ IsEntry([e EXCEPT !.completed_total = v])
                             /\ IsEntry([e EXCEPT !.failed = v])
                             /\ IsEntry([e EXCEPT !.sum_latency = v])
                             /\ IsEntry([e EXCEPT !.csat_samples = v])
<1>1. ASSUME NEW v \in Int
      PROVE  /\ IsEntry([e EXCEPT !.reputation = v])
             /\ IsEntry([e EXCEPT !.avg_overage = v])
             /\ IsEntry([e EXCEPT !.csat = v])
  BY DEF IsEntry
<1>2. ASSUME NEW v \in Nat
      PROVE  /\ IsEntry([e EXCEPT !.completed_accepted = v])
             /\ IsEntry([e EXCEPT !.completed_total = v])
             /\ IsEntry([e EXCEPT !.failed = v])
             /\ IsEntry([e EXCEPT !.sum_latency = v])
             /\ IsEntry([e EXCEPT !.csat_samples = v])
  BY DEF IsEntry
<1> QED
  BY <1>1, <1>2

(* Surveys and outcomes leave an entry an entry. *)
LEMMA EntriesStay ==
    ASSUME NEW e, IsEntry(e)
    PROVE  /\ \A score \in Int : IsEntry(apply_csat(e, score))
           /\ \A latency, chars, max_chars \in Int, outcome \in Outcomes :
                IsEntry(record_outcome(e, outcome, latency, chars, max_chars))
<1>0. /\ e.reputation \in Int /\ e.csat \in Int /\ e.completed_accepted \in Nat
      /\ e.completed_total \in Nat /\ e.failed \in Nat /\ e.sum_latency \in Nat
      /\ e.csat_samples \in Nat /\ e = [f \in Fields |-> e[f]]
  BY DEF IsEntry, Fields
<1>1. ASSUME NEW score \in Int PROVE IsEntry(apply_csat(e, score))
  <2> DEFINE b == Between(0, score, 100)
             x == IF e.csat_samples = 0 THEN b ELSE (90 * e.csat + 10 * b) \div 100
             d == [e EXCEPT !.csat = x]
  <2>1. b \in Int
    BY DEF Between, Least, Most
  <2>2. apply_csat(e, score) = [d EXCEPT !.csat_samples = e.csat_samples + 1]
    <3>0. apply_csat(e, score) = [e EXCEPT !.csat = x, !.csat_samples = @ + 1]
      BY Zenon DEF apply_csat
    <3> HIDE DEF x, b
    <3>1. apply_csat(e, score) = [e EXCEPT !.csat = x, !.csat_samples = e.csat_samples + 1]
      BY <3>0, <1>0 DEF Fields
    <3> HIDE DEF x
    <3> QED
      BY <3>1
  <2> HIDE DEF b
  <2>3. x \in Int
    BY <2>1, <1>0
  <2> HIDE DEF x
  <2>4. IsEntry(d)
    BY <2>3, FieldsStay
  <2> HIDE DEF d
  <2>5. e.csat_samples + 1 \in Nat
    BY <1>0
  <2>6. IsEntry([d EXCEPT !.csat_samples = e.csat_samples + 1])
    BY <2>4, <2>5, FieldsStay
  <2> QED
    BY <2>2, <2>6, Zenon
<1>2. ASSUME NEW latency \in Int, NEW outcome
      PROVE  IsEntry(apply_outcome(e, outcome, latency))
  <2> DEFINE up == Least(FullReputation, e.reputation + 1)
             down == Most(0, e.reputation - 1)
             low == Most(0, e.reputation - REP_PENALTY_FAILURE)
             late == e.sum_latency + Most(0, latency)
             total == e.completed_total + 1
             u1 == [e EXCEPT !.reputation = up]
             u2 == [u1 EXCEPT !.completed_accepted = e.completed_accepted + 1]
             u3 == [u2 EXCEPT !.completed_total = total]
             u4 == [u3 EXCEPT !.sum_latency = late]
             d1 == [e EXCEPT !.reputation = down]
             d2 == [d1 EXCEPT !.completed_total = total]
             d3 == [d2 EXCEPT !.sum_latency = late]
             l1 == [e EXCEPT !.reputation = low]
             l2 == [l1 EXCEPT !.failed = e.failed + 1]
  <2>1. up \in Int /\ down \in Int /\ low \in Int /\ late \in Nat /\ total \in Nat
    BY <1>0 DEF Least, Most, REP_PENALTY_FAILURE, FullReputation
  <2>0. \/ apply_outcome(e, outcome, latency)
             = [e EXCEPT !.reputation = up, !.completed_accepted = @ + 1,
                         !.completed_total = @ + 1, !.sum_latency = @ + Most(0, latency)]
        \/ apply_outcome(e, outcome, latency)
             = [e EXCEPT !.reputation = down, !.completed_total = @ + 1,
                         !.sum_latency = @ + Most(0, latency)]
        \/ apply_outcome(e, outcome, latency)
             = [e EXCEPT !.reputation = low, !.failed = @ + 1]
    BY Zenon DEF apply_outcome
  <2> HIDE DEF up, down, low
  <2>2. \/ apply_outcome(e, outcome, latency)
             = [e EXCEPT !.reputation = up, !.completed_accepted = e.completed_accepted + 1,
                         !.completed_total = total, !.sum_latency = late]
        \/ apply_outcome(e, outcome, latency)
             = [e EXCEPT !.reputation = down, !.completed_total = total, !.sum_latency = late]
        \/ apply_outcome(e, outcome, latency)
             = [e EXCEPT !.reputation = low, !.failed = e.failed + 1]
    BY <1>0, <2>0 DEF Fields
  <2> HIDE DEF late, total
  <2>3. \/ apply_outcome(e, outcome, latency) = u4
        \/ apply_outcome(e, outcome, latency) = d3
        \/ apply_outcome(e, outcome, latency) = l2
    <3>1. /\ u4 = [e EXCEPT !.reputation = up, !.completed_accepted = e.completed_accepted + 1,
                            !.completed_total = total, !.sum_latency = late]
          /\ d3 = [e EXCEPT !.reputation = down, !.completed_total = total, !.sum_latency = late]
          /\ l2 = [e EXCEPT !.reputation = low, !.failed = e.failed + 1]
      BY <1>0
    <3> HIDE DEF u4, d3, l2
    <3> QED
      BY <2>2, <3>1, Zenon
  <2>4. IsEntry(u1) /\ IsEntry(d1) /\ IsEntry(l1)
    BY <2>1, FieldsStay
  <2> HIDE DEF u1, d1, l1
  <2>5. IsEntry(u2) /\ IsEntry(d2) /\ IsEntry(l2)
    <3>1. e.completed_accepted + 1 \in Nat /\ e.failed + 1 \in Nat
      BY <1>0
    <3>2. IsEntry(u2)
      BY <2>4, <3>1, FieldsStay
    <3>3. IsEntry(d2)
      BY <2>1, <2>4, FieldsStay
    <3>4. IsEntry(l2)
      BY <2>4, <3>1, FieldsStay
    <3> QED
      BY <3>2, <3>3, <3>4
  <2> HIDE DEF u2, d2, l2
  <2>6. IsEntry(u3) /\ IsEntry(d3)
    BY <2>1, <2>5, FieldsStay
  <2> HIDE DEF u3
  <2>7. IsEntry(u4)
    BY <2>1, <2>6, FieldsStay
  <2> HIDE DEF u4, d3
  <2> QED
    BY <2>3, <2>5, <2>6, <2>7
<1>3. ASSUME NEW avg \in Int, NEW chars \in Int, NEW max_chars \in Int
      PROVE  update_avg_overage(avg, chars, max_chars) \in Int
  BY DEF update_avg_overage, Most
<1>4. ASSUME NEW latency \in Int, NEW chars \in Int, NEW max_chars \in Int, NEW outcome
      PROVE  IsEntry(record_outcome(e, outcome, latency, chars, max_chars))
  <2> DEFINE u == apply_outcome(e, outcome, latency)
             avg == update_avg_overage(u.avg_overage, chars, max_chars)
  <2>1. IsEntry(u)
    BY <1>2
  <2>2. record_outcome(e, outcome, latency, chars, max_chars)
          \in {u, [u EXCEPT !.avg_overage = avg]}
    BY DEF record_outcome
  <2> HIDE DEF u
  <2>3. avg \in Int
    BY <2>1, <1>3 DEF IsEntry
  <2> HIDE DEF avg
  <2>4. IsEntry([u EXCEPT !.avg_overage = avg])
    BY <2>1, <2>3, FieldsStay
  <2> QED
    BY <2>1, <2>2, <2>4, Zenon
<1> QED
  BY <1>1, <1>4

-----------------------------------------------------------------------------
(* A percentage of a whole, rounded down. *)
LEMMA Percents ==
    ASSUME NEW x \in Nat, NEW p \in Nat
    PROVE  /\ Percent(x, p) \in Nat /\ 100 * Percent(x, p) <= x * p
           /\ p <= 100 => Percent(x, p) <= x
<1> DEFINE y == x * p
<1>1. y \in Nat
  BY Products
<1>2. p <= 100 => y <= 100 * x
  <2>1. p <= 100 => p * x <= 100 * x
    BY Products
  <2> QED
    BY <2>1
<1> HIDE DEF y
<1>3. y \div 100 \in Nat /\ 100 * (y \div 100) <= y
  BY <1>1
<1>4. p <= 100 => y \div 100 <= x
  BY <1>1, <1>2, <1>3
<1> QED
  BY <1>3, <1>4 DEF Percent, y

(* The multipliers of a caller that is new, and of any record. *)
LEMMA LogOfOne == Log10(1) = 0
BY DEF Log10

LEMMA TierMultipliers ==
    \A tier \in Tiers : tier_multiplier(tier) \in Nat
BY DEF tier_multiplier, Tiers

(* Four percentages in a row, of which two may exceed the whole. *)
LEMMA Multiplied ==
    ASSUME NEW x \in Nat, NEW r \in 0 .. 150, NEW v \in 0 .. 110, NEW k \in 0 .. 100
    PROVE  LET y == Percent(Percent(Percent(Percent(x, 100), r), v), k)
           IN  /\ y \in Nat /\ 100 * y <= 165 * x
               /\ r <= 100 /\ v <= 100 => y <= x
<1> DEFINE a == Percent(x, 100)
           b == Percent(a, r)
           c == Percent(b, v)
           d == Percent(c, k)
<1>0. r \in Nat /\ v \in Nat /\ k \in Nat /\ k <= 100
  OBVIOUS
<1>1. a \in Nat /\ a <= x
  BY Percents
<1> HIDE DEF a
<1>2. b \in Nat /\ 100 * b <= a * r /\ (r <= 100 => b <= a)
  BY <1>0, <1>1, Percents
<1>3. a * r <= 150 * a
  <2>1. r \in Nat /\ r <= 150
    OBVIOUS
  <2>2. r * a <= 150 * a /\ r * a = a * r
    BY <1>1, <2>1, Products
  <2> QED
    BY <2>2
<1> HIDE DEF b
<1>4. c \in Nat /\ 100 * c <= b * v /\ (v <= 100 => c <= b)
  BY <1>0, <1>2, Percents
<1>5. b * v <= 110 * b
  <2>1. v \in Nat /\ v <= 110
    OBVIOUS
  <2>2. v * b <= 110 * b /\ v * b = b * v
    BY <1>2, <2>1, Products
  <2> QED
    BY <2>2
<1> HIDE DEF c
<1>6. d \in Nat /\ d <= c
  BY <1>0, <1>4, Percents
<1> DEFINE ar == a * r
           bv == b * v
<1>7. 100 * b <= 150 * a
  <2>1. ar \in Int /\ 100 * b <= ar /\ ar <= 150 * a
    BY <1>1, <1>2, <1>3
  <2> HIDE DEF ar
  <2> QED
    BY <2>1, <1>1, <1>2
<1>8. 100 * c <= 110 * b
  <2>1. bv \in Int /\ 100 * c <= bv /\ bv <= 110 * b
    BY <1>2, <1>4, <1>5
  <2> HIDE DEF bv
  <2> QED
    BY <2>1, <1>2, <1>4
<1> HIDE DEF d
<1>9. 100 * d <= 165 * x
  BY <1>1, <1>2, <1>4, <1>6, <1>7, <1>8
<1>10. r <= 100 /\ v <= 100 => d <= x
  BY <1>1, <1>2, <1>4, <1>6
<1> QED
  BY <1>6, <1>9, <1>10 DEF a, b, c, d

LEMMA RetentionOfNone == Retention(0) = 100
<1>1. 1 + Most(0, 0) = 1
  BY DEF Most
<1> QED
  BY <1>1, LogOfOne DEF Retention

LEMMA ReputationMultipliers ==
    ASSUME NEW reputation \in Int
    PROVE  /\ ReputationMultiplier(reputation) \in 0 .. 150
           /\ reputation <= 50 => ReputationMultiplier(reputation) <= 100
BY DEF ReputationMultiplier, Between, Least, Most

LEMMA VerbosityMultipliers ==
    ASSUME NEW avg \in Int
    PROVE  /\ VerbosityMultiplier(avg) \in 0 .. 110
           /\ avg >= 100 => VerbosityMultiplier(avg) <= 100
BY DEF VerbosityMultiplier, Between, Least, Most

LEMMA ComputeMultipliers ==
    ASSUME NEW latency, NEW tier, NEW verdict
    PROVE  ComputeMultiplier(latency, tier, verdict) \in 0 .. 100
<1>1. \A n \in {50, 100}, d \in {1, 2} : n \div d \in 0 .. 100
  OBVIOUS
<1>2. \E n \in {50, 100}, d \in {1, 2} : ComputeMultiplier(latency, tier, verdict) = n \div d
  BY DEF ComputeMultiplier
<1> QED
  BY <1>1, <1>2

(* The characters that are billed fit the budget that was held for, so the *)
(* base of the price and the hold compare as the two tiers do.             *)
LEMMA BaseForHold ==
    ASSUME NEW rate \in Nat, NEW held \in Nat, NEW used \in Nat,
           NEW chars \in Int, NEW prompt \in Int, NEW budget \in Int
    PROVE  LET eff == Most(0, Least(chars, budget))
               all == Most(0, prompt) + Most(0, budget)
               x == rate * used * eff
               hold == rate * held * all
           IN  x \in Nat /\ hold \in Nat /\ x * held <= hold * used
<1> DEFINE eff == Most(0, Least(chars, budget))
           all == Most(0, prompt) + Most(0, budget)
           m == rate * used * held
<1>1. eff \in Nat /\ all \in Nat /\ eff <= all
  BY DEF Most, Least
<1> HIDE DEF eff, all
<1>2. rate * used \in Nat /\ rate * held \in Nat /\ m \in Nat
  BY Products
<1>3. rate * used * eff \in Nat /\ rate * held * all \in Nat
  BY <1>1, <1>2, Products
<1>4. rate * used * eff * held = eff * m /\ rate * held * all * used = all * m
  BY <1>1
<1> HIDE DEF m
<1>5. eff * m <= all * m
  BY <1>1, <1>2, Products
<1> QED
  BY <1>3, <1>4, <1>5 DEF eff, all

LEMMA BaseWithinHold ==
    ASSUME NEW rate \in Nat, NEW held \in Nat, NEW used \in Nat, used <= held,
           NEW chars \in Int, NEW prompt \in Int, NEW budget \in Int
    PROVE  LET eff == Most(0, Least(chars, budget))
               x == rate * used * eff
           IN  x \in Nat /\ x <= rate * held * (Most(0, prompt) + Most(0, budget))
<1> DEFINE eff == Most(0, Least(chars, budget))
           all == Most(0, prompt) + Most(0, budget)
<1>1. eff \in Nat /\ all \in Nat /\ eff <= all
  BY DEF Most, Least
<1> HIDE DEF eff, all
<1> DEFINE ru == rate * used
           rh == rate * held
<1>2. ru \in Nat /\ rh \in Nat /\ ru <= rh
  <2>1. used * rate <= held * rate
    BY Products
  <2> QED
    BY <2>1, Products
<1> HIDE DEF ru, rh
<1>3. ru * eff \in Nat /\ ru * eff <= rh * eff
  BY <1>1, <1>2, Products
<1>4. rh * eff <= rh * all
  <2>1. eff * rh <= all * rh
    BY <1>1, <1>2, Products
  <2> QED
    BY <2>1, <1>1, <1>2
<1>5. rh * eff \in Nat /\ rh * all \in Nat
  BY <1>1, <1>2, Products
<1>6. ru * eff <= rh * all
  <2> DEFINE x == ru * eff
             y == rh * eff
             z == rh * all
  <2>1. x \in Int /\ y \in Int /\ z \in Int /\ x <= y /\ y <= z
    BY <1>3, <1>4, <1>5
  <2> HIDE DEF x, y, z
  <2>2. x <= z
    BY <2>1
  <2> QED
    BY <2>2 DEF x, z
<1> QED
  BY <1>3, <1>6 DEF eff, all, ru, rh

(* A price, in terms of the hold that the request called for. *)
LEMMA PriceWithinHold ==
    ASSUME NEW chosen, chosen.server \in Servers, chosen.leaf.tier \in Tiers,
           chosen.leaf.rate \in Nat, NEW r \in Requests, NEW rep, IsEntry(rep), NEW a \in Answers,
           chosen.hold = EstimateHold(Meta[chosen.server].base_rate, r.tier, r.prompt_chars,
                                      r.max_response_chars)
    PROVE  LET due == settle_payment(SettlementInputs(chosen, r, rep, a))
               dearer == tier_multiplier(chosen.leaf.tier) > tier_multiplier(r.tier)
               earned == rep.reputation > 100 \/ rep.avg_overage < 100
           IN  /\ due.pre_tax = due.server + due.compute + due.broker + due.commons
               /\ due.pre_tax > chosen.hold => dearer \/ earned
               /\ 100 * due.pre_tax * tier_multiplier(r.tier)
                    <= 165 * chosen.hold * tier_multiplier(chosen.leaf.tier)
<1> DEFINE inp == SettlementInputs(chosen, r, rep, a)
           used == tier_multiplier(chosen.leaf.tier)
           held == tier_multiplier(r.tier)
           rate == Meta[chosen.server].base_rate
           eff == Most(0, Least(a.chars, r.max_response_chars))
           x == rate * used * eff
           rm == ReputationMultiplier(rep.reputation \div 2)
           vm == VerbosityMultiplier(rep.avg_overage)
           cm == ComputeMultiplier(a.latency, chosen.leaf.tier, a.tier_verdict)
           y == Percent(Percent(Percent(Percent(x, 100), rm), vm), cm)
           due == settle_payment(inp)
<1>1. /\ rate \in Nat /\ r.tier \in Tiers /\ r.prompt_chars \in Int
      /\ r.max_response_chars \in Int /\ a.chars \in Int
  BY RoutingAssumption DEF RoutingAssumption
<1>2. used \in Nat /\ held \in Nat
  BY <1>1, TierMultipliers
<1>3. rep.reputation \in Int /\ rep.avg_overage \in Int
  BY DEF IsEntry
<1>4. rm \in 0 .. 150 /\ (rep.reputation <= 100 => rm <= 100)
  <2> DEFINE half == rep.reputation \div 2
  <2>1. half \in Int /\ (rep.reputation <= 100 => half <= 50)
    BY <1>3
  <2> HIDE DEF half
  <2> QED
    BY <2>1, ReputationMultipliers DEF half
<1>5. vm \in 0 .. 110 /\ (rep.avg_overage >= 100 => vm <= 100)
  BY <1>3, VerbosityMultipliers
<1>6. cm \in 0 .. 100
  BY ComputeMultipliers
<1>7. PreTax(inp) = y
  <2>1. /\ inp.base_rate = rate /\ inp.tier = chosen.leaf.tier /\ inp.response_chars = a.chars
        /\ inp.max_response_chars = r.max_response_chars /\ inp.latency = a.latency
        /\ inp.completed_with_caller = 0 /\ inp.tier_verdict = a.tier_verdict
        /\ inp.reputation = rep.reputation \div 2 /\ inp.avg_overage = rep.avg_overage
    BY DEF SettlementInputs
  <2> HIDE DEF inp
  <2> QED
    <3>1. EffectiveChars(inp) = eff
      BY <2>1, Zenon DEF EffectiveChars
    <3>2. Retention(inp.completed_with_caller) = 100
      BY <2>1, RetentionOfNone
    <3> HIDE DEF eff
    <3> QED
      BY <2>1, <3>1, <3>2, Zenon DEF PreTax
<1>71. inp.leaf_rate = chosen.leaf.rate /\ EffectiveChars(inp) = eff
  <2>1. /\ inp.leaf_rate = chosen.leaf.rate /\ inp.response_chars = a.chars
        /\ inp.max_response_chars = r.max_response_chars
    BY DEF SettlementInputs
  <2> HIDE DEF inp
  <2> QED
    BY <2>1, Zenon DEF EffectiveChars
<1> HIDE DEF inp
<1>8. due.pre_tax = y
  BY <1>7 DEF settle_payment
<1> HIDE DEF used, held, rate, rm, vm, cm
<1>9. x \in Nat /\ (used <= held => x <= chosen.hold)
  <2>1. chosen.hold = rate * held * (Most(0, r.prompt_chars) + Most(0, r.max_response_chars))
    BY Zenon DEF EstimateHold, held, rate
  <2>2. used <= used
    BY <1>2
  <2>3. x \in Nat
    BY <1>1, <1>2, <2>2, BaseWithinHold
  <2> DEFINE bound == rate * held * (Most(0, r.prompt_chars) + Most(0, r.max_response_chars))
  <2>4. ASSUME used <= held PROVE x <= bound
    BY <1>1, <1>2, <2>4, BaseWithinHold
  <2> HIDE DEF x, bound
  <2>5. chosen.hold = bound
    BY <2>1 DEF bound
  <2> QED
    BY <2>3, <2>4, <2>5
<1>10. chosen.hold \in Int
  <2>1. chosen.hold = rate * held * (Most(0, r.prompt_chars) + Most(0, r.max_response_chars))
    BY Zenon DEF EstimateHold, held, rate
  <2> DEFINE all == Most(0, r.prompt_chars) + Most(0, r.max_response_chars)
  <2>2. all \in Nat
    BY <1>1 DEF Most
  <2> HIDE DEF all
  <2>3. rate * held \in Nat
    BY <1>1, <1>2, Products
  <2>4. rate * held * all \in Nat
    BY <2>2, <2>3, Products
  <2> QED
    BY <2>1, <2>4 DEF all
<1> HIDE DEF x
<1>11. y \in Nat /\ 100 * y <= 165 * x /\ (rm <= 100 /\ vm <= 100 => y <= x)
  BY <1>4, <1>5, <1>6, <1>9, Multiplied
<1> HIDE DEF y
<1>12. due.pre_tax = due.server + due.compute + due.broker + due.commons
  <2> DEFINE to_compute == (chosen.leaf.rate * eff) \div 1000
             tax == Percent(y, 5)
             to_broker == Percent(tax, 60)
  <2>1. eff \in Nat /\ chosen.leaf.rate * eff \in Nat
    <3>1. eff \in Nat
      BY <1>1 DEF Most, Least
    <3> QED
      BY <3>1, Products
  <2>2. to_compute \in Int
    <3> DEFINE cost == chosen.leaf.rate * eff
    <3>1. cost \in Int
      BY <2>1
    <3> HIDE DEF cost
    <3>2. cost \div 1000 \in Int
      BY <3>1
    <3> QED
      BY <3>2 DEF cost
  <2>3. tax \in Nat /\ to_broker \in Nat
    <3>1. tax \in Nat
      BY <1>11, Percents
    <3> HIDE DEF tax
    <3> QED
      BY <3>1, Percents
  <2>4. /\ due.server = y - to_compute - tax /\ due.compute = to_compute
        /\ due.broker = to_broker /\ due.commons = tax - to_broker
    <3>1. PreTax(inp) = y
      BY <1>8 DEF settle_payment
    <3> HIDE DEF eff
    <3> QED
      BY <3>1, <1>71 DEF settle_payment
  <2> HIDE DEF to_compute, tax, to_broker, due
  <2> QED
    BY <1>8, <1>11, <2>2, <2>3, <2>4
<1> HIDE DEF due
<1>13. ASSUME used <= held, y > chosen.hold
       PROVE  rep.reputation > 100 \/ rep.avg_overage < 100
  BY <1>3, <1>4, <1>5, <1>9, <1>10, <1>11, <1>13
<1>14. ~ used > held <=> used <= held
  BY <1>2
<1>15. 100 * y * held <= 165 * chosen.hold * used
  <2> DEFINE hold == chosen.hold
             c == 100 * y
             b == 165 * x
             xh == x * held
             hu == hold * used
  <2>1. x \in Nat /\ hold \in Nat /\ xh <= hu
    <3>1. hold = rate * held * (Most(0, r.prompt_chars) + Most(0, r.max_response_chars))
      BY Zenon DEF EstimateHold, held, rate
    <3> DEFINE bound == rate * held * (Most(0, r.prompt_chars) + Most(0, r.max_response_chars))
    <3>2. x \in Nat /\ bound \in Nat /\ x * held <= bound * used
      BY <1>1, <1>2, BaseForHold DEF x
    <3> HIDE DEF hold, bound
    <3>3. hold = bound
      BY <3>1 DEF bound
    <3> QED
      BY <3>2, <3>3
  <2> HIDE DEF hold
  <2>2. c \in Nat /\ b \in Nat /\ c <= b
    BY <1>11, <2>1
  <2> HIDE DEF y
  <2>3. c * held <= b * held
    <3> HIDE DEF c, b
    <3> QED
      BY <1>2, <2>2, Products
  <2>4. xh \in Nat /\ hu \in Nat /\ b * held = 165 * xh /\ 165 * hold * used = 165 * hu
    <3>1. b * held = 165 * xh
      BY <1>2, <2>1
    <3>2. 165 * hold * used = 165 * hu
      BY <1>2, <2>1
    <3>3. xh \in Nat /\ hu \in Nat
      BY <1>2, <2>1, Products
    <3> QED
      BY <3>1, <3>2, <3>3
  <2> DEFINE ch == c * held
             bh == b * held
             h165 == 165 * hold * used
  <2>5. ch \in Int
    BY <1>2, <2>2
  <2> HIDE DEF xh, hu, ch, bh, h165, b, c
  <2>6. ch <= bh /\ bh = 165 * xh /\ h165 = 165 * hu
    BY <2>3, <2>4 DEF ch, bh, h165
  <2>7. ch <= h165
    BY <2>1, <2>4, <2>5, <2>6
  <2> QED
    BY <2>7 DEF ch, c, h165, hold
<1> QED
  BY <1>8, <1>12, <1>13, <1>14, <1>15 DEF used, held, due, inp

-----------------------------------------------------------------------------
(* The inductive invariant says of each resolution how what it has so far  *)
(* was computed from what it read: from its own variables alone, so that   *)
(* no step of another resolution, nor a change of the world, can break it. *)
Read(r, reps) ==
    /\ DOMAIN reps \subseteq Servers
    /\ \A s \in DOMAIN reps : IsEntry(reps[s]) /\ PassesHardFilter(s, reps[s], r.prefs)

Chosen(r, reps, pool, chosen) ==
    /\ pool # {} /\ pool \subseteq DOMAIN reps
    /\ chosen.server = First(SoftFilter(pool, r.prefs), reps, r.prefs.server_rank_by)

Candidates(chosen, menu) ==
    {l \in matching_leaves(Meta[chosen.server].binding, menu) : l.healthy}

Picked(r, chosen, menu) ==
    /\ menu \subseteq Leaves /\ Candidates(chosen, menu) # {}
    /\ chosen.leaf = best_leaf(Meta[chosen.server].binding, menu, r.prefs.compute_rank_by,
                               [p \in {l.provider : l \in menu} |-> 50])
    /\ chosen.hold = EstimateHold(Meta[chosen.server].base_rate, r.tier, r.prompt_chars,
                                  r.max_response_chars)

Paid(r, chosen, rep, due) ==
    /\ IsEntry(rep)
    /\ \E a \in Answers : due = settle_payment(SettlementInputs(chosen, r, rep, a))

Afterwards == {"priced", "rating", "settled", "refused"}

Resolution(at, r, left, found, reps, pool, chosen, menu, reply, loaded, rep, due) ==
    /\ r \in Requests /\ left \subseteq Servers /\ found \subseteq Servers /\ Read(r, reps)
    /\ chosen = [server |-> chosen.server, leaf |-> chosen.leaf, hold |-> chosen.hold]
    /\ at \in {"leaf", "routed"} \cup Afterwards => Chosen(r, reps, pool, chosen)
    /\ at \in {"routed"} \cup Afterwards => Picked(r, chosen, menu)
    /\ at \in Afterwards => Paid(r, chosen, rep, due)
    /\ at \in {"priced", "rating"} => reply \in Answers
    /\ at = "rating" => IsEntry(loaded)

RoutesTyped ==
    /\ DOMAIN entries = Servers /\ \A s \in Servers : IsEntry(entries[s])
    /\ offered \subseteq Leaves
    /\ DOMAIN stage = Resolvers /\ DOMAIN request = Resolvers /\ DOMAIN todo = Resolvers
    /\ DOMAIN kept = Resolvers /\ DOMAIN gated = Resolvers /\ DOMAIN decision = Resolvers
    /\ DOMAIN on_offer = Resolvers /\ DOMAIN record = Resolvers
    /\ DOMAIN settlement = Resolvers /\ DOMAIN listed = Resolvers
    /\ DOMAIN answer = Resolvers /\ DOMAIN current = Resolvers

Resolved(c) ==
    Resolution(stage[c], request[c], todo[c], listed[c], kept[c], gated[c], decision[c],
               on_offer[c], answer[c], current[c], record[c], settlement[c])

RoutesInv == RoutesTyped /\ \A c \in Resolvers : Resolved(c)

(* The server that was chosen is one of the pool, and a lexicographic best *)
(* of it.                                                                  *)
LEMMA ChosenWell ==
    ASSUME NEW r \in Requests, NEW reps, Read(r, reps), NEW pool, NEW chosen,
           Chosen(r, reps, pool, chosen)
    PROVE  LET s == chosen.server
               w == Wishes(r.prefs)
               Differ(t) == {i \in DOMAIN w : (s \in w[i]) # (t \in w[i])}
           IN  /\ s \in pool /\ s \in Servers
               /\ \A t \in pool \ {s} :
                    IF Differ(t) # {} THEN s \in w[Min(Differ(t))]
                    ELSE RanksBefore(s, t, reps, r.prefs.server_rank_by)
<1> DEFINE w == Wishes(r.prefs)
           n == Len(w)
           s == chosen.server
           rank_by == r.prefs.server_rank_by
<1>1. Prefers(r.prefs) /\ rank_by \in {"cheapest", "best_reputation", "highest_csat",
                                       "lowest_latency"}
  BY RoutingAssumption DEF RoutingAssumption, Prefers
<1>2. n \in Nat /\ DOMAIN w = 1 .. n
  BY <1>1, WishesAreSets
<1>3. PICK N : Narrows(N, n, w, pool) /\ SoftFilter(pool, r.prefs) = N[n]
  BY <1>1, SoftFilterNarrows
<1>4. pool # {} /\ pool \subseteq DOMAIN reps /\ s = First(N[n], reps, rank_by)
  BY <1>3 DEF Chosen
<1> HIDE DEF n, w, s, rank_by
<1>5. N[n] # {} /\ N[n] \subseteq pool
  <2>1. n \in 0 .. n
    BY <1>2
  <2> QED
    BY <1>2, <1>3, <1>4, <2>1, Narrower
<1>6. N[n] \subseteq Servers /\ \A t \in N[n] : IsEntry(reps[t])
  BY <1>4, <1>5 DEF Read
<1>7. s \in N[n] /\ \A t \in N[n] \ {s} : RanksBefore(s, t, reps, rank_by)
  BY <1>1, <1>4, <1>5, <1>6, FirstRanks
<1>8. ASSUME NEW t \in pool \ {s}, NEW D, D = {i \in DOMAIN w : (s \in w[i]) # (t \in w[i])}
      PROVE  IF D # {} THEN s \in w[Min(D)] ELSE RanksBefore(s, t, reps, rank_by)
  <2>0. D = {i \in 1 .. n : (s \in w[i]) # (t \in w[i])}
    BY <1>2, <1>8
  <2>1. /\ D = {} => t \in N[n]
        /\ \A m \in D : (\A i \in D : m <= i) => s \in w[m]
    BY <1>2, <1>3, <1>4, <1>7, <2>0, LexicographicBest
  <2>2. CASE D = {}
    BY <1>7, <1>8, <2>1, <2>2
  <2>3. CASE D # {}
    <3>1. D \in SUBSET Nat
      BY <1>2, <2>0
    <3>2. \E m \in D : \A i \in D : m <= i
      BY <2>3, <3>1, LeastOf
    <3>3. Min(D) \in D /\ \A i \in D : Min(D) <= i
      BY <3>2 DEF Min
    <3> QED
      BY <2>1, <2>3, <3>3
  <2> QED
    BY <2>2, <2>3
<1> QED
  BY <1>5, <1>6, <1>7, <1>8 DEF n, w, s, rank_by

(* The leaf that was picked is a healthy one of the menu that matches, and *)
(* none that matches is at least as good in everything and better in       *)
(* something.                                                              *)
LEMMA PickedWell ==
    ASSUME NEW r, NEW chosen, NEW menu, Picked(r, chosen, menu)
    PROVE  LET l == chosen.leaf
           IN  /\ l \in menu /\ l.healthy
               /\ \A m \in menu :
                    m.healthy /\ PatternMatches(Meta[chosen.server].binding, m) =>
                      ~ /\ m.rate <= l.rate /\ m.latency <= l.latency /\ m.capacity >= l.capacity
                        /\ <<m.rate, m.latency, m.capacity>> # <<l.rate, l.latency, l.capacity>>
<1> DEFINE H == Candidates(chosen, menu)
           reps == [p \in {l.provider : l \in menu} |-> 50]
           rank_by == r.prefs.compute_rank_by
           l == chosen.leaf
<1>1. /\ menu \subseteq Leaves /\ IsFiniteSet(menu) /\ \A x \in menu : IsLeaf(x)
      /\ \A x, y \in menu : x.place = y.place => x = y
  BY RoutingAssumption, FS_Subset DEF RoutingAssumption, Picked
<1>2. \A x \in menu : reps[x.provider] = 50
  OBVIOUS
<1>3. /\ H = {x \in matching_leaves(Meta[chosen.server].binding, menu) : x.healthy} /\ H # {}
      /\ l = best_leaf(Meta[chosen.server].binding, menu, rank_by, reps)
  BY DEF Candidates, Picked
<1>4. H \subseteq menu /\ IsFiniteSet(H)
  <2>1. H \subseteq menu
    BY <1>3 DEF matching_leaves
  <2> HIDE DEF H
  <2> QED
    BY <1>1, <2>1, FS_Subset
<1>5. \A x \in menu :
        x.healthy /\ PatternMatches(Meta[chosen.server].binding, x) => x \in H
  BY <1>3 DEF matching_leaves
<1>6. \A x \in H : x.healthy
  BY <1>3
<1> HIDE DEF H, reps, l, rank_by
<1>7. l \in H /\ \A x \in H \ {l} : Outranks(l, x, H, rank_by, reps)
  <2>1. \A x \in menu : reps[x.provider] \in Int
    BY <1>2
  <2> QED
    BY <1>1, <1>3, <2>1, BestLeaf
<1>8. ASSUME NEW m \in H, m.rate <= l.rate, m.latency <= l.latency, m.capacity >= l.capacity,
             <<m.rate, m.latency, m.capacity>> # <<l.rate, l.latency, l.capacity>>
      PROVE  FALSE
  <2>1. /\ \A x \in H : IsLeaf(x) /\ reps[x.provider] \in Int
        /\ reps[m.provider] = reps[l.provider]
    BY <1>1, <1>2, <1>4, <1>7
  <2>2. /\ Score(l, H, rank_by, reps) \in Int /\ Score(m, H, rank_by, reps) \in Int
        /\ Score(l, H, rank_by, reps) < Score(m, H, rank_by, reps)
    BY <1>4, <1>7, <1>8, <2>1, BetterScoresHigher
  <2>3. m # l
    BY <1>8
  <2>4. Outranks(l, m, H, rank_by, reps)
    BY <1>7, <2>3
  <2> QED
    BY <2>2, <2>4 DEF Outranks
<1> QED
  BY <1>4, <1>5, <1>6, <1>7, <1>8 DEF l

(* What a step of one resolution leaves of the others. *)
Same(d) ==
    /\ stage'[d] = stage[d] /\ request'[d] = request[d] /\ todo'[d] = todo[d]
    /\ kept'[d] = kept[d] /\ gated'[d] = gated[d] /\ decision'[d] = decision[d]
    /\ on_offer'[d] = on_offer[d] /\ record'[d] = record[d] /\ settlement'[d] = settlement[d]
    /\ listed'[d] = listed[d] /\ answer'[d] = answer[d] /\ current'[d] = current[d]

(* A step of one resolution keeps the invariant if it keeps its own        *)
(* part.                                                                   *)
LEMMA OthersGoOn ==
    ASSUME RoutesInv, RoutesTyped', NEW c \in Resolvers, Resolved(c)',
           \A d \in Resolvers \ {c} : Same(d)
    PROVE  RoutesInv'
<1>1. ASSUME NEW d \in Resolvers
      PROVE  Resolved(d)'
  <2>1. CASE d = c
    BY <2>1
  <2>2. CASE d # c
    <3>1. Resolved(d) /\ Same(d)
      BY <2>2 DEF RoutesInv
    <3> QED
      BY <3>1 DEF Resolved, Same
  <2> QED
    BY <2>1, <2>2
<1> QED
  BY <1>1 DEF RoutesInv

(* What PickLeaf writes into a decision. *)
LEMMA LeafAndHold ==
    ASSUME NEW s, NEW l, NEW h, NEW leaf, NEW hold, NEW e,
           e = [server |-> s, leaf |-> l, hold |-> h]
    PROVE  [e EXCEPT !.hold = hold, !.leaf = leaf] = [server |-> s, leaf |-> leaf, hold |-> hold]
<1>1. [e EXCEPT !.hold = hold] = [server |-> s, leaf |-> l, hold |-> hold]
  OBVIOUS
<1> DEFINE f == [server |-> s, leaf |-> l, hold |-> hold]
<1>2. [f EXCEPT !.leaf = leaf] = [server |-> s, leaf |-> leaf, hold |-> hold]
  OBVIOUS
<1> QED
  BY <1>1, <1>2

(* The invariant holds initially, and *)
LEMMA RoutesStart == RoutingInit => RoutesInv
<1> SUFFICES ASSUME RoutingInit PROVE RoutesInv
  OBVIOUS
<1>2. RoutesTyped
  <2>1. DOMAIN entries = Servers /\ \A s \in Servers : IsEntry(entries[s])
    BY RoutingAssumption DEF RoutingAssumption, RoutingInit
  <2> QED
    BY <2>1 DEF RoutesTyped, RoutingInit
<1>3. ASSUME NEW c \in Resolvers
      PROVE  Resolved(c)
  <2>1. request[c] \in Requests
    BY RoutingAssumption DEF RoutingAssumption, RoutingInit
  <2>2. /\ stage[c] = "idle" /\ todo[c] = {} /\ listed[c] = {} /\ DOMAIN kept[c] = {}
        /\ decision[c] = Undecided
    BY DEF RoutingInit
  <2> QED
    BY <2>1, <2>2 DEF Resolved, Resolution, Read, Undecided, Afterwards
<1> QED
  BY <1>2, <1>3 DEF RoutesInv

(* it is inductive. *)
LEMMA RoutesKept ==
    ASSUME RoutesInv, [RoutingNext]_routing_vars
    PROVE  RoutesInv'
<1> USE DEF world_vars, choice_vars, settled_vars, Afterwards
<1>0. RoutesTyped
  BY DEF RoutesInv
<1>1. ASSUME NEW c \in Resolvers, Resolve(c)
      PROVE  RoutesInv'
  <2>1. RoutesTyped'
    BY <1>0, <1>1 DEF RoutesTyped, Resolve
  <2>2. \A d \in Resolvers \ {c} : Same(d)
    BY <1>0, <1>1 DEF RoutesTyped, Resolve, Same
  <2>3. /\ request'[c] \in Requests /\ stage'[c] = "discover" /\ todo'[c] = Servers
        /\ listed'[c] = {} /\ DOMAIN kept'[c] = {} /\ decision'[c] = decision[c]
    BY <1>0, <1>1 DEF RoutesTyped, Resolve
  <2>4. decision[c] = [server |-> decision[c].server, leaf |-> decision[c].leaf,
                       hold |-> decision[c].hold]
    BY DEF RoutesInv, Resolved, Resolution
  <2>5. Resolved(c)'
    BY <2>3, <2>4 DEF Resolved, Resolution, Read
  <2> QED
    BY <2>1, <2>2, <2>5, OthersGoOn
<1>2. ASSUME NEW c \in Resolvers, Discover(c)
      PROVE  RoutesInv'
  <2>0. /\ stage[c] = "discover" /\ stage' = stage
        /\ \E s \in todo[c] :
             /\ todo' = [todo EXCEPT ![c] = @ \ {s}]
             /\ listed' = listed \/ listed' = [listed EXCEPT ![c] = @ \cup {s}]
        /\ UNCHANGED <<world_vars, request, kept, gated, decision, on_offer, settled_vars>>
    BY <1>2 DEF Discover
  <2>1. RoutesTyped'
    BY <1>0, <2>0 DEF RoutesTyped
  <2>2. \A d \in Resolvers \ {c} : Same(d)
    BY <1>0, <2>0 DEF RoutesTyped, Same
  <2>3. todo[c] \subseteq Servers /\ listed[c] \subseteq Servers
    BY DEF RoutesInv, Resolved, Resolution
  <2>4. todo'[c] \subseteq Servers /\ listed'[c] \subseteq Servers
    BY <1>0, <2>0, <2>3 DEF RoutesTyped
  <2>5. Resolved(c)'
    BY <2>0, <2>4 DEF RoutesInv, Resolved, Resolution
  <2> QED
    BY <2>1, <2>2, <2>5, OthersGoOn
<1>11. ASSUME NEW c \in Resolvers, Discovered(c)
       PROVE  RoutesInv'
  <2>1. RoutesTyped'
    BY <1>0, <1>11 DEF RoutesTyped, Discovered
  <2>2. \A d \in Resolvers \ {c} : Same(d)
    BY <1>0, <1>11 DEF RoutesTyped, Discovered, Same
  <2>3. /\ stage'[c] = "rate" /\ todo'[c] = listed[c] /\ listed' = listed
        /\ request'[c] = request[c] /\ kept'[c] = kept[c] /\ decision'[c] = decision[c]
    BY <1>0, <1>11 DEF RoutesTyped, Discovered
  <2>4. Resolved(c)'
    BY <2>3 DEF RoutesInv, Resolved, Resolution
  <2> QED
    BY <2>1, <2>2, <2>4, OthersGoOn
<1>3. ASSUME NEW c \in Resolvers, Rate(c)
      PROVE  RoutesInv'
  <2>1. PICK s \in todo[c] :
          /\ todo' = [todo EXCEPT ![c] = @ \ {s}]
          /\ kept' = IF PassesHardFilter(s, entries[s], request[c].prefs)
                     THEN [kept EXCEPT ![c] = [t \in DOMAIN @ \cup {s} |-> IF t = s THEN entries[s] ELSE @[t]]]
                     ELSE kept
    BY <1>3 DEF Rate
  <2>2. /\ stage[c] = "rate" /\ stage' = stage /\ request' = request /\ gated' = gated
        /\ decision' = decision /\ on_offer' = on_offer /\ settlement' = settlement /\ UNCHANGED <<listed, answer, current>>
        /\ record' = record /\ entries' = entries /\ offered' = offered
    BY <1>3 DEF Rate
  <2>3. RoutesTyped'
    BY <1>0, <2>1, <2>2 DEF RoutesTyped
  <2>4. \A d \in Resolvers \ {c} : Same(d)
    BY <1>0, <2>1, <2>2 DEF RoutesTyped, Same
  <2>5. /\ request[c] \in Requests /\ todo[c] \subseteq Servers /\ Read(request[c], kept[c])
        /\ listed[c] \subseteq Servers
        /\ decision[c] = [server |-> decision[c].server, leaf |-> decision[c].leaf,
                          hold |-> decision[c].hold]
    BY DEF RoutesInv, Resolved, Resolution
  <2>6. s \in Servers /\ IsEntry(entries[s])
    BY <1>0, <2>1, <2>5 DEF RoutesTyped
  <2>7. todo'[c] \subseteq Servers
    BY <1>0, <2>1, <2>5 DEF RoutesTyped
  <2>8. Read(request[c], kept'[c])
    <3>1. CASE PassesHardFilter(s, entries[s], request[c].prefs)
      <4>1. kept'[c] = [t \in DOMAIN kept[c] \cup {s} |-> IF t = s THEN entries[s] ELSE kept[c][t]]
        BY <1>0, <2>1, <3>1 DEF RoutesTyped
      <4> QED
        BY <2>5, <2>6, <3>1, <4>1 DEF Read
    <3>2. CASE ~PassesHardFilter(s, entries[s], request[c].prefs)
      BY <2>1, <2>5, <3>2
    <3> QED
      BY <3>1, <3>2
  <2>9. Resolved(c)'
    BY <2>2, <2>5, <2>7, <2>8 DEF Resolved, Resolution
  <2> QED
    BY <2>3, <2>4, <2>9, OthersGoOn
<1>4. ASSUME NEW c \in Resolvers, Choose(c)
      PROVE  RoutesInv'
  <2>1. /\ request' = request /\ todo' = todo /\ kept' = kept /\ on_offer' = on_offer
        /\ settlement' = settlement /\ UNCHANGED <<listed, answer, current>> /\ record' = record /\ entries' = entries
        /\ offered' = offered
    BY <1>4 DEF Choose
  <2>2. \/ Fail(c) /\ gated' = gated
        \/ \E pool \in SUBSET DOMAIN kept[c] : \E s :
             /\ pool # {}
             /\ s = First(SoftFilter(pool, request[c].prefs), kept[c],
                          request[c].prefs.server_rank_by)
             /\ gated' = [gated EXCEPT ![c] = pool]
             /\ decision' = [decision EXCEPT ![c] = [Undecided EXCEPT !.server = s]]
             /\ stage' = [stage EXCEPT ![c] = "leaf"]
    <3>1. CASE DOMAIN kept[c] = {} /\ Fail(c) /\ UNCHANGED gated
      BY <3>1
    <3>2. ASSUME NEW passed \in SUBSET DOMAIN kept[c], NEW pool,
                 pool = IF passed = {} THEN DOMAIN kept[c] ELSE passed,
                 DOMAIN kept[c] # {}
          PROVE  pool \in SUBSET DOMAIN kept[c] /\ pool # {}
      BY <3>2
    <3> QED
      BY <1>4, <3>1, <3>2 DEF Choose
  <2>3. /\ request[c] \in Requests /\ todo[c] \subseteq Servers /\ Read(request[c], kept[c])
        /\ listed[c] \subseteq Servers
    BY DEF RoutesInv, Resolved, Resolution
  <2>4. CASE Fail(c) /\ gated' = gated
    <3>1. RoutesTyped'
      BY <1>0, <2>1, <2>4 DEF RoutesTyped, Fail
    <3>2. \A d \in Resolvers \ {c} : Same(d)
      BY <1>0, <2>1, <2>4 DEF RoutesTyped, Fail, Same
    <3>3. stage'[c] = "failed" /\ decision'[c] = Undecided
      BY <1>0, <2>4 DEF RoutesTyped, Fail
    <3>4. Resolved(c)'
      BY <2>1, <2>3, <3>3 DEF Resolved, Resolution, Undecided
    <3> QED
      BY <3>1, <3>2, <3>4, OthersGoOn
  <2>5. ASSUME NEW pool \in SUBSET DOMAIN kept[c], NEW s, pool # {},
               s = First(SoftFilter(pool, request[c].prefs), kept[c],
                         request[c].prefs.server_rank_by),
               gated' = [gated EXCEPT ![c] = pool],
               decision' = [decision EXCEPT ![c] = [Undecided EXCEPT !.server = s]],
               stage' = [stage EXCEPT ![c] = "leaf"]
        PROVE  RoutesInv'
    <3>1. RoutesTyped'
      BY <1>0, <2>1, <2>5 DEF RoutesTyped
    <3>2. \A d \in Resolvers \ {c} : Same(d)
      BY <1>0, <2>1, <2>5 DEF RoutesTyped, Same
    <3>3. /\ stage'[c] = "leaf" /\ gated'[c] = pool
          /\ decision'[c] = [server |-> s, leaf |-> NoLeaf, hold |-> 0]
      BY <1>0, <2>5 DEF RoutesTyped, Undecided
    <3>4. Chosen(request[c], kept[c], pool, decision'[c])
      BY <2>5, <3>3 DEF Chosen
    <3>5. Resolved(c)'
      BY <2>1, <2>3, <3>3, <3>4 DEF Resolved, Resolution
    <3> QED
      BY <3>1, <3>2, <3>5, OthersGoOn
  <2> QED
    BY <2>2, <2>4, <2>5
<1>5. ASSUME NEW c \in Resolvers, PickLeaf(c)
      PROVE  RoutesInv'
  <2> DEFINE s == decision[c].server
             r == request[c]
             hold == EstimateHold(Meta[s].base_rate, r.tier, r.prompt_chars, r.max_response_chars)
             leaf == best_leaf(Meta[s].binding, offered, r.prefs.compute_rank_by,
                               [p \in {l.provider : l \in offered} |-> 50])
             healthy == {l \in matching_leaves(Meta[s].binding, offered) : l.healthy}
  <2>1. /\ request' = request /\ todo' = todo /\ kept' = kept /\ gated' = gated
        /\ settlement' = settlement /\ UNCHANGED <<listed, answer, current>> /\ record' = record /\ entries' = entries
        /\ offered' = offered /\ on_offer' = [on_offer EXCEPT ![c] = offered]
        /\ stage[c] = "leaf"
    BY <1>5 DEF PickLeaf
  <2>2. \/ Fail(c)
        \/ /\ healthy # {}
           /\ decision' = [decision EXCEPT ![c].hold = hold, ![c].leaf = leaf]
           /\ stage' = [stage EXCEPT ![c] = "routed"]
    BY <1>5, Zenon DEF PickLeaf
  <2> HIDE DEF leaf, hold, healthy
  <2>3. /\ request[c] \in Requests /\ todo[c] \subseteq Servers /\ Read(request[c], kept[c])
        /\ listed[c] \subseteq Servers
        /\ decision[c] = [server |-> s, leaf |-> decision[c].leaf, hold |-> decision[c].hold]
        /\ Chosen(request[c], kept[c], gated[c], decision[c])
    BY <2>1 DEF RoutesInv, Resolved, Resolution
  <2>4. CASE Fail(c)
    <3>1. RoutesTyped'
      BY <1>0, <2>1, <2>4 DEF RoutesTyped, Fail
    <3>2. \A d \in Resolvers \ {c} : Same(d)
      BY <1>0, <2>1, <2>4 DEF RoutesTyped, Fail, Same
    <3>3. stage'[c] = "failed" /\ decision'[c] = Undecided
      BY <1>0, <2>4 DEF RoutesTyped, Fail
    <3>4. Resolved(c)'
      BY <2>1, <2>3, <3>3 DEF Resolved, Resolution, Undecided
    <3> QED
      BY <3>1, <3>2, <3>4, OthersGoOn
  <2>5. CASE /\ healthy # {}
             /\ decision' = [decision EXCEPT ![c].hold = hold, ![c].leaf = leaf]
             /\ stage' = [stage EXCEPT ![c] = "routed"]
    <3>1. RoutesTyped'
      BY <1>0, <2>1, <2>5 DEF RoutesTyped
    <3>2. \A d \in Resolvers \ {c} : Same(d)
      BY <1>0, <2>1, <2>5 DEF RoutesTyped, Same
    <3>3. stage'[c] = "routed" /\ on_offer'[c] = offered
      BY <1>0, <2>1, <2>5 DEF RoutesTyped
    <3>4. decision'[c] = [server |-> s, leaf |-> leaf, hold |-> hold]
      <4>1. decision'[c] = [decision[c] EXCEPT !.hold = hold, !.leaf = leaf]
        BY <1>0, <2>5 DEF RoutesTyped
      <4> QED
        BY <2>3, <4>1, LeafAndHold
    <3>5. Chosen(request[c], kept[c], gated[c], decision'[c])
      BY <2>3, <3>4 DEF Chosen
    <3>6. Picked(request[c], decision'[c], offered)
      BY <1>0, <2>5, <3>4 DEF Picked, Candidates, healthy, leaf, hold, RoutesTyped
    <3>7. decision'[c] = [server |-> decision'[c].server, leaf |-> decision'[c].leaf,
                          hold |-> decision'[c].hold]
      BY <3>4
    <3>8. Resolved(c)'
      BY <2>1, <2>3, <3>3, <3>5, <3>6, <3>7 DEF Resolved, Resolution
    <3> QED
      BY <3>1, <3>2, <3>8, OthersGoOn
  <2> QED
    BY <2>2, <2>4, <2>5
<1>6. ASSUME NEW c \in Resolvers, PriceAnswer(c)
      PROVE  RoutesInv'
  <2> DEFINE s == decision[c].server
  <2>1. PICK a \in Answers :
          /\ answer' = [answer EXCEPT ![c] = a]
          /\ settlement' = [settlement EXCEPT ![c] =
                 settle_payment(SettlementInputs(decision[c], request[c], entries[s], a))]
          /\ record' = [record EXCEPT ![c] = entries[s]]
    BY <1>6, Zenon DEF PriceAnswer
  <2>2. /\ stage[c] = "routed" /\ stage' = [stage EXCEPT ![c] = "priced"]
        /\ UNCHANGED <<world_vars, choice_vars, current>>
    BY <1>6 DEF PriceAnswer
  <2>3. /\ request[c] \in Requests /\ Read(request[c], kept[c])
        /\ Chosen(request[c], kept[c], gated[c], decision[c])
    BY <2>2 DEF RoutesInv, Resolved, Resolution
  <2>4. IsEntry(entries[s])
    <3>1. s \in Servers
      BY <2>3, ChosenWell
    <3> QED
      BY <1>0, <3>1 DEF RoutesTyped
  <2> HIDE DEF s
  <2>5. RoutesTyped'
    BY <1>0, <2>1, <2>2 DEF RoutesTyped
  <2>6. \A d \in Resolvers \ {c} : Same(d)
    BY <1>0, <2>1, <2>2 DEF RoutesTyped, Same
  <2>7. /\ stage'[c] = "priced" /\ record'[c] = entries[s] /\ answer'[c] = a
        /\ settlement'[c] = settle_payment(SettlementInputs(decision[c], request[c], entries[s], a))
    BY <1>0, <2>1, <2>2 DEF RoutesTyped
  <2>8. Paid(request[c], decision[c], record'[c], settlement'[c])
    BY <2>4, <2>7 DEF Paid
  <2>9. Resolved(c)'
    BY <2>2, <2>7, <2>8 DEF RoutesInv, Resolved, Resolution
  <2> QED
    BY <2>5, <2>6, <2>9, OthersGoOn
<1>12. ASSUME NEW c \in Resolvers, BillAnswer(c)
       PROVE  RoutesInv'
  <2> DEFINE s == decision[c].server
  <2>1. /\ stage[c] = "priced"
        /\ \/ stage' = [stage EXCEPT ![c] = "refused"] /\ current' = current
           \/ /\ stage' = [stage EXCEPT ![c] = "rating"]
              /\ current' = [current EXCEPT ![c] = entries[s]]
        /\ UNCHANGED <<world_vars, choice_vars, answer, settlement, record>>
    BY <1>12, Zenon DEF BillAnswer
  <2>2. /\ request[c] \in Requests /\ Read(request[c], kept[c]) /\ answer[c] \in Answers
        /\ Chosen(request[c], kept[c], gated[c], decision[c])
    BY <2>1 DEF RoutesInv, Resolved, Resolution
  <2>3. IsEntry(entries[s])
    <3>1. s \in Servers
      BY <2>2, ChosenWell
    <3> QED
      BY <1>0, <3>1 DEF RoutesTyped
  <2> HIDE DEF s
  <2>4. RoutesTyped'
    BY <1>0, <2>1 DEF RoutesTyped
  <2>5. \A d \in Resolvers \ {c} : Same(d)
    BY <1>0, <2>1 DEF RoutesTyped, Same
  <2>6. \/ stage'[c] = "refused"
        \/ stage'[c] = "rating" /\ IsEntry(current'[c])
    BY <1>0, <2>1, <2>3 DEF RoutesTyped
  <2>7. Resolved(c)'
    BY <2>1, <2>2, <2>6 DEF RoutesInv, Resolved, Resolution
  <2> QED
    BY <2>4, <2>5, <2>7, OthersGoOn
<1>13. ASSUME NEW c \in Resolvers, CountOutcome(c)
       PROVE  RoutesInv'
  <2> DEFINE s == decision[c].server
  <2>1. PICK outcome \in {"accepted", "sub_tier"} :
          entries' = [entries EXCEPT ![s] =
            record_outcome(current[c], outcome, answer[c].latency, answer[c].chars,
                           request[c].max_response_chars)]
    <3>1. (IF answer[c].tier_verdict = "sub_tier" THEN "sub_tier" ELSE "accepted")
            \in {"accepted", "sub_tier"}
      OBVIOUS
    <3> QED
      BY <1>13, <3>1, Zenon DEF CountOutcome
  <2>2. /\ stage[c] = "rating" /\ stage' = [stage EXCEPT ![c] = "settled"]
        /\ UNCHANGED <<offered, choice_vars, settled_vars>>
    BY <1>13 DEF CountOutcome
  <2>3. /\ request[c] \in Requests /\ answer[c] \in Answers /\ IsEntry(current[c])
    BY <2>2 DEF RoutesInv, Resolved, Resolution
  <2>4. IsEntry(record_outcome(current[c], outcome, answer[c].latency, answer[c].chars,
                               request[c].max_response_chars))
    <3>1. /\ answer[c].latency \in Int /\ answer[c].chars \in Int
          /\ request[c].max_response_chars \in Int
      BY <2>3, RoutingAssumption DEF RoutingAssumption
    <3> QED
      BY <2>1, <2>3, <3>1, EntriesStay DEF Outcomes
  <2> HIDE DEF s
  <2>5. DOMAIN entries' = Servers /\ \A t \in Servers : IsEntry(entries'[t])
    BY <1>0, <2>1, <2>4 DEF RoutesTyped
  <2>6. RoutesTyped'
    BY <1>0, <2>2, <2>5 DEF RoutesTyped
  <2>7. \A d \in Resolvers \ {c} : Same(d)
    BY <1>0, <2>2 DEF RoutesTyped, Same
  <2>8. stage'[c] = "settled"
    BY <1>0, <2>2 DEF RoutesTyped
  <2>9. Resolved(c)'
    BY <2>2, <2>8 DEF RoutesInv, Resolved, Resolution
  <2> QED
    BY <2>6, <2>7, <2>9, OthersGoOn
<1>7. ASSUME NEW c \in Resolvers, Again(c)
      PROVE  RoutesInv'
  <2>1. RoutesTyped'
    BY <1>0, <1>7 DEF RoutesTyped, Again
  <2>2. \A d \in Resolvers \ {c} : Same(d)
    BY <1>0, <1>7 DEF RoutesTyped, Again, Same
  <2>3. /\ stage'[c] = "idle" /\ todo'[c] = todo[c] /\ request'[c] = request[c]
        /\ listed'[c] = listed[c] /\ DOMAIN kept'[c] = {} /\ decision'[c] = Undecided
    BY <1>0, <1>7 DEF RoutesTyped, Again
  <2>4. request[c] \in Requests /\ todo[c] \subseteq Servers /\ listed[c] \subseteq Servers
    BY DEF RoutesInv, Resolved, Resolution
  <2>5. Resolved(c)'
    BY <2>3, <2>4 DEF Resolved, Resolution, Read, Undecided
  <2> QED
    BY <2>1, <2>2, <2>5, OthersGoOn
<1>8. ASSUME UNCHANGED <<stage, choice_vars, settled_vars>>, RoutesTyped'
      PROVE  RoutesInv'
  BY <1>8 DEF RoutesInv, Resolved
<1>9. CASE Change
  <2>1. UNCHANGED <<stage, choice_vars, settled_vars>>
    BY <1>9 DEF Change
  <2>2. RoutesTyped'
    <3>1. \/ entries' = entries /\ offered' \subseteq Leaves
          \/ \E s \in Servers, score \in Scores :
               offered' = offered /\ entries' = [entries EXCEPT ![s] = apply_csat(@, score)]
      BY <1>0, <1>9 DEF Change, RoutesTyped
    <3>2. ASSUME NEW s \in Servers, NEW score \in Scores
          PROVE  IsEntry(apply_csat(entries[s], score))
      <4>1. IsEntry(entries[s]) /\ score \in Int
        BY <1>0, RoutingAssumption DEF RoutesTyped, RoutingAssumption
      <4> QED
        BY <4>1, EntriesStay
    <3>3. /\ offered' \subseteq Leaves
          /\ DOMAIN entries' = Servers /\ \A s \in Servers : IsEntry(entries'[s])
      BY <1>0, <3>1, <3>2 DEF RoutesTyped
    <3> QED
      BY <1>0, <2>1, <3>3 DEF RoutesTyped
  <2> QED
    BY <1>8, <2>1, <2>2
<1>10. CASE UNCHANGED routing_vars
  <2>1. RoutesTyped'
    BY <1>0, <1>10 DEF RoutesTyped, routing_vars
  <2> QED
    BY <1>8, <1>10, <2>1 DEF routing_vars
<1> QED
  BY <1>1, <1>2, <1>3, <1>4, <1>5, <1>6, <1>7, <1>9, <1>10,
     <1>11, <1>12, <1>13 DEF RoutingNext

-----------------------------------------------------------------------------
(* What every state says follows from the invariant. *)
LEMMA RoutesAreGood == RoutesInv => ChosenIsBest /\ LeafIsNotDominated /\ HoldsAreConservative
<1> SUFFICES ASSUME RoutesInv
             PROVE  ChosenIsBest /\ LeafIsNotDominated /\ HoldsAreConservative
  OBVIOUS
<1>1. ASSUME NEW c \in Resolvers
      PROVE  /\ request[c] \in Requests /\ Read(request[c], kept[c])
             /\ stage[c] \in {"leaf", "routed"} \cup Afterwards =>
                  Chosen(request[c], kept[c], gated[c], decision[c])
             /\ stage[c] \in {"routed"} \cup Afterwards =>
                  Picked(request[c], decision[c], on_offer[c])
             /\ stage[c] \in Afterwards =>
                  Paid(request[c], decision[c], record[c], settlement[c])
  BY DEF RoutesInv, Resolved, Resolution
<1>2. ChosenIsBest
  <2> SUFFICES ASSUME NEW c \in Resolvers, Decided(c)
               PROVE  LET s == decision[c].server
                          prefs == request[c].prefs
                          w == Wishes(prefs)
                          Differ(t) == {i \in DOMAIN w : (s \in w[i]) # (t \in w[i])}
                      IN /\ s \in gated[c] /\ PassesHardFilter(s, kept[c][s], prefs)
                         /\ \A t \in gated[c] \ {s} :
                              IF Differ(t) # {} THEN s \in w[Min(Differ(t))]
                              ELSE RanksBefore(s, t, kept[c], prefs.server_rank_by)
    BY Zenon DEF ChosenIsBest
  <2>1. /\ request[c] \in Requests /\ Read(request[c], kept[c])
        /\ Chosen(request[c], kept[c], gated[c], decision[c])
    BY <1>1 DEF Decided
  <2>2. LET s == decision[c].server
            w == Wishes(request[c].prefs)
            Differ(t) == {i \in DOMAIN w : (s \in w[i]) # (t \in w[i])}
        IN  /\ s \in gated[c] /\ s \in Servers
            /\ \A t \in gated[c] \ {s} :
                 IF Differ(t) # {} THEN s \in w[Min(Differ(t))]
                 ELSE RanksBefore(s, t, kept[c], request[c].prefs.server_rank_by)
    BY <2>1, ChosenWell
  <2>3. PassesHardFilter(decision[c].server, kept[c][decision[c].server], request[c].prefs)
    BY <2>1, <2>2 DEF Read, Chosen
  <2> QED
    BY <2>2, <2>3, Zenon
<1>3. LeafIsNotDominated
  <2> SUFFICES ASSUME NEW c \in Resolvers, stage[c] = "routed"
               PROVE  LET l == decision[c].leaf
                      IN /\ l \in on_offer[c] /\ l.healthy
                         /\ \A m \in on_offer[c] :
                              m.healthy /\ PatternMatches(Meta[decision[c].server].binding, m) =>
                                ~ /\ m.rate <= l.rate /\ m.latency <= l.latency /\ m.capacity >= l.capacity
                                  /\ <<m.rate, m.latency, m.capacity>> # <<l.rate, l.latency, l.capacity>>
    BY Zenon DEF LeafIsNotDominated
  <2>1. Picked(request[c], decision[c], on_offer[c])
    BY <1>1
  <2> QED
    BY <2>1, PickedWell
<1>4. HoldsAreConservative
  <2> SUFFICES ASSUME NEW c \in Resolvers, stage[c] \in Afterwards
               PROVE  LET asked == tier_multiplier(request[c].tier)
                          used == tier_multiplier(decision[c].leaf.tier)
                          earned == record[c].reputation > 100 \/ record[c].avg_overage < 100
                          due == settlement[c]
                          hold == decision[c].hold
                      IN /\ due.pre_tax = due.server + due.compute + due.broker + due.commons
                         /\ due.pre_tax > hold => used > asked \/ earned
                         /\ 100 * due.pre_tax * asked <= 165 * hold * used
    BY Zenon DEF HoldsAreConservative, Priced, Afterwards
  <2>1. /\ request[c] \in Requests /\ Read(request[c], kept[c])
        /\ Chosen(request[c], kept[c], gated[c], decision[c])
        /\ Picked(request[c], decision[c], on_offer[c])
        /\ Paid(request[c], decision[c], record[c], settlement[c])
    BY <1>1
  <2>2. decision[c].server \in Servers
    BY <2>1, ChosenWell
  <2>3. decision[c].leaf \in Leaves
    BY <2>1, PickedWell DEF Picked
  <2>4. PICK a \in Answers :
          settlement[c] = settle_payment(SettlementInputs(decision[c], request[c], record[c], a))
    BY <2>1 DEF Paid
  <2>5. /\ decision[c].leaf.tier \in Tiers /\ decision[c].leaf.rate \in Nat
        /\ decision[c].hold = EstimateHold(Meta[decision[c].server].base_rate, request[c].tier,
                                            request[c].prompt_chars, request[c].max_response_chars)
        /\ IsEntry(record[c])
    BY <2>1, <2>3, RoutingAssumption DEF Picked, Paid, RoutingAssumption, IsLeaf
  <2> QED
    <3> DEFINE due == settle_payment(SettlementInputs(decision[c], request[c], record[c], a))
    <3>1. /\ due.pre_tax = due.server + due.compute + due.broker + due.commons
          /\ due.pre_tax > decision[c].hold =>
               \/ tier_multiplier(decision[c].leaf.tier) > tier_multiplier(request[c].tier)
               \/ record[c].reputation > 100 \/ record[c].avg_overage < 100
          /\ 100 * due.pre_tax * tier_multiplier(request[c].tier)
               <= 165 * decision[c].hold * tier_multiplier(decision[c].leaf.tier)
      BY <2>1, <2>2, <2>5, PriceWithinHold
    <3> HIDE DEF due
    <3>2. settlement[c] = due
      BY <2>4 DEF due
    <3> QED
      BY <3>1, <3>2
<1> QED
  BY <1>2, <1>3, <1>4

(* Router.resolve: whatever comes, goes and changes between its reads, the *)
(* server it commits to passed the hard filter with the record that was    *)
(* read, and is a lexicographic best of its pool: narrowing by one         *)
(* preference after the other never drops a candidate for a later one.     *)
THEOREM ServersAreChosenWell == RoutingSpec => []ChosenIsBest
<1>1. RoutingInit => RoutesInv
  BY RoutesStart
<1>2. RoutesInv /\ [RoutingNext]_routing_vars => RoutesInv'
  BY RoutesKept
<1>3. RoutesInv => ChosenIsBest
  BY RoutesAreGood
<1> QED
  BY <1>1, <1>2, <1>3, PTL DEF RoutingSpec

(* best_leaf: with any of the weights, scores normalised over the leaves   *)
(* on offer never put first a leaf that another one on offer dominates in  *)
(* price, latency and capacity.                                            *)
THEOREM LeavesAreChosenWell == RoutingSpec => []LeafIsNotDominated
<1>1. RoutingInit => RoutesInv
  BY RoutesStart
<1>2. RoutesInv /\ [RoutingNext]_routing_vars => RoutesInv'
  BY RoutesKept
<1>3. RoutesInv => LeafIsNotDominated
  BY RoutesAreGood
<1> QED
  BY <1>1, <1>2, <1>3, PTL DEF RoutingSpec

(* estimate_hold: for any rates, budgets and answers, and whatever happens *)
(* to the records meanwhile, a price exceeds its hold only for a bonus     *)
(* that was earned or a leaf of a dearer tier; for a leaf of the tier that *)
(* was asked for by 65 percent at most, for a dearer one by as much of the *)
(* hold scaled to its tier.  Its shares add up to it.                      *)
THEOREM HoldsStayConservative == RoutingSpec => []HoldsAreConservative
<1>1. RoutingInit => RoutesInv
  BY RoutesStart
<1>2. RoutesInv /\ [RoutingNext]_routing_vars => RoutesInv'
  BY RoutesKept
<1>3. RoutesInv => HoldsAreConservative
  BY RoutesAreGood
<1> QED
  BY <1>1, <1>2, <1>3, PTL DEF RoutingSpec
=============================================================================
