--------------------------- MODULE BroadcastProofs ---------------------------
(***************************************************************************)
(* What TLAPS proves of Broadcast, for any number of broadcasts, targets   *)
(* and failures.  The credits of a broadcast move in three ways only (a    *)
(* hold, its cancellation, its charge); every other step is quiet.  The    *)
(* inductive invariant adds to the books of the wallet that a target is    *)
(* charged only once its answer was looked at, hence once.                 *)
(*                                                                         *)
(* The last three theorems follow a hold through its broadcast: what is    *)
(* reserved when the message goes out, who closes it when nothing fails,   *)
(* and what is charged against it.                                         *)
(***************************************************************************)
EXTENDS Broadcast, WalletStateProofs, SequenceTheorems, TLAPS

Quiet == UNCHANGED <<wallet, charged>>

Reserves(c, t) ==
    /\ HoldOutcome(wallet, HoldId(c, t), HoldAmount[c][t]) = OK
    /\ wallet' = ApplyHold(wallet, HoldId(c, t), HoldAmount[c][t])
    /\ UNCHANGED <<charged, responded>>

Cancels(c, t) ==
    /\ RefundOutcome(wallet, HoldId(c, t)) = OK
    /\ wallet' = ApplyRefund(wallet, HoldId(c, t))
    /\ UNCHANGED <<charged, responded>>

Charges(c, t, price) ==
    /\ t \notin responded[c]
    /\ ReleaseOutcome(wallet, HoldId(c, t), price) = OK
    /\ wallet' = ApplyRelease(wallet, HoldId(c, t), price)
    /\ charged' = [charged EXCEPT ![<<c, t>>] = price]
    /\ responded' = [responded EXCEPT ![c] = @ \cup {t}]

MovesOf(c) ==
    \E t \in Targets :
      Reserves(c, t) \/ Cancels(c, t) \/ \E price \in Prices[t] : Charges(c, t, price)
Moves == \E c \in Casts : MovesOf(c)

ControlTyped ==
    /\ pc \in [Casts -> Working \cup Done]
    /\ todo \in [Casts -> Seq(Targets)]
    /\ owned \in [Casts -> SUBSET Targets]
    /\ held \in [Casts -> SUBSET Targets]
    /\ deliverable \in [Casts -> SUBSET Targets]
    /\ answers \in [Casts -> Seq(Targets)]
    /\ responded \in [Casts -> SUBSET Targets]
    /\ faults \in 0..MaxFaults

(* The answer being paid for or undone is still the first of the list. *)
AnswerAtHand == \A c \in Casts : pc[c] \in {"payout", "undo"} => answers[c] # <<>>

(* A target is charged for only after its answer was looked at. *)
ChargedAfterAnswer ==
    \A c \in Casts : \A t \in Targets : t \notin responded[c] => charged[<<c, t>>] = 0

IInv == TypeOK /\ AnswerAtHand /\ WalletSound /\ BalanceIsSpent /\ ChargedAfterAnswer

-----------------------------------------------------------------------------
LEMMA FirstTyped ==
  ASSUME NEW s \in Seq(Targets), s # <<>>
  PROVE  Head(s) \in Targets /\ Tail(s) \in Seq(Targets)
OBVIOUS

LEMMA ControlInit == Init => ControlTyped
<1>1. <<>> \in Seq(Targets)
  OBVIOUS
<1>2. 0 \in 0..MaxFaults
  BY BroadcastAssumption
<1> QED BY <1>1, <1>2 DEF Init, ControlTyped, Working

LEMMA FaultControl ==
  ASSUME ControlTyped, NEW c \in Casts, NEW next \in Working \cup Done, Fault(c, next)
  PROVE  pc' \in [Casts -> Working \cup Done] /\ faults' \in 0..MaxFaults
BY BroadcastAssumption DEF Fault, Goto, ControlTyped

LEMMA GotoControl ==
  ASSUME ControlTyped, NEW c \in Casts, NEW next \in Working \cup Done, Goto(c, next)
  PROVE  pc' \in [Casts -> Working \cup Done]
BY DEF Goto, ControlTyped

LEMMA RefundControl ==
  ASSUME ControlTyped, NEW id, RefundQuietly(id)
  PROVE  faults' \in 0..MaxFaults
BY BroadcastAssumption DEF RefundQuietly, ControlTyped

(* The loops of a broadcast stay within its targets. *)
LEMMA HandleControl ==
  ASSUME ControlTyped, AnswerAtHand, NEW c \in Casts, Handle(c) \/ Stop(c)
  PROVE  ControlTyped'
<1> USE DEF Working, Done
<1>1. CASE Lookup(c)
  <2>1. TargetsOf[c] \in Seq(Targets)
    BY BroadcastAssumption
  <2>2. pc' \in [Casts -> Working \cup Done] /\ faults' \in 0..MaxFaults
    BY <1>1, FaultControl, GotoControl DEF Lookup, ControlTyped
  <2>3. todo' \in [Casts -> Seq(Targets)] /\ owned' \in [Casts -> SUBSET Targets]
    BY <1>1, <2>1 DEF Lookup, Visit, ControlTyped
  <2> QED BY <1>1, <2>2, <2>3 DEF Lookup, ControlTyped, reply_vars
<1>2. CASE FreeTarget(c)
  <2>1. Head(todo[c]) \in Targets /\ Tail(todo[c]) \in Seq(Targets)
    BY <1>2, FirstTyped DEF FreeTarget, ControlTyped
  <2> QED BY <1>2, <2>1 DEF FreeTarget, Deliver, NextTarget, ControlTyped, reply_vars
<1>3. CASE Hold(c)
  <2>1. Head(todo[c]) \in Targets /\ Tail(todo[c]) \in Seq(Targets)
    BY <1>3, FirstTyped DEF Hold, ControlTyped
  <2>2. pc' \in [Casts -> Working \cup Done] /\ faults' \in 0..MaxFaults
    BY <1>3, FaultControl, GotoControl DEF Hold, ControlTyped
  <2>3. todo' \in [Casts -> Seq(Targets)]
    BY <1>3, <2>1 DEF Hold, NextTarget, ControlTyped
  <2>4. held' \in [Casts -> SUBSET Targets]
    BY <1>3, <2>1 DEF Hold, ControlTyped
  <2>5. deliverable' \in [Casts -> SUBSET Targets]
    BY <1>3, <2>1 DEF Hold, Deliver, ControlTyped
  <2> QED BY <1>3, <2>2, <2>3, <2>4, <2>5 DEF Hold, ControlTyped, reply_vars
<1>4. CASE Dispatch(c)
  <2>1. TargetsOf[c] \in Seq(Targets)
    BY BroadcastAssumption
  <2>2. \A n \in 0..Limit(c) : \A replies \in [1..n -> Targets] : replies \in Seq(Targets)
    <3>1. Limit(c) \in Nat
      <4>1. IsFiniteSet(deliverable[c])
        BY FS_Subset, BroadcastAssumption DEF ControlTyped
      <4> QED BY <4>1, FS_CardinalityType, BroadcastAssumption DEF Limit
    <3> QED BY <3>1
  <2>3. answers' \in [Casts -> Seq(Targets)]
    BY <1>4, <2>2 DEF Dispatch, ControlTyped
  <2>4. todo' \in [Casts -> Seq(Targets)] /\ pc' \in [Casts -> Working \cup Done]
    BY <1>4, <2>1, GotoControl DEF Dispatch, Visit, ControlTyped
  <2> QED BY <1>4, <2>3, <2>4 DEF Dispatch, ControlTyped
<1>5. CASE SkipAnswer(c)
  <2>1. Answer(c) \in Targets /\ Tail(answers[c]) \in Seq(Targets)
    BY <1>5, FirstTyped DEF SkipAnswer, Settling, Answer, ControlTyped
  <2> QED BY <1>5, <2>1 DEF SkipAnswer, NextAnswer, ControlTyped, loop_vars
<1>6. CASE Settle(c)
  <2>1. Answer(c) \in Targets
    BY <1>6, FirstTyped DEF Settle, Settling, Answer, ControlTyped
  <2>2. pc' \in [Casts -> Working \cup Done] /\ faults' \in 0..MaxFaults
    BY <1>6, FaultControl, GotoControl DEF Settle, Succeed, ControlTyped
  <2> QED BY <1>6, <2>1, <2>2 DEF Settle, ControlTyped, loop_vars
<1>7. CASE PayOut(c)
  <2>1. Tail(answers[c]) \in Seq(Targets)
    BY <1>7, FirstTyped DEF PayOut, ControlTyped, AnswerAtHand
  <2>2. pc' \in [Casts -> Working \cup Done] /\ faults' \in 0..MaxFaults
    BY <1>7, FaultControl, GotoControl DEF PayOut, ControlTyped
  <2> QED BY <1>7, <2>1, <2>2 DEF PayOut, NextAnswer, ControlTyped, loop_vars
<1>8. CASE Undo(c)
  <2>1. Tail(answers[c]) \in Seq(Targets)
    BY <1>8, FirstTyped DEF Undo, ControlTyped, AnswerAtHand
  <2>2. faults' \in 0..MaxFaults /\ pc' \in [Casts -> Working \cup Done]
    BY <1>8, RefundControl, GotoControl DEF Undo
  <2> QED BY <1>8, <2>1, <2>2 DEF Undo, NextAnswer, ControlTyped, loop_vars
<1>9. CASE EndOfAnswers(c)
  <2>1. TargetsOf[c] \in Seq(Targets)
    BY BroadcastAssumption
  <2> QED BY <1>9, <2>1, GotoControl DEF EndOfAnswers, Visit, ControlTyped, reply_vars
<1>10. CASE Refund(c)
  <2>1. Tail(todo[c]) \in Seq(Targets)
    BY <1>10, FirstTyped DEF Refund, ControlTyped
  <2>2. faults' \in 0..MaxFaults
    BY <1>10, RefundControl DEF Refund, ControlTyped
  <2> QED BY <1>10, <2>1, <2>2 DEF Refund, NextTarget, ControlTyped, reply_vars
<1>11. CASE Leave(c)
  BY <1>11, GotoControl DEF Leave, ControlTyped, loop_vars, reply_vars
<1>12. CASE Stop(c)
  BY <1>12, FaultControl DEF Stop, ControlTyped, loop_vars, reply_vars
<1> QED BY <1>1, <1>2, <1>3, <1>4, <1>5, <1>6, <1>7, <1>8, <1>9, <1>10, <1>11, <1>12 DEF Handle

(* Nothing drops an answer that is being settled. *)
LEMMA HandleAnswer ==
  ASSUME ControlTyped, AnswerAtHand, NEW c \in Casts, Handle(c) \/ Stop(c)
  PROVE  AnswerAtHand'
<1>1. \A d \in Casts \ {c} : pc'[d] = pc[d] /\ answers'[d] = answers[d]
  <2>1. \A d \in Casts \ {c} : pc'[d] = pc[d]
    BY DEF Handle, Lookup, FreeTarget, Hold, Dispatch, SkipAnswer, Settle, PayOut, Undo,
           EndOfAnswers, Refund, Leave, Stop, Succeed, Fault, Goto, ControlTyped
  <2>2. \A d \in Casts \ {c} : answers'[d] = answers[d]
    BY DEF Handle, Lookup, FreeTarget, Hold, Dispatch, SkipAnswer, Settle, PayOut, Undo,
           EndOfAnswers, Refund, Leave, Stop, NextAnswer, reply_vars, ControlTyped
  <2> QED BY <2>1, <2>2
<1>2. pc'[c] \in {"payout", "undo"} => answers'[c] # <<>>
  <2>1. CASE Settle(c)
    BY <2>1 DEF Settle, Settling
  <2>2. CASE PayOut(c)
    BY <2>2 DEF PayOut, AnswerAtHand, Goto, ControlTyped, Fault
  <2>3. CASE ~Settle(c) /\ ~PayOut(c)
    BY <2>3 DEF Handle, Lookup, FreeTarget, Hold, Dispatch, SkipAnswer, Settling, Undo,
           EndOfAnswers, Refund, Leave, Stop, Fault, Goto, ControlTyped
  <2> QED BY <2>1, <2>2, <2>3
<1> QED BY <1>1, <1>2 DEF AnswerAtHand

-----------------------------------------------------------------------------
(* Quiet steps only ever look at more answers. *)
Listens == \A c \in Casts : responded[c] \subseteq responded'[c]

LEMMA RefundMoves ==
  ASSUME NEW c \in Casts, NEW t \in Targets, RefundQuietly(HoldId(c, t)),
         UNCHANGED <<charged, responded>>
  PROVE  MovesOf(c) \/ (Quiet /\ Listens)
BY DEF RefundQuietly, MovesOf, Cancels, Quiet, Listens

(* Every step moves credits in one of the three ways or is quiet. *)
LEMMA HandleMoves ==
  ASSUME ControlTyped, AnswerAtHand, NEW c \in Casts, Handle(c) \/ Stop(c)
  PROVE  MovesOf(c) \/ (Quiet /\ Listens)
<1>1. CASE Lookup(c) \/ FreeTarget(c) \/ Dispatch(c) \/ PayOut(c) \/ EndOfAnswers(c)
           \/ Leave(c) \/ Stop(c)
  BY <1>1 DEF Lookup, FreeTarget, Dispatch, PayOut, EndOfAnswers, Leave, Stop, Quiet, Listens,
              reply_vars
<1>2. CASE SkipAnswer(c)
  BY <1>2 DEF SkipAnswer, Quiet, Listens, ControlTyped
<1>3. CASE Hold(c)
  <2> DEFINE t == Head(todo[c])
  <2>1. t \in Targets
    BY <1>3, FirstTyped DEF Hold, ControlTyped
  <2>2. Reserves(c, t) \/ (Quiet /\ Listens)
    BY <1>3 DEF Hold, Reserves, Quiet, Listens, reply_vars
  <2> QED BY <2>1, <2>2 DEF MovesOf
<1>4. CASE Settle(c)
  <2> DEFINE t == Answer(c)
  <2>1. t \in Targets
    BY <1>4, FirstTyped DEF Settle, Settling, Answer, ControlTyped
  <2>2. (\E price \in Prices[t] : Charges(c, t, price)) \/ (Quiet /\ Listens)
    BY <1>4 DEF Settle, Charges, Quiet, Listens, ControlTyped
  <2> QED BY <2>1, <2>2 DEF MovesOf
<1>5. CASE Undo(c)
  <2>1. Answer(c) \in Targets
    BY <1>5, FirstTyped DEF Undo, Answer, ControlTyped, AnswerAtHand
  <2> QED BY <1>5, <2>1, RefundMoves DEF Undo
<1>6. CASE Refund(c)
  <2> DEFINE t == Head(todo[c])
  <2>1. t \in Targets
    BY <1>6, FirstTyped DEF Refund, ControlTyped
  <2>2. CASE RefundQuietly(HoldId(c, t))
    BY <1>6, <2>1, <2>2, RefundMoves DEF Refund, reply_vars
  <2>3. CASE UNCHANGED wallet
    BY <1>6, <2>3 DEF Refund, Quiet, Listens, reply_vars
  <2> QED BY <1>6, <2>2, <2>3 DEF Refund
<1> QED BY <1>1, <1>2, <1>3, <1>4, <1>5, <1>6 DEF Handle

-----------------------------------------------------------------------------
LEMMA Ids ==
  /\ IsFiniteSet(HoldIds) /\ IsFiniteSet(Casts \X Targets)
  /\ \A c \in Casts : \A t \in Targets :
       HoldId(c, t) \in HoldIds /\ HoldAmount[c][t] \in Nat /\ Prices[t] \subseteq Nat
<1>1. IsFiniteSet(HoldIds) /\ IsFiniteSet(Casts \X Targets)
  BY FS_Product, BroadcastAssumption DEF HoldIds
<1> QED BY <1>1, BroadcastAssumption DEF HoldId, HoldIds

Books ==
    /\ IsWallet(wallet, HoldIds)
    /\ charged \in [Casts \X Targets -> Nat]
    /\ WalletSound
    /\ BalanceIsSpent
    /\ ChargedAfterAnswer
    /\ responded \in [Casts -> SUBSET Targets]

(* A move leaves the books in order. *)
LEMMA MovesKeepBooks ==
  ASSUME Books, Moves
  PROVE  /\ IsWallet(wallet, HoldIds)'
         /\ charged' \in [Casts \X Targets -> Nat]
         /\ WalletSound'
         /\ BalanceIsSpent'
         /\ ChargedAfterAnswer'
<1>1. Sound(wallet) /\ IsWallet(wallet, HoldIds)
  BY DEF Books, WalletSound
<1>2. ASSUME NEW c \in Casts, NEW t \in Targets, Reserves(c, t)
      PROVE  /\ IsWallet(wallet, HoldIds)' /\ WalletSound'
             /\ wallet'.balance = wallet.balance /\ UNCHANGED <<charged, responded>>
  <2>1. IsWallet(wallet', HoldIds) /\ Sound(wallet')
    BY <1>1, <1>2, Ids, HoldSound DEF Reserves
  <2>2. wallet'.balance = wallet.balance
    BY <1>1, <1>2 DEF Reserves, ApplyHold, IsWallet
  <2> QED BY <1>2, <2>1, <2>2 DEF Reserves, WalletSound, IsWallet, Sound
<1>3. ASSUME NEW c \in Casts, NEW t \in Targets, Cancels(c, t)
      PROVE  /\ IsWallet(wallet, HoldIds)' /\ WalletSound'
             /\ wallet'.balance = wallet.balance /\ UNCHANGED <<charged, responded>>
  <2>1. IsWallet(wallet', HoldIds) /\ Sound(wallet')
    BY <1>1, <1>3, Ids, RefundSound DEF Cancels
  <2>2. wallet'.balance = wallet.balance
    BY <1>3 DEF Cancels, ApplyRefund
  <2> QED BY <1>3, <2>1, <2>2 DEF Cancels, WalletSound, IsWallet, Sound
<1>4. ASSUME UNCHANGED <<charged, responded>>, wallet'.balance = wallet.balance
      PROVE  charged' \in [Casts \X Targets -> Nat] /\ BalanceIsSpent' /\ ChargedAfterAnswer'
  BY <1>4 DEF Books, BalanceIsSpent, ChargedAfterAnswer
<1>5. ASSUME NEW c \in Casts, NEW t \in Targets, NEW price \in Prices[t], Charges(c, t, price)
      PROVE  /\ IsWallet(wallet, HoldIds)' /\ WalletSound'
             /\ charged' \in [Casts \X Targets -> Nat] /\ BalanceIsSpent' /\ ChargedAfterAnswer'
  <2>1. price \in Nat
    BY Ids
  <2>2. IsWallet(wallet', HoldIds) /\ Sound(wallet')
    BY <1>1, <1>5, <2>1, Ids, ReleaseSound DEF Charges
  <2>3. wallet'.balance = wallet.balance - price
    BY <1>5 DEF Charges, ApplyRelease
  <2>4. /\ charged' \in [Casts \X Targets -> Nat]
        /\ charged'[<<c, t>>] = price
        /\ \A ct \in Casts \X Targets : ct # <<c, t>> => charged'[ct] = charged[ct]
    BY <1>5, <2>1 DEF Charges, Books
  <2>5. charged[<<c, t>>] = 0
    BY <1>5 DEF Charges, Books, ChargedAfterAnswer
  <2>6. /\ Total(charged) \in Nat
        /\ Total(charged') \in Nat
        /\ Total(charged') = Total(charged) - charged[<<c, t>>] + charged'[<<c, t>>]
    <3> DEFINE x == <<c, t>>
    <3>1. x \in Casts \X Targets
      OBVIOUS
    <3>2. charged \in [Casts \X Targets -> Nat] /\ charged' \in [Casts \X Targets -> Nat]
      BY <2>4 DEF Books
    <3> HIDE DEF x
    <3> QED BY <2>4, <3>1, <3>2, Ids, TotalChange DEF x
  <2>7. BalanceIsSpent'
    <3>1. wallet.balance \in Int
      BY <1>1 DEF IsWallet
    <3> QED BY <2>1, <2>3, <2>4, <2>5, <2>6, <3>1 DEF BalanceIsSpent, Books
  <2>8. ChargedAfterAnswer'
    BY <1>5, <2>4 DEF ChargedAfterAnswer, Books, Charges
  <2> QED BY <2>2, <2>4, <2>7, <2>8 DEF WalletSound, IsWallet, Sound
<1> QED BY <1>2, <1>3, <1>4, <1>5 DEF Moves, MovesOf

LEMMA QuietKeepsBooks ==
  ASSUME Books, Quiet, Listens, responded' \in [Casts -> SUBSET Targets]
  PROVE  /\ IsWallet(wallet, HoldIds)'
         /\ charged' \in [Casts \X Targets -> Nat]
         /\ WalletSound'
         /\ BalanceIsSpent'
         /\ ChargedAfterAnswer'
<1>1. wallet' = wallet /\ charged' = charged
  BY DEF Quiet
<1>2. ChargedAfterAnswer'
  BY <1>1 DEF Books, ChargedAfterAnswer, Listens
<1> QED BY <1>1, <1>2 DEF Books, WalletSound, BalanceIsSpent, IsWallet, Sound

-----------------------------------------------------------------------------
LEMMA TypeParts == TypeOK <=> /\ ControlTyped
                              /\ IsWallet(wallet, HoldIds)
                              /\ charged \in [Casts \X Targets -> Nat]
BY DEF TypeOK, ControlTyped

LEMMA InvBooks == IInv => Books
BY TypeParts DEF IInv, Books, ControlTyped

LEMMA InitIInv == Init => IInv
<1> SUFFICES ASSUME Init PROVE IInv
  OBVIOUS
<1>1. ControlTyped
  BY ControlInit
<1>2. IsWallet(wallet, HoldIds) /\ WalletSound
  BY FreshWalletSound DEF Init, WalletSound, IsWallet
<1>3. charged \in [Casts \X Targets -> Nat] /\ \A ct \in Casts \X Targets : charged[ct] = 0
  BY DEF Init
<1>4. Total(charged) = 0
  <2>1. Units(charged) = {}
    <3>1. \A ct \in Casts \X Targets : {ct} \X (1..charged[ct]) = {}
      BY <1>3
    <3>2. DOMAIN charged = Casts \X Targets
      BY <1>3
    <3> QED BY <3>1, <3>2 DEF Units
  <2> QED BY <2>1, FS_EmptySet DEF Total
<1>5. BalanceIsSpent
  BY <1>4, FundAssumption DEF Init, BalanceIsSpent, FreshWallet
<1>6. AnswerAtHand /\ ChargedAfterAnswer
  BY <1>3 DEF Init, AnswerAtHand, ChargedAfterAnswer
<1> QED BY <1>1, <1>2, <1>3, <1>5, <1>6, TypeParts DEF IInv

LEMMA NextIInv == IInv /\ [Next]_vars => IInv'
<1> SUFFICES ASSUME IInv, [Next]_vars PROVE IInv'
  OBVIOUS
<1>1. ControlTyped /\ AnswerAtHand /\ Books
  BY InvBooks, TypeParts DEF IInv
<1>2. ASSUME ControlTyped', AnswerAtHand', Moves \/ (Quiet /\ Listens)
      PROVE  IInv'
  <2>1. /\ IsWallet(wallet, HoldIds)'
        /\ charged' \in [Casts \X Targets -> Nat]
        /\ WalletSound' /\ BalanceIsSpent' /\ ChargedAfterAnswer'
    BY <1>1, <1>2, MovesKeepBooks, QuietKeepsBooks DEF ControlTyped
  <2>2. TypeOK'
    BY <1>2, <2>1 DEF TypeOK, ControlTyped
  <2> QED BY <1>2, <2>1, <2>2 DEF IInv
<1>3. CASE Next
  BY <1>1, <1>2, <1>3, HandleControl, HandleAnswer, HandleMoves DEF Next, Moves
<1>4. CASE UNCHANGED vars
  <2>1. ControlTyped' /\ AnswerAtHand'
    BY <1>1, <1>4 DEF vars, ControlTyped, AnswerAtHand
  <2>2. Quiet /\ Listens
    BY <1>4 DEF vars, Quiet, Listens
  <2> QED BY <1>2, <2>1, <2>2
<1> QED BY <1>3, <1>4

LEMMA IInvHolds == Spec => []IInv
BY InitIInv, NextIInv, PTL DEF Spec

(* The variables of any number of concurrent broadcasts keep their types.  *)
THEOREM BroadcastTypeCorrect == Spec => []TypeOK
<1>1. IInv => TypeOK
  BY DEF IInv
<1> QED BY <1>1, IInvHolds, PTL

(* The holds of all broadcasts together never exceed what the wallet has.  *)
THEOREM BroadcastKeepsWalletSound == Spec => []WalletSound
<1>1. IInv => WalletSound
  BY DEF IInv
<1> QED BY <1>1, IInvHolds, PTL

(* A broadcast costs its caller exactly what was debited for answers,      *)
(* whatever failed, was dropped, refunded or answered twice.               *)
THEOREM BroadcastSpendsOnlyCharges == Spec => []BalanceIsSpent
<1>1. IInv => BalanceIsSpent
  BY DEF IInv
<1> QED BY <1>1, IInvHolds, PTL

-----------------------------------------------------------------------------
LEMMA SameHelpers ==
  /\ \A f, x : ThisEscrow!Without(f, x) = Without(f, x)
  /\ \A f, x, v : ThisEscrow!With(f, x, v) = With(f, x, v)
  /\ ThisEscrow!NoCredits = NoCredits
BY DEF ThisEscrow!Without, ThisEscrow!With, ThisEscrow!NoCredits, Without, With, NoCredits

LEMMA EscrowOpen ==
  ASSUME NEW c \in Casts, NEW t \in Targets, HoldId(c, t) \notin DOMAIN wallet.holds,
         wallet'.holds = With(wallet.holds, HoldId(c, t), HoldAmount[c][t]), UNCHANGED charged
  PROVE  ThisEscrow!Next
<1>1. ThisEscrow!Open(<<c, t>>)
  BY SameHelpers DEF ThisEscrow!Open
<1> QED BY <1>1 DEF ThisEscrow!Next

LEMMA EscrowCancel ==
  ASSUME NEW id \in HoldIds, id \in DOMAIN wallet.holds,
         wallet'.holds = Without(wallet.holds, id), UNCHANGED charged
  PROVE  ThisEscrow!Next
BY SameHelpers DEF ThisEscrow!Next, ThisEscrow!Cancel

LEMMA EscrowCharge ==
  ASSUME NEW c \in Casts, NEW t \in Targets, HoldId(c, t) \in DOMAIN wallet.holds,
         charged[<<c, t>>] = 0, NEW price \in 0..wallet.holds[HoldId(c, t)],
         charged' = [charged EXCEPT ![<<c, t>>] = price],
         wallet'.holds = Without(wallet.holds, HoldId(c, t))
  PROVE  ThisEscrow!Next
<1>1. ThisEscrow!Charge(<<c, t>>)
  BY SameHelpers DEF ThisEscrow!Charge
<1> QED BY <1>1 DEF ThisEscrow!Next

LEMMA MovesImplement ==
  ASSUME Books, Moves
  PROVE  [ThisEscrow!Next]_(ThisEscrow!vars)
<1>1. IsWallet(wallet, HoldIds)
  BY DEF Books
<1>2. ASSUME NEW c \in Casts, NEW t \in Targets, Reserves(c, t)
      PROVE  [ThisEscrow!Next]_(ThisEscrow!vars)
  <2> DEFINE id == HoldId(c, t)
  <2>1. CASE id \in DOMAIN wallet.holds
    <3>1. wallet' = wallet /\ UNCHANGED charged
      BY <1>2, <2>1 DEF Reserves, ApplyHold, IsHeld
    <3> QED BY <3>1 DEF ThisEscrow!vars
  <2>2. CASE id \notin DOMAIN wallet.holds
    <3>1. wallet'.holds = With(wallet.holds, id, HoldAmount[c][t]) /\ UNCHANGED charged
      BY <1>1, <1>2, <2>2 DEF Reserves, ApplyHold, IsHeld, IsWallet
    <3> QED BY <2>2, <3>1, EscrowOpen
  <2> QED BY <2>1, <2>2
<1>3. ASSUME NEW c \in Casts, NEW t \in Targets, Cancels(c, t)
      PROVE  [ThisEscrow!Next]_(ThisEscrow!vars)
  <2> DEFINE id == HoldId(c, t)
  <2>1. id \in DOMAIN wallet.holds
    BY <1>3 DEF Cancels, RefundOutcome, IsHeld, OK, UnknownHoldError
  <2>2. wallet'.holds = Without(wallet.holds, id) /\ UNCHANGED charged
    BY <1>3 DEF Cancels, ApplyRefund
  <2> QED BY <2>1, <2>2, Ids, EscrowCancel
<1>4. ASSUME NEW c \in Casts, NEW t \in Targets, NEW price \in Prices[t], Charges(c, t, price)
      PROVE  [ThisEscrow!Next]_(ThisEscrow!vars)
  <2> DEFINE id == HoldId(c, t)
  <2>1. id \in DOMAIN wallet.holds /\ ~(price > wallet.holds[id])
    BY <1>4 DEF Charges, ReleaseOutcome, IsHeld, OK, UnknownHoldError, InsufficientFundsError
  <2>2. price \in 0..wallet.holds[id]
    <3>1. price \in Nat /\ wallet.holds[id] \in Nat
      BY <1>1, <2>1, Ids DEF IsWallet
    <3> QED BY <2>1, <3>1
  <2>3. charged[<<c, t>>] = 0
    BY <1>4 DEF Charges, Books, ChargedAfterAnswer
  <2>4. wallet'.holds = Without(wallet.holds, id)
        /\ charged' = [charged EXCEPT ![<<c, t>>] = price]
    BY <1>4 DEF Charges, ApplyRelease
  <2> QED BY <2>1, <2>2, <2>3, <2>4, EscrowCharge
<1> QED BY <1>2, <1>3, <1>4 DEF Moves, MovesOf

LEMMA NextImplements == IInv /\ [Next]_vars => [ThisEscrow!Next]_(ThisEscrow!vars)
<1> SUFFICES ASSUME IInv, [Next]_vars PROVE [ThisEscrow!Next]_(ThisEscrow!vars)
  OBVIOUS
<1>1. ControlTyped /\ AnswerAtHand /\ Books
  BY InvBooks, TypeParts DEF IInv
<1>2. CASE Next
  <2>1. CASE Moves
    BY <1>1, <2>1, MovesImplement
  <2>2. CASE Quiet
    BY <2>2 DEF Quiet, ThisEscrow!vars
  <2> QED BY <1>1, <1>2, <2>1, <2>2, HandleMoves DEF Next, Moves
<1>3. CASE UNCHANGED vars
  BY <1>3 DEF vars, ThisEscrow!vars
<1> QED BY <1>2, <1>3

LEMMA InitImplements == Init => ThisEscrow!Init
BY SameHelpers DEF Init, FreshWallet, ThisEscrow!Init

(* Each answer of a broadcast is settled as the escrow allows: at most one *)
(* charge per broadcast and target, within the hold, which it closes; and  *)
(* every other hold is cancelled at most once.                             *)
THEOREM BroadcastImplementsEscrow == Spec => ImplementsEscrow
BY InitImplements, NextImplements, IInvHolds, PTL DEF Spec, ThisEscrow!Spec, ImplementsEscrow

-----------------------------------------------------------------------------
(* Behaviours in which nothing fails: what a broadcast's step does then to *)
(* the broadcast and to the holds.                                         *)
Elements(s) == {s[i] : i \in DOMAIN s}

LEMMA TailElements ==
  ASSUME NEW s \in Seq(Targets), s # <<>>
  PROVE  Elements(s) = {Head(s)} \cup Elements(Tail(s))
<1>1. Len(s) \in Nat \ {0} /\ DOMAIN s = 1..Len(s) /\ Head(s) = s[1]
  OBVIOUS
<1>2. DOMAIN Tail(s) = 1..(Len(s) - 1) /\ \A i \in 1..(Len(s) - 1) : Tail(s)[i] = s[i + 1]
  BY <1>1
<1>3. ASSUME NEW i \in DOMAIN s PROVE i = 1 \/ (i - 1 \in DOMAIN Tail(s) /\ Tail(s)[i - 1] = s[i])
  BY <1>1, <1>2
<1>4. ASSUME NEW i \in DOMAIN Tail(s) PROVE i + 1 \in DOMAIN s /\ s[i + 1] = Tail(s)[i]
  BY <1>1, <1>2
<1>5. Elements(s) \subseteq {Head(s)} \cup Elements(Tail(s))
  BY <1>1, <1>3 DEF Elements
<1>6. {Head(s)} \cup Elements(Tail(s)) \subseteq Elements(s)
  BY <1>1, <1>4 DEF Elements
<1> QED BY <1>5, <1>6

Keeps(c) ==
    /\ held'[c] = held[c] /\ deliverable'[c] = deliverable[c] /\ responded'[c] = responded[c]
Closed(c, t) == Cancels(c, t) \/ (Quiet /\ ~IsOpen(HoldId(c, t)))
Visits(c) == todo[c] # <<>> /\ todo'[c] = Tail(todo[c])
NotPaid(c, t, price) == ReleaseOutcome(wallet, HoldId(c, t), price) # OK

HoldStep(c) ==
    /\ pc[c] = "hold"
    /\ \/ /\ pc'[c] = "hold" /\ Visits(c) /\ Quiet
          /\ held'[c] = held[c] /\ responded'[c] = responded[c]
          /\ deliverable[c] \subseteq deliverable'[c]
       \/ /\ pc'[c] = "hold" /\ Visits(c) /\ Reserves(c, Head(todo[c]))
          /\ held'[c] = held[c] \cup {Head(todo[c])}
          /\ deliverable'[c] = deliverable[c] \cup {Head(todo[c])}
       \/ /\ pc'[c] = "raised" /\ todo[c] # <<>> /\ Quiet /\ Keeps(c)
          /\ HoldOutcome(wallet, HoldId(c, Head(todo[c])), HoldAmount[c][Head(todo[c])]) = ValueError
       \/ pc'[c] = "returned" /\ deliverable[c] = {} /\ Quiet /\ Keeps(c)
       \/ pc'[c] = "settle" /\ Quiet /\ Keeps(c)
       \/ pc'[c] = "refund_raise" /\ todo'[c] = TargetsOf[c] /\ Quiet /\ Keeps(c)

AnswerStep(c) ==
    \/ /\ pc[c] = "settle" /\ pc'[c] = "settle" /\ Quiet
       /\ Answer(c) \in responded[c] \/ Answer(c) \notin held[c]
       /\ responded'[c] = responded[c] \cup {Answer(c)} /\ held'[c] = held[c]
    \/ /\ pc[c] = "settle" /\ pc'[c] = "payout" /\ Answer(c) \in held[c] \ responded[c]
       /\ \E price \in Prices[Answer(c)] : Charges(c, Answer(c), price)
       /\ held'[c] = held[c]
    \/ /\ pc[c] = "settle" /\ pc'[c] = "undo" /\ Answer(c) \in held[c] \ responded[c] /\ Quiet
       /\ \E price \in Prices[Answer(c)] : NotPaid(c, Answer(c), price)
       /\ responded'[c] = responded[c] \cup {Answer(c)} /\ held'[c] = held[c]
       /\ Answer(c)' = Answer(c)
    \/ pc[c] = "payout" /\ pc'[c] = "settle" /\ Quiet /\ Keeps(c)
    \/ pc[c] = "undo" /\ pc'[c] = "settle" /\ Closed(c, Answer(c)) /\ Keeps(c)
    \/ /\ pc[c] = "settle" /\ pc'[c] = "refund_silent" /\ todo'[c] = TargetsOf[c]
       /\ Quiet /\ Keeps(c)

RefundStep(c) ==
    /\ pc[c] \in {"refund_silent", "refund_raise"} /\ Keeps(c)
    /\ \/ /\ pc'[c] = pc[c] /\ Visits(c)
          /\ \/ Head(todo[c]) \in Due(c) /\ Closed(c, Head(todo[c]))
             \/ Head(todo[c]) \notin Due(c) /\ Quiet
       \/ /\ todo[c] = <<>> /\ Quiet
          /\ pc'[c] = IF pc[c] = "refund_silent" THEN "returned" ELSE "raised"

CalmStep(c) ==
    \/ pc[c] = "lookup" /\ pc'[c] = "hold" /\ todo'[c] = TargetsOf[c] /\ Quiet /\ Keeps(c)
    \/ HoldStep(c) \/ AnswerStep(c) \/ RefundStep(c)

LEMMA CalmSteps ==
  ASSUME ControlTyped, AnswerAtHand, NEW c \in Casts, Handle(c), faults' = 0
  PROVE  faults = 0 /\ CalmStep(c)
<1> USE DEF Quiet, Keeps, reply_vars, loop_vars
<1>1. faults \in Nat
  BY BroadcastAssumption DEF ControlTyped
<1>2. (\A l : ~Fault(c, l)) /\ ~(faults < MaxFaults /\ faults' = faults + 1)
  BY <1>1 DEF Fault
<1>3. \A l : Goto(c, l) => pc'[c] = l
  BY DEF Goto, ControlTyped
<1>4. /\ Visit(c) => todo'[c] = TargetsOf[c]
      /\ NextTarget(c) => todo'[c] = Tail(todo[c])
  BY DEF Visit, NextTarget, ControlTyped
<1>5. \A t : Deliver(c, t) => deliverable'[c] = deliverable[c] \cup {t}
  BY DEF Deliver, ControlTyped
<1>6. ASSUME NEW t, RefundQuietly(HoldId(c, t)), UNCHANGED <<charged, responded>>
      PROVE  Closed(c, t) /\ UNCHANGED faults
  BY <1>2, <1>6 DEF RefundQuietly, Closed, Cancels, IsOpen, RefundOutcome, OK, UnknownHoldError
<1>7. CASE Lookup(c)
  BY <1>2, <1>3, <1>4, <1>7 DEF Lookup, CalmStep
<1>8. CASE FreeTarget(c)
  BY <1>4, <1>5, <1>8 DEF FreeTarget, Visits, HoldStep, CalmStep
<1>9. CASE Hold(c)
  <2> DEFINE t == Head(todo[c])
  <2>1. \A hold : held' = [held EXCEPT ![c] = @ \cup {t}] => held'[c] = held[c] \cup {t}
    BY DEF ControlTyped
  <2>2. CASE HoldOutcome(wallet, HoldId(c, t), HoldAmount[c][t]) = OK
    BY <1>2, <1>4, <1>5, <1>9, <2>1, <2>2
       DEF Hold, Visits, Reserves, HoldStep, CalmStep, OK, InsufficientFundsError, ValueError
  <2>3. CASE HoldOutcome(wallet, HoldId(c, t), HoldAmount[c][t]) # OK
    BY <1>2, <1>3, <1>4, <1>9, <2>3 DEF Hold, Visits, HoldStep, CalmStep
  <2> QED BY <2>2, <2>3
<1>10. CASE Dispatch(c)
  BY <1>3, <1>4, <1>10 DEF Dispatch, HoldStep, CalmStep
<1>11. CASE SkipAnswer(c)
  BY <1>11 DEF SkipAnswer, Settling, ControlTyped, AnswerStep, CalmStep
<1>12. CASE Settle(c)
  <2>1. responded' = [responded EXCEPT ![c] = @ \cup {Answer(c)}]
        /\ responded'[c] = responded[c] \cup {Answer(c)}
    BY <1>12 DEF Settle, ControlTyped
  <2>2. Answer(c)' = Answer(c)
    BY <1>12 DEF Settle, Answer
  <2> QED BY <1>2, <1>3, <1>12, <2>1, <2>2
             DEF Settle, Settling, Succeed, Charges, NotPaid, AnswerStep, CalmStep
<1>13. CASE PayOut(c)
  BY <1>2, <1>3, <1>13 DEF PayOut, AnswerStep, CalmStep
<1>14. CASE Undo(c)
  BY <1>3, <1>6, <1>14 DEF Undo, AnswerStep, CalmStep
<1>15. CASE EndOfAnswers(c)
  BY <1>3, <1>4, <1>15 DEF EndOfAnswers, AnswerStep, CalmStep
<1>16. CASE Refund(c)
  BY <1>4, <1>6, <1>16 DEF Refund, Visits, RefundStep, CalmStep
<1>17. CASE Leave(c)
  BY <1>3, <1>17 DEF Leave, RefundStep, CalmStep
<1> QED BY <1>7, <1>8, <1>9, <1>10, <1>11, <1>12, <1>13, <1>14, <1>15, <1>16, <1>17 DEF Handle

(* A broadcast's step leaves the others as they are. *)
LEMMA OtherCasts ==
  ASSUME ControlTyped, charged \in [Casts \X Targets -> Nat],
         NEW c \in Casts, Handle(c) \/ Stop(c), NEW d \in Casts, d # c
  PROVE  /\ pc'[d] = pc[d] /\ todo'[d] = todo[d] /\ owned'[d] = owned[d] /\ held'[d] = held[d]
         /\ deliverable'[d] = deliverable[d] /\ answers'[d] = answers[d]
         /\ responded'[d] = responded[d]
         /\ \A t \in Targets : charged'[<<d, t>>] = charged[<<d, t>>]
<1>1. pc'[d] = pc[d]
  BY DEF Handle, Lookup, FreeTarget, Hold, Dispatch, SkipAnswer, Settle, PayOut, Undo,
         EndOfAnswers, Refund, Leave, Stop, Succeed, Fault, Goto, ControlTyped
<1>2. todo'[d] = todo[d] /\ owned'[d] = owned[d]
  BY DEF Handle, Lookup, FreeTarget, Hold, Dispatch, SkipAnswer, Settle, PayOut, Undo,
         EndOfAnswers, Refund, Leave, Stop, Visit, NextTarget, loop_vars, ControlTyped
<1>3. held'[d] = held[d] /\ deliverable'[d] = deliverable[d]
  BY DEF Handle, Lookup, FreeTarget, Hold, Dispatch, SkipAnswer, Settle, PayOut, Undo,
         EndOfAnswers, Refund, Leave, Stop, Deliver, loop_vars, ControlTyped
<1>4. answers'[d] = answers[d] /\ responded'[d] = responded[d]
  BY DEF Handle, Lookup, FreeTarget, Hold, Dispatch, SkipAnswer, Settle, PayOut, Undo,
         EndOfAnswers, Refund, Leave, Stop, NextAnswer, reply_vars, ControlTyped
<1>5. UNCHANGED charged
      \/ \E t \in Targets : \E price : charged' = [charged EXCEPT ![<<c, t>>] = price]
  <2>1. Settling(c) => Answer(c) \in Targets
    BY FirstTyped DEF Settling, Answer, ControlTyped
  <2> QED BY <2>1 DEF Handle, Lookup, FreeTarget, Hold, Dispatch, SkipAnswer, Settle, PayOut, Undo,
                      EndOfAnswers, Refund, Leave, Stop
<1>6. \A t \in Targets : charged'[<<d, t>>] = charged[<<d, t>>]
  BY <1>5
<1> QED BY <1>1, <1>2, <1>3, <1>4, <1>6

-----------------------------------------------------------------------------
(* What the moves do to the holds. *)
Backed(c, t) == IsOpen(HoldId(c, t)) /\ wallet.holds[HoldId(c, t)] = HoldAmount[c][t]
SameHold(id) ==
    (IsOpen(id)' <=> IsOpen(id)) /\ (IsOpen(id) => wallet'.holds[id] = wallet.holds[id])

LEMMA OpensHold ==
  ASSUME IsWallet(wallet, HoldIds), NEW c \in Casts, NEW t \in Targets, Reserves(c, t)
  PROVE  Backed(c, t)' /\ \A id \in HoldIds : id # HoldId(c, t) => SameHold(id)
<1> DEFINE i == HoldId(c, t)
<1>1. CASE IsHeld(wallet, i)
  <2>1. wallet.holds[i] = HoldAmount[c][t]
    BY <1>1 DEF Reserves, HoldOutcome, OK, ValueError
  <2>2. wallet' = wallet
    BY <1>1 DEF Reserves, ApplyHold
  <2> QED BY <1>1, <2>1, <2>2 DEF Backed, SameHold, IsOpen, IsHeld, HoldId
<1>2. CASE ~IsHeld(wallet, i)
  <2>1. wallet'.holds = With(wallet.holds, i, HoldAmount[c][t])
    BY <1>2 DEF Reserves, ApplyHold, IsWallet
  <2>2. i \in DOMAIN wallet'.holds /\ wallet'.holds[i] = HoldAmount[c][t]
    BY <2>1 DEF With
  <2>3. \A id \in HoldIds : id # i =>
          /\ id \in DOMAIN wallet'.holds <=> id \in DOMAIN wallet.holds
          /\ id \in DOMAIN wallet.holds => wallet'.holds[id] = wallet.holds[id]
    BY <2>1 DEF With
  <2> QED BY <2>2, <2>3 DEF Backed, SameHold, IsOpen, IsHeld, HoldId
<1> QED BY <1>1, <1>2

LEMMA ClosesHold ==
  ASSUME NEW c \in Casts, NEW t \in Targets, Cancels(c, t) \/ \E price : Charges(c, t, price)
  PROVE  ~IsOpen(HoldId(c, t))' /\ \A id \in HoldIds : id # HoldId(c, t) => SameHold(id)
<1>1. wallet'.holds = Without(wallet.holds, HoldId(c, t))
  BY DEF Cancels, Charges, ApplyRefund, ApplyRelease
<1>2. /\ HoldId(c, t) \notin DOMAIN wallet'.holds
      /\ \A id \in HoldIds : id # HoldId(c, t) =>
           /\ id \in DOMAIN wallet'.holds <=> id \in DOMAIN wallet.holds
           /\ id \in DOMAIN wallet.holds => wallet'.holds[id] = wallet.holds[id]
  BY <1>1 DEF Without
<1> QED BY <1>2 DEF SameHold, IsOpen, IsHeld

LEMMA KeepsHolds ==
  ASSUME UNCHANGED wallet
  PROVE  \A id : SameHold(id)
BY DEF SameHold, IsOpen, IsHeld

LEMMA SameBacking ==
  ASSUME NEW c \in Casts, NEW t \in Targets, SameHold(HoldId(c, t)), Backed(c, t)
  PROVE  Backed(c, t)'
BY DEF SameHold, Backed, HoldId

(* A broadcast leaves the holds of other messages alone. *)
LEMMA OtherHolds ==
  ASSUME IsWallet(wallet, HoldIds), NEW d \in Casts, MovesOf(d) \/ Quiet,
         NEW c \in Casts, MessageOf[c] # MessageOf[d], NEW t \in Targets
  PROVE  SameHold(HoldId(c, t))
<1>1. HoldId(c, t) \in HoldIds /\ \A u \in Targets : HoldId(c, t) # HoldId(d, u)
  BY Ids DEF HoldId
<1> QED BY <1>1, OpensHold, ClosesHold, KeepsHolds DEF MovesOf, Quiet

-----------------------------------------------------------------------------
(* What a broadcast that was sent once is about to deliver is reserved. *)
BackedTargets(c) ==
    /\ pc[c] = "lookup" => deliverable[c] = {}
    /\ pc[c] = "hold" => \A t \in deliverable[c] \cap owned[c] : Backed(c, t)
BackedInv == \A c \in Casts : Twins(c) = {c} => BackedTargets(c)

LEMMA OwnTargets ==
  ASSUME ControlTyped, IsWallet(wallet, HoldIds), NEW c \in Casts, BackedTargets(c),
         Handle(c) \/ Stop(c)
  PROVE  BackedTargets(c)'
<1>1. \A l : Goto(c, l) => pc'[c] = l
  BY DEF Goto, ControlTyped
<1>2. \A l : Fault(c, l) => pc'[c] = l
  BY <1>1 DEF Fault
<1>3. CASE Lookup(c)
  <2>1. pc'[c] \in {"hold", "raised"} /\ deliverable'[c] = {}
    BY <1>1, <1>2, <1>3 DEF Lookup, BackedTargets
  <2> QED BY <2>1 DEF BackedTargets
<1>4. CASE FreeTarget(c)
  <2>1. deliverable'[c] = deliverable[c] \cup {Head(todo[c])} /\ Head(todo[c]) \notin owned[c]
    BY <1>4 DEF FreeTarget, Deliver, ControlTyped
  <2>2. pc[c] = "hold" /\ UNCHANGED <<pc, owned, wallet>>
    BY <1>4 DEF FreeTarget
  <2>3. \A t \in deliverable'[c] \cap owned'[c] : t \in Targets /\ Backed(c, t)
    BY <2>1, <2>2 DEF BackedTargets, ControlTyped
  <2>4. \A t \in deliverable'[c] \cap owned'[c] : Backed(c, t)'
    BY <2>2, <2>3, KeepsHolds, SameBacking
  <2> QED BY <2>2, <2>4 DEF BackedTargets
<1>5. CASE Hold(c)
  <2>0. PICK t \in Targets : t = Head(todo[c])
    BY <1>5, FirstTyped DEF Hold, ControlTyped
  <2>1. pc[c] = "hold" /\ owned' = owned
    BY <1>5 DEF Hold
  <2>2. CASE pc'[c] = "raised"
    BY <2>2 DEF BackedTargets
  <2>3. CASE Reserves(c, t) /\ pc' = pc /\ deliverable'[c] = deliverable[c] \cup {t}
    <3>1. Backed(c, t)' /\ \A id \in HoldIds : id # HoldId(c, t) => SameHold(id)
      BY <2>1, <2>3, OpensHold
    <3>2. ASSUME NEW u \in deliverable[c] \cap owned[c], u # t
          PROVE  Backed(c, u)'
      <4>1. u \in Targets /\ Backed(c, u)
        BY <2>1 DEF BackedTargets, ControlTyped
      <4>2. HoldId(c, u) \in HoldIds /\ HoldId(c, u) # HoldId(c, t)
        BY <3>2, <4>1, Ids DEF HoldId
      <4> QED BY <3>1, <4>1, <4>2, SameBacking
    <3>3. \A u \in deliverable'[c] \cap owned'[c] : Backed(c, u)'
      BY <2>1, <2>3, <3>1, <3>2
    <3> QED BY <2>1, <2>3, <3>3 DEF BackedTargets
  <2>4. CASE UNCHANGED <<wallet, pc, deliverable>>
    <3>1. \A u \in deliverable'[c] \cap owned'[c] : u \in Targets /\ Backed(c, u)
      BY <2>1, <2>4 DEF BackedTargets, ControlTyped
    <3>2. \A u \in deliverable'[c] \cap owned'[c] : Backed(c, u)'
      BY <2>4, <3>1, KeepsHolds, SameBacking
    <3> QED BY <2>1, <2>4, <3>2 DEF BackedTargets
  <2>5. pc'[c] = "raised" \/ UNCHANGED <<wallet, pc, deliverable>>
        \/ (Reserves(c, t) /\ pc' = pc /\ Deliver(c, t))
    BY <1>1, <1>2, <1>5, <2>0 DEF Hold, Reserves, reply_vars
  <2>6. Deliver(c, t) => deliverable'[c] = deliverable[c] \cup {t}
    BY DEF Deliver, ControlTyped
  <2> QED BY <2>2, <2>3, <2>4, <2>5, <2>6
<1>6. CASE ~Lookup(c) /\ ~FreeTarget(c) /\ ~Hold(c)
  <2>1. pc'[c] \notin {"lookup", "hold"}
    BY <1>1, <1>2, <1>6 DEF Handle, Dispatch, SkipAnswer, Settling, Settle, Succeed, PayOut, Undo,
                            EndOfAnswers, Refund, Leave, Stop
  <2> QED BY <2>1 DEF BackedTargets
<1> QED BY <1>3, <1>4, <1>5, <1>6

LEMMA SameTargets ==
  ASSUME ControlTyped, NEW c \in Casts, BackedTargets(c),
         \A t \in Targets : SameHold(HoldId(c, t)),
         pc'[c] = pc[c] /\ deliverable'[c] = deliverable[c] /\ owned'[c] = owned[c]
  PROVE  BackedTargets(c)'
<1>1. \A t \in deliverable[c] : t \in Targets
  BY DEF ControlTyped
<1>2. ASSUME NEW t \in deliverable[c], Backed(c, t) PROVE Backed(c, t)'
  BY <1>1, <1>2, SameBacking
<1> QED BY <1>2 DEF BackedTargets

LEMMA NextBacked == IInv /\ BackedInv /\ [Next]_vars => BackedInv'
<1> SUFFICES ASSUME IInv, BackedInv, [Next]_vars, NEW c \in Casts, Twins(c) = {c}
             PROVE  BackedTargets(c)'
  BY DEF BackedInv, Twins
<1>1. ControlTyped /\ AnswerAtHand /\ IsWallet(wallet, HoldIds) /\ BackedTargets(c)
  BY TypeParts DEF IInv, BackedInv
<1>2. CASE Handle(c) \/ Stop(c)
  BY <1>1, <1>2, OwnTargets
<1>3. ASSUME NEW d \in Casts, d # c, Handle(d) \/ Stop(d)
      PROVE  BackedTargets(c)'
  <2>1. MessageOf[c] # MessageOf[d]
    BY <1>3 DEF Twins
  <2>2. \A t \in Targets : SameHold(HoldId(c, t))
    BY <1>1, <1>3, <2>1, HandleMoves, OtherHolds
  <2>3. pc'[c] = pc[c] /\ deliverable'[c] = deliverable[c] /\ owned'[c] = owned[c]
    BY <1>1, <1>3, OtherCasts DEF IInv, TypeOK
  <2> QED BY <1>1, <2>2, <2>3, SameTargets
<1>4. CASE UNCHANGED vars
  <2>1. \A t \in Targets : SameHold(HoldId(c, t))
    BY <1>4, KeepsHolds DEF vars
  <2> QED BY <1>1, <1>4, <2>1, SameTargets DEF vars
<1> QED BY <1>2, <1>3, <1>4 DEF Next

(* The message goes out to a billed target only when the credits for its   *)
(* answer are reserved, whatever the other broadcasts of the wallet do,    *)
(* and whatever fails, in the loop that reserves them.                     *)
THEOREM DeliveriesAreBacked == Spec => []DeliveredTargetsAreBacked
<1>1. Init => BackedInv
  BY DEF Init, BackedInv, BackedTargets
<1>2. BackedInv => DeliveredTargetsAreBacked
  BY DEF BackedInv, BackedTargets, DeliveredTargetsAreBacked, Backed
<1> QED BY <1>1, <1>2, IInvHolds, NextBacked, PTL DEF Spec

-----------------------------------------------------------------------------
(* While nothing has failed, an open hold has a broadcast that still comes *)
(* to it.                                                                  *)
Consistent ==
    \A c, d \in Casts : MessageOf[c] = MessageOf[d] => HoldAmount[c] = HoldAmount[d]

Agreed(c) == \A t \in Targets : IsOpen(HoldId(c, t)) => Backed(c, t)

Shape(c) ==
    /\ pc[c] = "lookup" => held[c] = {}
    /\ pc[c] \in {"lookup", "hold"} => responded[c] = {}
    /\ pc[c] = "hold" => held[c] \subseteq deliverable[c]
                         /\ Elements(todo[c]) \subseteq Elements(TargetsOf[c])
    /\ held[c] \subseteq Elements(TargetsOf[c])

Responsible(c, t) ==
    \/ pc[c] = "hold" /\ t \in held[c]
    \/ pc[c] \in {"settle", "payout", "undo"} /\ t \in held[c] \ responded[c]
    \/ pc[c] = "undo" /\ t = Answer(c)
    \/ pc[c] = "refund_silent" /\ t \in (held[c] \ responded[c]) \cap Elements(todo[c])
    \/ pc[c] = "refund_raise" /\ t \in held[c] \cap Elements(todo[c])

Awaited(c, t) ==
    IsOpen(HoldId(c, t)) => \E d \in Casts : MessageOf[d] = MessageOf[c] /\ Responsible(d, t)

CalmInv == faults = 0 =>
    /\ \A c \in Casts : Agreed(c) /\ Shape(c)
    /\ \A c \in Casts : \A t \in Targets : Awaited(c, t)

LEMMA OwnShape ==
  ASSUME ControlTyped, NEW c \in Casts, Shape(c), CalmStep(c)
  PROVE  Shape(c)'
<1> USE DEF Keeps, Visits
<1>1. todo[c] # <<>> => Elements(todo[c]) = {Head(todo[c])} \cup Elements(Tail(todo[c]))
  BY TailElements DEF ControlTyped
<1>2. CASE pc[c] = "lookup" /\ pc'[c] = "hold" /\ todo'[c] = TargetsOf[c] /\ Quiet /\ Keeps(c)
  BY <1>2 DEF Shape
<1>3. CASE HoldStep(c)
  BY <1>1, <1>3 DEF HoldStep, Shape, Reserves
<1>4. CASE AnswerStep(c)
  BY <1>4 DEF AnswerStep, Shape
<1>5. CASE RefundStep(c)
  BY <1>5 DEF RefundStep, Shape
<1> QED BY <1>2, <1>3, <1>4, <1>5 DEF CalmStep

LEMMA CalmMoves ==
  ASSUME ControlTyped, NEW c \in Casts, NEW t \in Targets, Closed(c, t)
  PROVE  ~IsOpen(HoldId(c, t))'
<1>1. CASE Cancels(c, t)
  BY <1>1, ClosesHold
<1>2. CASE Quiet /\ ~IsOpen(HoldId(c, t))
  BY <1>2 DEF Quiet, IsOpen, IsHeld, HoldId
<1> QED BY <1>1, <1>2 DEF Closed

(* A broadcast responsible for a hold stays so until the hold is closed. *)
LEMMA StaysResponsible ==
  ASSUME ControlTyped, AnswerAtHand, NEW c \in Casts, NEW t \in Targets, Shape(c), Agreed(c),
         CalmStep(c), Responsible(c, t)
  PROVE  Responsible(c, t)' \/ ~IsOpen(HoldId(c, t))'
<1>1. CASE pc[c] = "lookup"
  BY <1>1 DEF Responsible
<1>2. CASE HoldStep(c)
  <2>1. pc[c] = "hold" /\ t \in held[c] /\ responded[c] = {} /\ t \in deliverable[c]
        /\ t \in Elements(TargetsOf[c])
    BY <1>2 DEF HoldStep, Responsible, Shape
  <2>2. todo[c] # <<>> => Head(todo[c]) \in Targets
    BY FirstTyped DEF ControlTyped
  <2>3. ~(todo[c] # <<>>
          /\ HoldOutcome(wallet, HoldId(c, Head(todo[c])), HoldAmount[c][Head(todo[c])]) = ValueError)
    BY <2>2 DEF Agreed, Backed, HoldOutcome, IsOpen, OK, ValueError, InsufficientFundsError
  <2> QED BY <1>2, <2>1, <2>3 DEF HoldStep, Keeps, Reserves, Responsible
<1>3. CASE AnswerStep(c)
  <2>1. \/ pc[c] \in {"settle", "payout", "undo"} /\ t \in held[c] \ responded[c]
        \/ pc[c] = "undo" /\ t = Answer(c)
    BY <1>3 DEF AnswerStep, Responsible
  <2>2. CASE pc[c] = "settle" /\ pc'[c] = "payout" /\ t = Answer(c)
             /\ \E price \in Prices[Answer(c)] : Charges(c, Answer(c), price)
    BY <2>2, ClosesHold
  <2>3. CASE pc[c] = "settle" /\ pc'[c] = "payout" /\ t # Answer(c)
             /\ held'[c] = held[c]
             /\ \E price \in Prices[Answer(c)] : Charges(c, Answer(c), price)
    <3>1. responded'[c] = responded[c] \cup {Answer(c)}
      BY <2>3 DEF Charges, ControlTyped
    <3> QED BY <2>1, <2>3, <3>1 DEF Responsible
  <2>4. CASE pc[c] = "undo" /\ t = Answer(c) /\ Closed(c, Answer(c))
    BY <2>4, CalmMoves
  <2>5. CASE pc[c] = "settle" /\ pc'[c] = "undo" /\ held'[c] = held[c]
             /\ responded'[c] = responded[c] \cup {Answer(c)} /\ Answer(c)' = Answer(c)
    <3>1. t = Answer(c) => t = Answer(c)'
      BY <2>5
    <3> QED BY <2>1, <2>5, <3>1 DEF Responsible
  <2>6. CASE pc[c] = "settle" /\ pc'[c] = "refund_silent" /\ todo'[c] = TargetsOf[c] /\ Keeps(c)
    <3>1. t \in Elements(TargetsOf[c])
      BY <2>1, <2>6 DEF Shape
    <3> QED BY <2>1, <2>6, <3>1 DEF Responsible, Keeps
  <2>7. CASE pc'[c] = "settle" /\ held'[c] = held[c] /\ t \in held[c] \ responded'[c]
    BY <2>7 DEF Responsible
  <2> QED BY <1>3, <2>1, <2>2, <2>3, <2>4, <2>5, <2>6, <2>7 DEF AnswerStep, Keeps
<1>4. CASE RefundStep(c)
  <2>1. t \in Due(c) \cap Elements(todo[c])
    BY <1>4 DEF RefundStep, Responsible, Due
  <2>2. todo[c] # <<>>
    BY <2>1 DEF Elements
  <2>3. Elements(todo[c]) = {Head(todo[c])} \cup Elements(Tail(todo[c]))
    BY <2>2, TailElements DEF ControlTyped
  <2>4. CASE t = Head(todo[c])
    <3>1. Closed(c, t)
      BY <1>4, <2>1, <2>2, <2>4 DEF RefundStep
    <3> QED BY <3>1, CalmMoves
  <2>5. CASE t # Head(todo[c])
    BY <1>4, <2>1, <2>2, <2>3, <2>5 DEF RefundStep, Visits, Keeps, Due, Responsible
  <2> QED BY <2>4, <2>5
<1> QED BY <1>1, <1>2, <1>3, <1>4 DEF CalmStep

(* A hold is opened only by a broadcast that then is responsible for it. *)
LEMMA OpensResponsibly ==
  ASSUME ControlTyped, AnswerAtHand, IsWallet(wallet, HoldIds), NEW c \in Casts, CalmStep(c), NEW id \in HoldIds,
         IsOpen(id)', ~IsOpen(id)
  PROVE  \E t \in Targets : id = HoldId(c, t) /\ Responsible(c, t)'
<1>1. ~Quiet
  BY DEF Quiet, IsOpen, IsHeld
<1>2. \A t \in Targets : ~Cancels(c, t) /\ \A price : ~Charges(c, t, price)
  BY ClosesHold DEF SameHold
<1>3. \A t \in Targets : ~Closed(c, t)
  BY <1>1, <1>2 DEF Closed
<1>4. todo[c] # <<>> => Head(todo[c]) \in Targets
  BY FirstTyped DEF ControlTyped
<1>5. CASE HoldStep(c)
  <2>1. PICK t \in Targets : t = Head(todo[c]) /\ Reserves(c, t) /\ pc'[c] = "hold" /\ t \in held'[c]
    BY <1>1, <1>4, <1>5 DEF HoldStep, Visits
  <2>2. id = HoldId(c, t)
    BY <2>1, OpensHold DEF SameHold
  <2> QED BY <2>1, <2>2 DEF Responsible
<1>6. CASE AnswerStep(c)
  <2>1. pc[c] = "undo" => Answer(c) \in Targets
    BY FirstTyped DEF Answer, AnswerAtHand, ControlTyped
  <2>2. held[c] \subseteq Targets
    BY DEF ControlTyped
  <2> QED BY <1>1, <1>2, <1>3, <1>6, <2>1, <2>2 DEF AnswerStep
<1>7. CASE RefundStep(c)
  BY <1>1, <1>3, <1>4, <1>7 DEF RefundStep, Visits
<1> QED BY <1>1, <1>5, <1>6, <1>7 DEF CalmStep

LEMMA MovesAgree ==
  ASSUME Consistent, IsWallet(wallet, HoldIds), NEW d \in Casts, MovesOf(d) \/ Quiet,
         NEW c \in Casts, Agreed(c)
  PROVE  Agreed(c)'
<1> SUFFICES ASSUME NEW t \in Targets, IsOpen(HoldId(c, t))' PROVE Backed(c, t)'
  BY DEF Agreed, HoldId
<1>1. HoldId(c, t) \in HoldIds
  BY Ids
<1>2. CASE SameHold(HoldId(c, t))
  BY <1>2, SameBacking DEF Agreed, SameHold
<1>3. ASSUME NEW u \in Targets, Reserves(d, u), HoldId(c, t) = HoldId(d, u)
      PROVE  Backed(c, t)'
  <2>1. MessageOf[c] = MessageOf[d] /\ t = u
    BY <1>3 DEF HoldId
  <2>2. HoldAmount[c] = HoldAmount[d]
    BY <2>1 DEF Consistent
  <2>3. Backed(d, u)'
    BY <1>3, OpensHold
  <2> QED BY <2>1, <2>2, <2>3 DEF Backed, HoldId
<1>4. ASSUME NEW u \in Targets, HoldId(c, t) = HoldId(d, u),
             Cancels(d, u) \/ \E price : Charges(d, u, price)
      PROVE  FALSE
  <2>1. ~IsOpen(HoldId(d, u))'
    BY <1>4, ClosesHold
  <2> QED BY <1>4, <2>1 DEF HoldId
<1>5. CASE Quiet
  BY <1>2, <1>5, KeepsHolds DEF Quiet
<1>6. ASSUME NEW u \in Targets, HoldId(c, t) # HoldId(d, u),
             Reserves(d, u) \/ Cancels(d, u) \/ \E price : Charges(d, u, price)
      PROVE  SameHold(HoldId(c, t))
  BY <1>1, <1>6, OpensHold, ClosesHold
<1> QED BY <1>2, <1>3, <1>4, <1>5, <1>6 DEF MovesOf

LEMMA OtherResponsible ==
  ASSUME ControlTyped, charged \in [Casts \X Targets -> Nat], NEW c \in Casts, Handle(c),
         NEW d \in Casts, d # c
  PROVE  /\ Shape(d) => Shape(d)'
         /\ \A t \in Targets : Responsible(d, t) => Responsible(d, t)'
<1>1. /\ pc'[d] = pc[d] /\ todo'[d] = todo[d] /\ held'[d] = held[d]
      /\ deliverable'[d] = deliverable[d] /\ answers'[d] = answers[d]
      /\ responded'[d] = responded[d]
  BY OtherCasts
<1> QED BY <1>1 DEF Shape, Responsible, Answer

LEMMA NextCalm ==
  ASSUME Consistent, IInv, CalmInv, [Next]_vars
  PROVE  CalmInv'
<1>1. ControlTyped /\ AnswerAtHand /\ IsWallet(wallet, HoldIds)
      /\ charged \in [Casts \X Targets -> Nat]
  BY TypeParts DEF IInv
<1>2. ASSUME NEW c \in Casts, Handle(c), faults' = 0
      PROVE  CalmInv'
  <2>1. faults = 0 /\ CalmStep(c)
    BY <1>1, <1>2, CalmSteps
  <2>2. \A d \in Casts : Agreed(d) /\ Shape(d) /\ \A t \in Targets : Awaited(d, t)
    BY <2>1 DEF CalmInv
  <2>3. \A d \in Casts : Agreed(d)'
    BY <1>1, <1>2, <2>2, HandleMoves, MovesAgree
  <2>4. \A d \in Casts : Shape(d)'
    BY <1>1, <1>2, <2>1, <2>2, OwnShape, OtherResponsible
  <2>5. ASSUME NEW d \in Casts, NEW t \in Targets, IsOpen(HoldId(d, t))'
        PROVE  \E e \in Casts : MessageOf[e] = MessageOf[d] /\ Responsible(e, t)'
    <3>1. HoldId(d, t) \in HoldIds
      BY Ids
    <3>2. CASE IsOpen(HoldId(d, t))
      <4>1. PICK e \in Casts : MessageOf[e] = MessageOf[d] /\ Responsible(e, t)
        BY <2>2, <3>2 DEF Awaited
      <4>2. CASE e # c
        BY <1>1, <1>2, <4>1, <4>2, OtherResponsible
      <4>3. CASE e = c
        <5>1. HoldId(e, t) = HoldId(d, t)
          BY <4>1 DEF HoldId
        <5>2. Responsible(e, t)' \/ ~IsOpen(HoldId(e, t))'
          BY <1>1, <2>1, <2>2, <4>1, <4>3, StaysResponsible
        <5>3. IsOpen(HoldId(e, t))'
          BY <2>5, <5>1 DEF HoldId
        <5> QED BY <4>1, <5>2, <5>3
      <4> QED BY <4>2, <4>3
    <3>3. CASE ~IsOpen(HoldId(d, t))
      <4>1. PICK i \in HoldIds : i = HoldId(d, t)
        BY <3>1
      <4>2. IsOpen(i)' /\ ~IsOpen(i)
        BY <2>5, <3>3, <4>1 DEF HoldId
      <4>3. PICK u \in Targets : i = HoldId(c, u) /\ Responsible(c, u)'
        BY <1>1, <2>1, <4>2, OpensResponsibly
      <4>4. MessageOf[c] = MessageOf[d] /\ u = t
        BY <4>1, <4>3 DEF HoldId
      <4> QED BY <4>3, <4>4
    <3> QED BY <3>2, <3>3
  <2>6. \A d \in Casts : \A t \in Targets : Awaited(d, t)'
    BY <2>5 DEF Awaited, HoldId
  <2> QED BY <2>3, <2>4, <2>6 DEF CalmInv
<1>3. ASSUME NEW c \in Casts, Stop(c) PROVE CalmInv'
  <2>1. faults' # 0
    BY <1>1, <1>3, BroadcastAssumption DEF Stop, Fault, ControlTyped
  <2> QED BY <2>1 DEF CalmInv
<1>4. CASE faults' # 0
  BY <1>4 DEF CalmInv
<1>5. CASE UNCHANGED vars
  BY <1>5 DEF vars, CalmInv, Agreed, Backed, Shape, Responsible, Awaited, IsOpen, IsHeld, HoldId,
              Answer
<1> QED BY <1>2, <1>3, <1>4, <1>5 DEF Next

LEMMA InitCalm == Init => CalmInv
<1> SUFFICES ASSUME Init PROVE CalmInv
  OBVIOUS
<1>1. \A id : ~IsOpen(id)
  BY DEF Init, FreshWallet, NoCredits, IsOpen, IsHeld
<1>2. \A c \in Casts : Shape(c)
  BY DEF Init, Shape
<1> QED BY <1>1, <1>2 DEF CalmInv, Agreed, Awaited

(* Without failures, every hold of a broadcast is settled or refunded by   *)
(* the time the broadcasts of its message are over, when copies of one     *)
(* message reserve the same amounts.                                       *)
THEOREM BroadcastsCloseTheirHolds ==
  ASSUME Consistent
  PROVE  Spec => []HoldsCloseWithBroadcasts
<1>1. CalmInv => HoldsCloseWithBroadcasts
  <2> SUFFICES ASSUME CalmInv, NEW c \in Casts, NEW t \in Targets, faults = 0, Over(c),
                      IsOpen(HoldId(c, t))
               PROVE  FALSE
    BY DEF HoldsCloseWithBroadcasts
  <2>1. PICK d \in Casts : MessageOf[d] = MessageOf[c] /\ Responsible(d, t)
    BY DEF CalmInv, Awaited
  <2>2. pc[d] \in Done
    BY <2>1 DEF Over, Twins
  <2> QED BY <2>1, <2>2 DEF Responsible, Done
<1>2. IInv /\ CalmInv /\ [Next]_vars => CalmInv'
  BY NextCalm
<1> QED BY <1>1, <1>2, InitCalm, IInvHolds, PTL DEF Spec

-----------------------------------------------------------------------------
(* While nothing has failed, a broadcast that was sent once keeps what it  *)
(* reserved for a target until it looks at the target's answer, and then   *)
(* charges what the hold covers.                                           *)
Affordable(c, t) == \A price \in Prices[t] : price \in 1..HoldAmount[c][t]

Reserved(c, t) ==
    /\ pc[c] \in {"hold", "settle", "payout", "undo"} /\ t \in held[c] \ responded[c]
       => Backed(c, t)
    /\ t \in held[c] \cap responded[c] /\ Affordable(c, t) => charged[<<c, t>>] > 0
    /\ charged[<<c, t>>] > 0 => t \in held[c]

Billing(c) ==
    /\ pc[c] = "lookup" => held[c] = {}
    /\ pc[c] \in {"lookup", "hold"} => responded[c] = {}
    /\ pc[c] = "undo" => Answer(c) \in responded[c]
    /\ \A t \in Targets : Reserved(c, t)

BillingInv == faults = 0 => \A c \in Casts : Twins(c) = {c} => Billing(c)

LEMMA QuietReserved ==
  ASSUME IsWallet(wallet, HoldIds), charged \in [Casts \X Targets -> Nat],
         NEW c \in Casts, NEW t \in Targets, Reserved(c, t),
         SameHold(HoldId(c, t)), charged'[<<c, t>>] = charged[<<c, t>>],
         held'[c] = held[c], responded'[c] = responded[c],
         \/ pc'[c] \notin {"hold", "settle", "payout", "undo"}
         \/ pc[c] \in {"hold", "settle", "payout", "undo"}
         \/ held[c] = {}
  PROVE  Reserved(c, t)'
BY SameBacking DEF Reserved, Affordable

LEMMA OwnBilling ==
  ASSUME ControlTyped, AnswerAtHand, Books, NEW c \in Casts, Billing(c), CalmStep(c)
  PROVE  Billing(c)'
<1>1. IsWallet(wallet, HoldIds) /\ charged \in [Casts \X Targets -> Nat]
  BY DEF Books
<1>2. ASSUME Quiet, Keeps(c), pc'[c] # "lookup", pc'[c] # "undo",
             pc'[c] = "hold" => pc[c] \in {"lookup", "hold"},
             \/ pc'[c] \notin {"hold", "settle", "payout", "undo"}
             \/ pc[c] \in {"lookup", "hold", "settle", "payout", "undo"}
      PROVE  Billing(c)'
  <2>1. \A t \in Targets : SameHold(HoldId(c, t)) /\ charged'[<<c, t>>] = charged[<<c, t>>]
    BY <1>2, KeepsHolds DEF Quiet
  <2>2. \A t \in Targets : Reserved(c, t)'
    BY <1>1, <1>2, <2>1, QuietReserved DEF Billing, Keeps
  <2> QED BY <1>2, <2>2 DEF Billing, Keeps
<1>3. CASE pc[c] = "lookup" /\ pc'[c] = "hold" /\ todo'[c] = TargetsOf[c] /\ Quiet /\ Keeps(c)
  BY <1>2, <1>3
<1>4. CASE HoldStep(c)
  <2>1. CASE Quiet /\ held'[c] = held[c] /\ responded'[c] = responded[c]
    <3>1. \A t \in Targets : SameHold(HoldId(c, t)) /\ charged'[<<c, t>>] = charged[<<c, t>>]
      BY <2>1, KeepsHolds DEF Quiet
    <3>2. \A t \in Targets : Reserved(c, t)'
      BY <1>1, <1>4, <2>1, <3>1, QuietReserved DEF Billing, HoldStep
    <3> QED BY <1>4, <2>1, <3>2 DEF Billing, HoldStep
  <2>2. ASSUME NEW u \in Targets, Reserves(c, u), held'[c] = held[c] \cup {u}, pc'[c] = "hold",
               pc[c] = "hold"
        PROVE  Billing(c)'
    <3>1. Backed(c, u)' /\ \A t \in Targets : t # u => SameHold(HoldId(c, t))
      BY <1>1, <2>2, Ids, OpensHold DEF HoldId
    <3>2. responded'[c] = {} /\ charged' = charged
      BY <2>2 DEF Billing, Reserves
    <3>3. ASSUME NEW t \in Targets PROVE Reserved(c, t)'
      <4>1. t # u /\ t \in held[c] => Backed(c, t)'
        BY <2>2, <3>1, <3>2, SameBacking DEF Billing, Reserved
      <4> QED BY <2>2, <3>1, <3>2, <4>1 DEF Billing, Reserved
    <3> QED BY <2>2, <3>2, <3>3 DEF Billing
  <2>3. todo[c] # <<>> => Head(todo[c]) \in Targets
    BY FirstTyped DEF ControlTyped
  <2> QED BY <1>4, <2>1, <2>2, <2>3 DEF HoldStep, Visits, Keeps
<1>5. CASE AnswerStep(c)
  <2>0. held[c] \subseteq Targets
    BY DEF ControlTyped
  <2>1. CASE /\ pc[c] = "settle" /\ pc'[c] = "settle" /\ Quiet
             /\ Answer(c) \in responded[c] \/ Answer(c) \notin held[c]
             /\ responded'[c] = responded[c] \cup {Answer(c)} /\ held'[c] = held[c]
    <3>1. \A t \in Targets : SameHold(HoldId(c, t)) /\ charged'[<<c, t>>] = charged[<<c, t>>]
      BY <2>1, KeepsHolds DEF Quiet
    <3>2. ASSUME NEW t \in Targets PROVE Reserved(c, t)'
      BY <2>1, <3>1, SameBacking DEF Billing, Reserved, Affordable
    <3> QED BY <2>1, <3>2 DEF Billing
  <2>2. ASSUME NEW u \in held[c] \ responded[c], NEW price \in Prices[u], Charges(c, u, price),
               pc[c] = "settle", pc'[c] = "payout", held'[c] = held[c]
        PROVE  Billing(c)'
    <3>1. u \in Targets /\ price \in Nat
      BY <2>0, Ids
    <3>2. \A t \in Targets : t # u => SameHold(HoldId(c, t))
      BY <2>2, <3>1, Ids, ClosesHold DEF HoldId
    <3>3. responded'[c] = responded[c] \cup {u}
      BY <2>2 DEF Charges, ControlTyped
    <3>4. /\ charged'[<<c, u>>] = price
          /\ \A t \in Targets : t # u => charged'[<<c, t>>] = charged[<<c, t>>]
      BY <1>1, <2>2, <3>1 DEF Charges
    <3>5. ASSUME NEW t \in Targets, t # u PROVE Reserved(c, t)'
      BY <2>2, <3>2, <3>3, <3>4, <3>5, SameBacking DEF Billing, Reserved, Affordable
    <3>6. Reserved(c, u)'
      BY <2>2, <3>1, <3>3, <3>4 DEF Reserved, Affordable
    <3> QED BY <2>2, <3>5, <3>6 DEF Billing
  <2>3. ASSUME NEW u \in held[c] \ responded[c], NEW price \in Prices[u], NotPaid(c, u, price),
               Quiet, pc[c] = "settle", pc'[c] = "undo", held'[c] = held[c],
               responded'[c] = responded[c] \cup {u}, Answer(c)' = u
        PROVE  Billing(c)'
    <3>1. u \in Targets /\ price \in Nat /\ HoldAmount[c][u] \in Nat
      BY <2>0, Ids
    <3>2. Backed(c, u)
      BY <2>3, <3>1 DEF Billing, Reserved
    <3>3. ~(price \in 1..HoldAmount[c][u])
      BY <2>3, <3>1, <3>2 DEF NotPaid, ReleaseOutcome, Backed, IsOpen, OK
    <3>4. ~Affordable(c, u)
      BY <3>3 DEF Affordable
    <3>5. \A t \in Targets : SameHold(HoldId(c, t)) /\ charged'[<<c, t>>] = charged[<<c, t>>]
      BY <2>3, KeepsHolds DEF Quiet
    <3>6. ASSUME NEW t \in Targets PROVE Reserved(c, t)'
      BY <2>3, <3>4, <3>5, SameBacking DEF Billing, Reserved, Affordable
    <3> QED BY <2>3, <3>6 DEF Billing
  <2>4. CASE pc[c] \in {"settle", "payout"} /\ pc'[c] \in {"settle", "refund_silent"}
             /\ Quiet /\ Keeps(c)
    BY <1>2, <2>4
  <2>5. CASE pc[c] = "undo" /\ pc'[c] = "settle" /\ Closed(c, Answer(c)) /\ Keeps(c)
    <3>1. CASE Quiet
      BY <1>2, <2>5, <3>1
    <3>2. PICK u \in Targets : u = Answer(c) /\ u \in responded[c]
      BY <2>5, FirstTyped DEF Billing, Answer, AnswerAtHand, ControlTyped
    <3>3. CASE Cancels(c, u)
      <4>1. \A t \in Targets : t # u => SameHold(HoldId(c, t))
        BY <3>3, Ids, ClosesHold DEF HoldId
      <4>2. charged' = charged
        BY <3>3 DEF Cancels
      <4>3. ASSUME NEW t \in Targets PROVE Reserved(c, t)'
        BY <2>5, <3>2, <4>1, <4>2, SameBacking DEF Billing, Reserved, Affordable, Keeps
      <4> QED BY <2>5, <4>3 DEF Billing
    <3> QED BY <2>5, <3>1, <3>2, <3>3 DEF Closed
  <2> QED BY <1>5, <2>1, <2>2, <2>3, <2>4, <2>5 DEF AnswerStep
<1>6. CASE RefundStep(c)
  <2>1. pc'[c] \in {"refund_silent", "refund_raise", "returned", "raised"}
        /\ held'[c] = held[c] /\ responded'[c] = responded[c]
    BY <1>6 DEF RefundStep, Keeps
  <2>2. charged' = charged
    BY <1>6 DEF RefundStep, Closed, Cancels, Quiet
  <2>3. ASSUME NEW t \in Targets PROVE Reserved(c, t)'
    BY <2>1, <2>2 DEF Billing, Reserved, Affordable
  <2> QED BY <2>1, <2>3 DEF Billing
<1> QED BY <1>3, <1>4, <1>5, <1>6 DEF CalmStep

LEMMA NextBilling == IInv /\ BillingInv /\ [Next]_vars => BillingInv'
<1> SUFFICES ASSUME IInv, BillingInv, [Next]_vars, NEW c \in Casts, Twins(c) = {c}, faults' = 0
             PROVE  Billing(c)'
  BY DEF BillingInv, Twins
<1>1. ControlTyped /\ AnswerAtHand /\ Books
      /\ charged \in [Casts \X Targets -> Nat] /\ IsWallet(wallet, HoldIds)
  BY TypeParts, InvBooks DEF IInv
<1>2. CASE Handle(c)
  <2>1. faults = 0 /\ CalmStep(c)
    BY <1>1, <1>2, CalmSteps
  <2> QED BY <1>1, <2>1, OwnBilling DEF BillingInv
<1>3. ASSUME NEW d \in Casts, d # c, Handle(d)
      PROVE  Billing(c)'
  <2>1. faults = 0
    BY <1>1, <1>3, CalmSteps
  <2>2. Billing(c)
    BY <2>1 DEF BillingInv
  <2>3. MessageOf[c] # MessageOf[d]
    BY <1>3 DEF Twins
  <2>4. \A t \in Targets : SameHold(HoldId(c, t))
    BY <1>1, <1>3, <2>3, HandleMoves, OtherHolds
  <2>5. /\ pc'[c] = pc[c] /\ held'[c] = held[c] /\ answers'[c] = answers[c]
        /\ responded'[c] = responded[c]
        /\ \A t \in Targets : charged'[<<c, t>>] = charged[<<c, t>>]
    BY <1>1, <1>3, OtherCasts
  <2>6. ASSUME NEW t \in Targets PROVE Reserved(c, t)'
    BY <2>2, <2>4, <2>5, SameBacking DEF Billing, Reserved, Affordable
  <2> QED BY <2>2, <2>5, <2>6 DEF Billing, Answer
<1>4. ASSUME NEW d \in Casts, Stop(d) PROVE FALSE
  BY <1>1, <1>4, BroadcastAssumption DEF Stop, Fault, ControlTyped
<1>5. CASE UNCHANGED vars
  BY <1>5 DEF vars, BillingInv, Billing, Reserved, Affordable, Backed, IsOpen, IsHeld, HoldId, Answer
<1> QED BY <1>2, <1>3, <1>4, <1>5 DEF Next

(* A broadcast that was sent once and returns has charged each target it   *)
(* held for and that answered within the hold, and no other, if nothing    *)
(* failed.                                                                 *)
THEOREM BroadcastsBillOnce == Spec => []AnswersAreBilledOnce
<1>1. Init => BillingInv
  <2> SUFFICES ASSUME Init, NEW c \in Casts PROVE Billing(c)
    BY DEF BillingInv
  <2>1. \A t \in Targets : Reserved(c, t)
    BY DEF Init, Reserved
  <2> QED BY <2>1 DEF Init, Billing
<1>2. IInv /\ BillingInv => AnswersAreBilledOnce
  <2> SUFFICES ASSUME IInv, BillingInv, NEW c \in Casts, NEW t \in Targets, faults = 0,
                      Twins(c) = {c}
               PROVE  /\ charged[<<c, t>>] > 0 => t \in held[c] \cap responded[c]
                      /\ t \in held[c] \cap responded[c] /\ Affordable(c, t)
                         => charged[<<c, t>>] > 0
    BY DEF AnswersAreBilledOnce, Affordable
  <2>1. Reserved(c, t)
    BY DEF BillingInv, Billing
  <2>2. t \notin responded[c] => charged[<<c, t>>] = 0
    BY DEF IInv, ChargedAfterAnswer
  <2> QED BY <2>1, <2>2 DEF Reserved
<1> QED BY <1>1, <1>2, IInvHolds, NextBilling, PTL DEF Spec
=============================================================================
