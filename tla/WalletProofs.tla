---------------------------- MODULE WalletProofs ----------------------------
(***************************************************************************)
(* For any owners, hold ids, amounts, clients and number of retries: the   *)
(* wallet's types, the soundness of its books under every interleaving,    *)
(* and the atomicity of its optimistic transactions.                       *)
(***************************************************************************)
EXTENDS Wallet, WalletStateProofs

(* Whatever operation a client runs, if it does not raise it keeps the     *)
(* books of the wallet sound.                                              *)
LEMMA ApplySound ==
  ASSUME NEW o \in Operations, NEW w, IsWallet(w, HoldIds), Sound(w),
         Outcome(w, o) = OK
  PROVE  IsWallet(Apply(w, o), HoldIds) /\ Sound(Apply(w, o))
<1> USE WalletAssumption
<1>1. CASE o.kind = "hold"
  <2>1. o.id \in HoldIds /\ o.amount \in Nat
    BY <1>1 DEF Operations, OperationsOn
  <2>2. HoldOutcome(w, o.id, o.amount) = OK
    BY <1>1 DEF Outcome
  <2>3. Apply(w, o) = ApplyHold(w, o.id, o.amount)
    BY <1>1 DEF Apply
  <2> QED BY <2>1, <2>2, <2>3, HoldSound
<1>2. CASE o.kind = "settle"
  <2>1. o.amount \in Nat
    BY <1>2 DEF Operations, OperationsOn
  <2>2. ReleaseOutcome(w, o.id, o.amount) = OK
    BY <1>2 DEF Outcome
  <2>3. Apply(w, o) = ApplyRelease(w, o.id, o.amount)
    BY <1>2 DEF Apply
  <2> QED BY <2>1, <2>2, <2>3, ReleaseSound
<1>3. CASE o.kind = "refund"
  <2>1. RefundOutcome(w, o.id) = OK
    BY <1>3 DEF Outcome
  <2>2. Apply(w, o) = ApplyRefund(w, o.id)
    BY <1>3 DEF Apply
  <2> QED BY <2>1, <2>2, RefundSound
<1>4. CASE o.kind = "topup"
  <2>1. o.amount \in Nat
    BY <1>4 DEF Operations, OperationsOn
  <2>2. Apply(w, o) = ApplyCredit(w, o.amount)
    BY <1>4 DEF Apply
  <2> QED BY <2>1, <2>2, CreditSound
<1>5. o.kind \in {"hold", "settle", "refund", "topup"}
  BY DEF Operations, OperationsOn
<1> QED BY <1>1, <1>2, <1>3, <1>4, <1>5

(* Every operation has the owner of the wallet it works on. *)
LEMMA OperationOwner ==
  ASSUME NEW o \in Operations
  PROVE  o.owner \in Owners
BY DEF Operations, OperationsOn

(* A wallet that was never written is one of this model's wallets. *)
LEMMA FreshIsWallet == IsWallet(FreshWallet, HoldIds)
BY FreshWalletSound DEF IsWallet

-----------------------------------------------------------------------------
(* A client past its WATCH has an operation to run. *)
CallsHaveOperations ==
    \A c \in Clients : pc[c] # "idle" => op[c] \in Operations

(* The inductive invariant.  Soundness alone is not inductive: an EXEC     *)
(* writes a state computed earlier, which is sound because it is what the  *)
(* operation makes of the wallet as it still is.                           *)
IInv ==
    /\ TypeOK
    /\ CallsHaveOperations
    /\ WalletsSound
    /\ FreshIsCurrent

LEMMA InitIInv == Init => IInv
<1> SUFFICES ASSUME Init PROVE IInv
  OBVIOUS
<1> USE DEF Init
<1>1. TypeOK
  BY FreshIsWallet, WalletAssumption
     DEF TypeOK, Results, NoOperation, OK, InsufficientFundsError, UnknownHoldError, ValueError
<1>2. WalletsSound
  BY FreshWalletSound DEF WalletsSound
<1>3. FreshIsCurrent /\ CallsHaveOperations
  BY DEF FreshIsCurrent, CallsHaveOperations
<1> QED BY <1>1, <1>2, <1>3 DEF IInv

(* A step that writes no wallet and starts no EXEC keeps FreshIsCurrent. *)
LEMMA QuietStep ==
  ASSUME FreshIsCurrent, UNCHANGED <<wallets>>, NEW c \in Clients, pc'[c] # "exec",
         \A d \in Clients : d # c =>
            /\ pc'[d] = pc[d] /\ op'[d] = op[d] /\ fresh'[d] = fresh[d]
            /\ d \in touched => d \in touched'
  PROVE  FreshIsCurrent'
BY DEF FreshIsCurrent, Key
LEMMA CallStep ==
  ASSUME IInv, NEW c \in Clients, Call(c)
  PROVE  IInv'
<1> USE WalletAssumption DEF IInv, Call
<1>1. TypeOK'
  BY DEF TypeOK, Results
<1>2. CallsHaveOperations'
  BY DEF TypeOK, CallsHaveOperations
<1>3. WalletsSound'
  BY DEF WalletsSound
<1>4. FreshIsCurrent'
  BY QuietStep DEF TypeOK
<1> QED BY <1>1, <1>2, <1>3, <1>4

LEMMA WatchStep ==
  ASSUME IInv, NEW c \in Clients, Watch(c)
  PROVE  IInv'
<1> USE WalletAssumption DEF IInv, Watch
<1>1. TypeOK'
  BY DEF TypeOK
<1>2. CallsHaveOperations'
  BY DEF TypeOK, CallsHaveOperations
<1>3. WalletsSound'
  BY DEF WalletsSound
<1>4. FreshIsCurrent'
  BY QuietStep DEF TypeOK
<1> QED BY <1>1, <1>2, <1>3, <1>4

(* Leaving a call without having written anything. *)
LEMMA ReturnStep ==
  ASSUME IInv, NEW c \in Clients, NEW r \in Results, Return(c, r),
         UNCHANGED <<wallets, mirrors, op>>,
         touched' \in {touched, touched \ {c}}
  PROVE  IInv'
<1> USE WalletAssumption DEF IInv, Return
<1>1. TypeOK'
  BY FreshIsWallet DEF TypeOK
<1>2. CallsHaveOperations'
  BY DEF TypeOK, CallsHaveOperations
<1>3. WalletsSound'
  BY DEF WalletsSound
<1>4. FreshIsCurrent'
  BY QuietStep DEF TypeOK
<1> QED BY <1>1, <1>2, <1>3, <1>4

LEMMA GetStep ==
  ASSUME IInv, NEW c \in Clients, Get(c)
  PROVE  IInv'
<1> DEFINE w == wallets[Key(c)]
           o == op[c]
<1>1. o \in Operations /\ Key(c) \in Owners
  BY OperationOwner DEF IInv, CallsHaveOperations, Get, Key
<1>2. IsWallet(w, HoldIds) /\ Sound(w)
  BY <1>1 DEF IInv, TypeOK, WalletsSound
<1>3. CASE Outcome(w, o) # OK
  <2>1. Outcome(w, o) \in Results
    BY DEF Outcome, HoldOutcome, ReleaseOutcome, RefundOutcome, Results
  <2> QED BY <1>3, <2>1, ReturnStep DEF Get
<1>4. CASE Outcome(w, o) = OK
  <2>1. /\ fresh' = [fresh EXCEPT ![c] = Apply(w, o)]
        /\ pc' = [pc EXCEPT ![c] = "exec"]
        /\ UNCHANGED <<tries, result, touched, wallets, mirrors, op>>
    BY <1>4 DEF Get
  <2>2. IsWallet(Apply(w, o), HoldIds)
    BY <1>1, <1>2, <1>4, ApplySound
  <2>3. TypeOK'
    BY <2>1, <2>2 DEF IInv, TypeOK
  <2>4. CallsHaveOperations'
    BY <1>1, <2>1 DEF IInv, TypeOK, CallsHaveOperations
  <2>5. WalletsSound'
    BY <2>1 DEF IInv, WalletsSound
  <2>6. FreshIsCurrent'
    BY <1>4, <2>1 DEF IInv, TypeOK, FreshIsCurrent, Key
  <2> QED BY <2>3, <2>4, <2>5, <2>6 DEF IInv
<1> QED BY <1>3, <1>4

LEMMA ExecStep ==
  ASSUME IInv, NEW c \in Clients, Exec(c)
  PROVE  IInv'
<1> DEFINE w == wallets[Key(c)]
           o == op[c]
<1>1. o \in Operations /\ Key(c) \in Owners
  BY OperationOwner DEF IInv, CallsHaveOperations, Exec, Key
<1>2. Outcome(w, o) = OK /\ fresh[c] = Apply(w, o)
  BY DEF IInv, FreshIsCurrent, Exec
<1>3. IsWallet(fresh[c], HoldIds) /\ Sound(fresh[c])
  BY <1>1, <1>2, ApplySound DEF IInv, TypeOK, WalletsSound
<1>4. /\ wallets' = [wallets EXCEPT ![Key(c)] = fresh[c]]
      /\ touched' = touched \cup (Watching(Key(c)) \ {c})
      /\ mirrors' = MirrorsAfter(op[c])
      /\ op' = op
      /\ \E r \in {OK, "Aborted"} : Return(c, r)
  BY DEF Exec
<1>5. MirrorsAfter(o) \in SUBSET (Owners \X HoldIds)
  BY <1>1 DEF MirrorsAfter, IInv, TypeOK, Operations, OperationsOn
<1>6. TypeOK'
  <2>1. DOMAIN wallets' = Owners /\ \A x \in Owners : IsWallet(wallets'[x], HoldIds)
    BY <1>1, <1>3, <1>4 DEF IInv, TypeOK
  <2>2. DOMAIN fresh' = Clients /\ \A d \in Clients : IsWallet(fresh'[d], HoldIds)
    BY <1>4, FreshIsWallet DEF IInv, TypeOK, Return
  <2>3. touched' \in SUBSET Clients
    BY <1>4 DEF IInv, TypeOK, Watching
  <2>4. /\ pc' \in [Clients -> {"idle", "watch", "get", "exec"}]
        /\ tries' \in [Clients -> 0..Retries]
        /\ result' \in [Clients -> Results]
    BY <1>4, WalletAssumption DEF IInv, TypeOK, Return, Results
  <2> QED BY <1>4, <1>5, <2>1, <2>2, <2>3, <2>4 DEF IInv, TypeOK
<1>7. CallsHaveOperations'
  BY <1>4 DEF IInv, TypeOK, CallsHaveOperations, Return
<1>8. WalletsSound'
  BY <1>1, <1>3, <1>4 DEF IInv, TypeOK, WalletsSound
<1>9. FreshIsCurrent'
  <2> SUFFICES ASSUME NEW d \in Clients, pc'[d] = "exec", d \notin touched'
               PROVE  /\ Outcome(wallets'[op'[d].owner], op'[d]) = OK
                      /\ fresh'[d] = Apply(wallets'[op'[d].owner], op'[d])
    BY DEF FreshIsCurrent, Key
  <2>1. d # c
    BY <1>4 DEF IInv, TypeOK, Return
  <2>2. pc[d] = "exec" /\ fresh'[d] = fresh[d] /\ op'[d] = op[d]
    BY <1>4, <2>1 DEF IInv, TypeOK, Return
  <2>3. d \notin touched /\ Key(d) # Key(c)
    BY <1>4, <2>1, <2>2 DEF Watching
  <2>4. wallets'[Key(d)] = wallets[Key(d)]
    BY <1>4, <2>3
  <2> QED BY <2>2, <2>3, <2>4 DEF IInv, FreshIsCurrent, Key
<1> QED BY <1>6, <1>7, <1>8, <1>9 DEF IInv

LEMMA LoseRaceStep ==
  ASSUME IInv, NEW c \in Clients, LoseRace(c)
  PROVE  IInv'
<1>1. CASE Return(c, "WatchError")
  BY <1>1, ReturnStep DEF LoseRace, Results
<1>2. CASE pc' = [pc EXCEPT ![c] = "watch"] /\ UNCHANGED <<fresh, tries, result>>
  <2> USE <1>2 DEF IInv, LoseRace
  <2>1. TypeOK'
    BY DEF TypeOK
  <2>2. CallsHaveOperations'
    BY DEF TypeOK, CallsHaveOperations
  <2>3. WalletsSound'
    BY DEF WalletsSound
  <2>4. FreshIsCurrent'
    BY QuietStep DEF TypeOK
  <2> QED BY <2>1, <2>2, <2>3, <2>4
<1> QED BY <1>1, <1>2 DEF LoseRace
LEMMA NextIInv == IInv /\ [Next]_vars => IInv'
<1> SUFFICES ASSUME IInv, [Next]_vars PROVE IInv'
  OBVIOUS
<1>1. CASE UNCHANGED vars
  <2>1. TypeOK' /\ CallsHaveOperations' /\ WalletsSound'
    BY <1>1 DEF vars, IInv, TypeOK, CallsHaveOperations, WalletsSound
  <2>2. FreshIsCurrent'
    BY <1>1 DEF vars, IInv, FreshIsCurrent, Key
  <2> QED BY <2>1, <2>2 DEF IInv
<1>2. ASSUME NEW c \in Clients, Call(c) PROVE IInv'
  BY <1>2, CallStep
<1>3. ASSUME NEW c \in Clients, Step(c) PROVE IInv'
  <2>1. CASE Watch(c)
    BY <2>1, WatchStep
  <2>2. CASE GiveUp(c)
    BY <2>2, ReturnStep DEF GiveUp, Results
  <2>3. CASE Get(c)
    BY <2>3, GetStep
  <2>4. CASE Exec(c)
    BY <2>4, ExecStep
  <2>5. CASE LoseRace(c)
    BY <2>5, LoseRaceStep
  <2> QED BY <1>3, <2>1, <2>2, <2>3, <2>4, <2>5 DEF Step
<1>4. ASSUME NEW c \in Clients, Abort(c) PROVE IInv'
  BY <1>4, ReturnStep DEF Abort, Results
<1>5. CASE Expire
  <2>1. mirrors' \in SUBSET mirrors /\ UNCHANGED <<wallets, pc, op, fresh, touched, tries, result>>
    BY <1>5 DEF Expire
  <2>2. TypeOK' /\ CallsHaveOperations' /\ WalletsSound'
    BY <2>1 DEF IInv, TypeOK, CallsHaveOperations, WalletsSound
  <2>3. FreshIsCurrent'
    BY <2>1 DEF IInv, FreshIsCurrent, Key
  <2> QED BY <2>2, <2>3 DEF IInv
<1> QED BY <1>1, <1>2, <1>3, <1>4, <1>5 DEF Next

-----------------------------------------------------------------------------
LEMMA IInvHolds == Spec => []IInv
BY InitIInv, NextIInv, PTL DEF Spec

(* The wallets, transactions and results of ahp/economy/wallet.py keep     *)
(* their types under every interleaving of clients.                        *)
THEOREM WalletTypeCorrect == Spec => []TypeOK
<1>1. IInv => TypeOK
  BY DEF IInv
<1> QED BY <1>1, IInvHolds, PTL

(* No interleaving of holds, settlements, refunds and topups, lost races,  *)
(* retries, aborts and lost replies makes a wallet negative or promises    *)
(* more than it has: held_total is the sum of the holds and at most the    *)
(* balance.                                                                *)
THEOREM WalletsStaySound == Spec => []WalletsSound
<1>1. IInv => WalletsSound
  BY DEF IInv
<1> QED BY <1>1, IInvHolds, PTL

(* A transaction that is about to commit commits its operation applied to  *)
(* the wallet as it is at that instant.                                    *)
THEOREM CommitsAreCurrent == Spec => []FreshIsCurrent
<1>1. IInv => FreshIsCurrent
  BY DEF IInv
<1> QED BY <1>1, IInvHolds, PTL

-----------------------------------------------------------------------------
(* Only EXEC opens or closes a hold, and it does so to the hold and its    *)
(* mirror together.                                                        *)
LEMMA ExecMirrors ==
  ASSUME IInv, MirrorsNameHolds, NEW c \in Clients, Exec(c)
  PROVE  MirrorsNameHolds'
<1> DEFINE key == Key(c)
           w == wallets[key]
           o == op[c]
<1>1. o \in Operations /\ key \in Owners
  BY OperationOwner DEF IInv, CallsHaveOperations, Exec, Key
<1>2. Outcome(w, o) = OK /\ fresh[c] = Apply(w, o)
  BY DEF IInv, FreshIsCurrent, Exec
<1>3. wallets' = [wallets EXCEPT ![key] = Apply(w, o)] /\ mirrors' = MirrorsAfter(o)
  BY <1>2 DEF Exec
<1>4. wallets'[key] = Apply(w, o) /\ \A x \in Owners : x # key => wallets'[x] = wallets[x]
  BY <1>1, <1>3 DEF IInv, TypeOK
<1> SUFFICES ASSUME NEW m \in mirrors' PROVE IsHeld(wallets'[m[1]], m[2])
  BY DEF MirrorsNameHolds
<1>5. m \in Owners \X HoldIds
  BY <1>1, <1>3 DEF MirrorsAfter, IInv, TypeOK, Operations, OperationsOn
<1>6. CASE m[1] # key
  <2>1. m \in mirrors
    BY <1>3, <1>6 DEF MirrorsAfter, Key
  <2> QED BY <1>4, <1>5, <1>6, <2>1 DEF MirrorsNameHolds
<1>7. CASE m[1] = key /\ o.kind = "hold"
  <2>1. wallets'[key] = ApplyHold(w, o.id, o.amount)
    BY <1>4, <1>7 DEF Apply
  <2>2. m \in mirrors \/ m = <<key, o.id>>
    BY <1>3, <1>7 DEF MirrorsAfter, Key
  <2>3. IsHeld(w, m[2]) \/ m[2] = o.id
    BY <1>7, <2>2 DEF MirrorsNameHolds
  <2>4. w = [balance |-> w.balance, held_total |-> w.held_total, holds |-> w.holds]
    BY <1>1 DEF IInv, TypeOK, IsWallet
  <2>5. ~IsHeld(w, o.id) => ApplyHold(w, o.id, o.amount).holds = With(w.holds, o.id, o.amount)
    BY <2>4 DEF ApplyHold
  <2> QED BY <1>7, <2>1, <2>3, <2>5 DEF ApplyHold, IsHeld, With
<1>8. CASE m[1] = key /\ o.kind \in {"settle", "refund"}
  <2>1. wallets'[key].holds = Without(w.holds, o.id)
    BY <1>4, <1>8 DEF Apply, ApplyRelease, ApplyRefund
  <2>2. m \in mirrors /\ m # <<key, o.id>>
    BY <1>3, <1>8 DEF MirrorsAfter, Key
  <2>3. IsHeld(w, m[2]) /\ m[2] # o.id
    BY <1>5, <1>8, <2>2 DEF MirrorsNameHolds
  <2> QED BY <1>8, <2>1, <2>3 DEF IsHeld, Without
<1>9. CASE m[1] = key /\ o.kind = "topup"
  <2>1. wallets'[key] = ApplyCredit(w, o.amount)
    BY <1>4, <1>9 DEF Apply
  <2>2. w = [balance |-> w.balance, held_total |-> w.held_total, holds |-> w.holds]
    BY <1>1 DEF IInv, TypeOK, IsWallet
  <2>3. ApplyCredit(w, o.amount).holds = w.holds
    BY <2>2 DEF ApplyCredit
  <2>4. m \in mirrors
    BY <1>3, <1>9 DEF MirrorsAfter
  <2> QED BY <1>9, <2>1, <2>3, <2>4 DEF MirrorsNameHolds, IsHeld
<1>10. o.kind \in {"hold", "settle", "refund", "topup"}
  BY <1>1 DEF Operations, OperationsOn
<1> QED BY <1>6, <1>7, <1>8, <1>9, <1>10

(* A live key ahp:hold:{owner}:{id} always names a hold that is open.      *)
THEOREM MirrorsStayHonest == Spec => []MirrorsNameHolds
<1>1. Init => MirrorsNameHolds
  BY DEF Init, MirrorsNameHolds
<1>2. IInv /\ MirrorsNameHolds /\ [Next]_vars => MirrorsNameHolds'
  <2> SUFFICES ASSUME IInv, MirrorsNameHolds, [Next]_vars PROVE MirrorsNameHolds'
    OBVIOUS
  <2>1. CASE UNCHANGED <<wallets, mirrors>>
    BY <2>1 DEF MirrorsNameHolds
  <2>2. CASE Expire
    BY <2>2 DEF Expire, MirrorsNameHolds
  <2>3. CASE \E c \in Clients : Exec(c)
    BY <2>3, ExecMirrors
  <2> QED BY <2>1, <2>2, <2>3 DEF Next, Step, vars, Call, Watch, GiveUp, Get, LoseRace, Abort
<1> QED BY <1>1, <1>2, IInvHolds, PTL DEF Spec
-----------------------------------------------------------------------------
(* The atomic wallet applies the same pure helpers. *)
LEMMA SameHelpers ==
  /\ \A w, o : Atomic!Outcome(w, o) = Outcome(w, o)
  /\ \A w, o : Atomic!Apply(w, o) = Apply(w, o)
  /\ Atomic!OperationsOn(Owners, HoldIds, Amounts) = Operations
  /\ Atomic!OK = OK
  /\ Atomic!FreshWallet = FreshWallet
  /\ Atomic!NoOperation = NoOperation
BY DEF Outcome, Apply, HoldOutcome, ApplyHold, ReleaseOutcome, ApplyRelease,
       RefundOutcome, ApplyRefund, ApplyCredit, IsHeld, Available, Operations,
       OperationsOn, OK, InsufficientFundsError, UnknownHoldError, ValueError,
       FreshWallet, NoCredits, With, Without, NoOperation,
       Atomic!Outcome, Atomic!Apply, Atomic!HoldOutcome, Atomic!ApplyHold,
       Atomic!ReleaseOutcome, Atomic!ApplyRelease, Atomic!RefundOutcome,
       Atomic!ApplyRefund, Atomic!ApplyCredit, Atomic!IsHeld, Atomic!Available,
       Atomic!OperationsOn, Atomic!OK, Atomic!InsufficientFundsError,
       Atomic!UnknownHoldError, Atomic!ValueError, Atomic!FreshWallet,
       Atomic!NoCredits, Atomic!With, Atomic!Without, Atomic!NoOperation

Busy == {c \in Clients : pc[c] # "idle"}

LEMMA InitImplements == Init => Atomic!Init
BY SameHelpers DEF Init, Atomic!Init

(* Calling, committing and failing map to their abstract namesakes; every  *)
(* other step of a transaction is invisible.                               *)
LEMMA CallImplements ==
  ASSUME IInv, NEW c \in Clients, Call(c)
  PROVE  Atomic!Call(c)
<1>1. Busy' = Busy \cup {c} /\ c \notin Busy
  BY DEF Busy, Call, IInv, TypeOK
<1> QED BY <1>1, SameHelpers DEF Call, Atomic!Call, Busy

LEMMA FailImplements ==
  ASSUME IInv, NEW c \in Clients, pc[c] # "idle", UNCHANGED <<wallets, op>>,
         NEW r \in {"RuntimeError", "WatchError", "Aborted"}, Return(c, r)
  PROVE  Atomic!Fail(c)
<1>1. Busy' = Busy \ {c} /\ c \in Busy
  BY DEF Busy, Return, IInv, TypeOK
<1> QED BY <1>1 DEF Return, Atomic!Fail, Atomic!Failures, Busy

LEMMA RejectImplements ==
  ASSUME IInv, NEW c \in Clients, pc[c] # "idle", UNCHANGED <<wallets, op>>,
         Outcome(wallets[Key(c)], op[c]) # OK,
         Return(c, Outcome(wallets[Key(c)], op[c]))
  PROVE  Atomic!Reject(c)
<1>1. Busy' = Busy \ {c} /\ c \in Busy
  BY DEF Busy, Return, IInv, TypeOK
<1> QED BY <1>1, SameHelpers DEF Return, Atomic!Reject, Busy, Key

LEMMA CommitImplements ==
  ASSUME IInv, NEW c \in Clients, Exec(c)
  PROVE  Atomic!Commit(c)
<1>1. Busy' = Busy \ {c} /\ c \in Busy
  BY DEF Busy, Exec, Return, IInv, TypeOK
<1>2. Outcome(wallets[Key(c)], op[c]) = OK /\ fresh[c] = Apply(wallets[Key(c)], op[c])
  BY DEF IInv, FreshIsCurrent, Exec
<1>3. wallets' = [wallets EXCEPT ![Key(c)] = Apply(wallets[Key(c)], op[c])]
  BY <1>2 DEF Exec
<1>4. \E r \in {OK, "Aborted"} : result' = [result EXCEPT ![c] = r]
  BY DEF Exec, Return
<1> QED BY <1>1, <1>2, <1>3, <1>4, SameHelpers DEF Atomic!Commit, Busy, Key, Exec

LEMMA NextImplements == IInv /\ [Next]_vars => [Atomic!Next]_(Atomic!vars)
<1> SUFFICES ASSUME IInv, [Next]_vars PROVE Atomic!Next \/ UNCHANGED Atomic!vars
  OBVIOUS
<1>1. CASE UNCHANGED <<wallets, op, result>> /\ Busy' = Busy
  BY <1>1 DEF Atomic!vars, Busy
<1>2. CASE UNCHANGED vars \/ Expire
  <2>1. UNCHANGED <<wallets, pc, op, result>>
    BY <1>2 DEF vars, Expire
  <2> QED BY <1>1, <2>1 DEF Busy
<1>3. ASSUME NEW c \in Clients, Call(c) PROVE Atomic!Next
  BY <1>3, CallImplements DEF Atomic!Next
<1>4. ASSUME NEW c \in Clients, Abort(c) PROVE Atomic!Next
  BY <1>4, FailImplements DEF Atomic!Next, Abort
<1>5. ASSUME NEW c \in Clients, Step(c) PROVE Atomic!Next \/ UNCHANGED Atomic!vars
  <2>1. CASE Watch(c)
    BY <1>1, <2>1 DEF Watch, Busy, IInv, TypeOK
  <2>2. CASE GiveUp(c)
    BY <2>2, FailImplements DEF GiveUp, Atomic!Next
  <2>3. CASE Get(c) /\ Outcome(wallets[Key(c)], op[c]) = OK
    <3>1. /\ pc' = [pc EXCEPT ![c] = "exec"]
          /\ pc[c] = "get"
          /\ UNCHANGED <<wallets, op, result>>
      BY <2>3 DEF Get
    <3>2. Busy' = Busy
      BY <3>1 DEF Busy, IInv, TypeOK
    <3> QED BY <1>1, <3>1, <3>2
  <2>4. CASE Get(c) /\ Outcome(wallets[Key(c)], op[c]) # OK
    BY <2>4, RejectImplements DEF Get, Atomic!Next
  <2>5. CASE Exec(c)
    BY <2>5, CommitImplements DEF Atomic!Next
  <2>6. CASE LoseRace(c) /\ Return(c, "WatchError")
    BY <2>6, FailImplements DEF LoseRace, Atomic!Next
  <2>7. CASE LoseRace(c) /\ pc' = [pc EXCEPT ![c] = "watch"] /\ UNCHANGED result
    BY <1>1, <2>7 DEF LoseRace, Busy, IInv, TypeOK
  <2> QED BY <1>5, <2>1, <2>2, <2>3, <2>4, <2>5, <2>6, <2>7 DEF Step, LoseRace
<1> QED BY <1>2, <1>3, <1>4, <1>5 DEF Next

(* The optimistic transactions of class Wallet implement the atomic        *)
(* wallet: every operation that reports success took effect exactly once,  *)
(* at one instant, on the wallet as it then was.                           *)
THEOREM WalletImplementsAtomicWallet == Spec => ImplementsAtomicWallet
BY InitImplements, NextImplements, IInvHolds, PTL DEF Spec, Atomic!Spec, ImplementsAtomicWallet
=============================================================================
