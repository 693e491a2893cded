---------------------------- MODULE WalletState ----------------------------
(***************************************************************************)
(* The pure layer of ahp/economy/wallet.py: one wallet as a record and the *)
(* apply_* helpers that compute its next state.  A helper that raises      *)
(* leaves the wallet alone, so each is split into the exception it raises  *)
(* (its outcome) and the state it returns.                                 *)
(*                                                                         *)
(* Amounts are whole credits; the 1e-9 tolerances of the code compare      *)
(* equal amounts here.  The audit history of a wallet is left out.         *)
(***************************************************************************)
EXTENDS Credits

CONSTANT INITIAL_FUND      \* credits a wallet that was never written reads as

ASSUME FundAssumption == INITIAL_FUND \in Nat

OK == "ok"
InsufficientFundsError == "InsufficientFundsError"
UnknownHoldError == "UnknownHoldError"
ValueError == "ValueError"

FreshWallet == [balance |-> INITIAL_FUND, held_total |-> 0, holds |-> NoCredits]

(* What from_json reads back: two numbers and a dict of amounts. *)
IsWallet(w, ids) ==
    /\ w = [balance |-> w.balance, held_total |-> w.held_total, holds |-> w.holds]
    /\ w.balance \in Int
    /\ w.held_total \in Int
    /\ w.holds \in [DOMAIN w.holds -> Nat]
    /\ DOMAIN w.holds \subseteq ids

Available(w) == w.balance - w.held_total
IsHeld(w, id) == id \in DOMAIN w.holds

-----------------------------------------------------------------------------
(* Mutant: a hold is checked against the balance, not what is available. *)
HoldOutcomeOnBalance(w, id, amount) ==
    IF IsHeld(w, id)
    THEN IF w.holds[id] = amount THEN OK ELSE ValueError
    ELSE IF w.balance < amount THEN InsufficientFundsError ELSE OK

(* apply_hold: the same id with the same amount is a no-op. *)
HoldOutcome(w, id, amount) ==
    IF IsHeld(w, id)
    THEN IF w.holds[id] = amount THEN OK ELSE ValueError
    ELSE IF Available(w) < amount THEN InsufficientFundsError ELSE OK

ApplyHold(w, id, amount) ==
    IF IsHeld(w, id)
    THEN w
    ELSE [w EXCEPT !.holds = With(@, id, amount), !.held_total = @ + amount]

(* Mutant: the debit is not capped by the hold. *)
ReleaseOutcomeUncapped(w, id, debit) == IF ~IsHeld(w, id) THEN UnknownHoldError ELSE OK

(* Mutant: the whole hold is debited, whatever the price. *)
ReleaseWholeHold(w, id, debit) ==
    [balance    |-> w.balance - w.holds[id],
     held_total |-> w.held_total - w.holds[id],
     holds      |-> Without(w.holds, id)]

(* apply_release: a hold pays at most what it reserved. *)
ReleaseOutcome(w, id, debit) ==
    IF ~IsHeld(w, id) THEN UnknownHoldError
    ELSE IF debit > w.holds[id] THEN InsufficientFundsError ELSE OK

ApplyRelease(w, id, debit) ==
    [balance    |-> w.balance - debit,
     held_total |-> w.held_total - w.holds[id],
     holds      |-> Without(w.holds, id)]

(* apply_refund: the hold goes, the balance stays. *)
RefundOutcome(w, id) == IF IsHeld(w, id) THEN OK ELSE UnknownHoldError

ApplyRefund(w, id) ==
    [balance    |-> w.balance,
     held_total |-> w.held_total - w.holds[id],
     holds      |-> Without(w.holds, id)]

(* apply_credit. *)
ApplyCredit(w, amount) == [w EXCEPT !.balance = @ + amount]

-----------------------------------------------------------------------------
(* The calls of class Wallet with their arguments, and the helper each     *)
(* one runs on the state it read.                                          *)
OperationsOn(owners, ids, amounts) ==
         [kind : {"hold", "settle"}, owner : owners, id : ids, amount : amounts]
    \cup [kind : {"refund"}, owner : owners, id : ids]
    \cup [kind : {"topup"}, owner : owners, amount : amounts]

NoOperation == [kind |-> "none"]

Outcome(w, o) ==
    CASE o.kind = "hold"   -> HoldOutcome(w, o.id, o.amount)
      [] o.kind = "settle" -> ReleaseOutcome(w, o.id, o.amount)
      [] o.kind = "refund" -> RefundOutcome(w, o.id)
      [] OTHER             -> OK

Apply(w, o) ==
    CASE o.kind = "hold"   -> ApplyHold(w, o.id, o.amount)
      [] o.kind = "settle" -> ApplyRelease(w, o.id, o.amount)
      [] o.kind = "refund" -> ApplyRefund(w, o.id)
      [] OTHER             -> ApplyCredit(w, o.amount)

-----------------------------------------------------------------------------
(* The books of one wallet balance: held_total is the sum of the           *)
(* outstanding holds, and the wallet can honour all of them at once.       *)
Sound(w) ==
    /\ w.held_total = Total(w.holds)
    /\ w.held_total <= w.balance
=============================================================================
