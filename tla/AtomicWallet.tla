---------------------------- MODULE AtomicWallet ----------------------------
(***************************************************************************)
(* What ahp/economy/wallet.py promises: each hold, settle, refund or topup *)
(* takes effect at one instant on the wallet as it is at that instant, or  *)
(* not at all, and a call reported as successful did take effect once.     *)
(***************************************************************************)
EXTENDS WalletState

CONSTANTS Owners,    \* whoever has a wallet
          HoldIds,   \* the names a hold can have
          Amounts,   \* the amounts callers ask for
          Clients    \* coroutines that hold a Wallet handle

VARIABLES wallets,   \* [Owners -> wallet], the JSON under ahp:wallet:{owner}
          busy,      \* the clients that have a call under way
          op,        \* the call each client makes or made last
          result     \* how the last call of each client ended

vars == <<wallets, busy, op, result>>

(* Exceptions that say nothing about the wallet: retries exhausted, a lost *)
(* optimistic race surfacing as redis-py's WatchError, a dropped           *)
(* connection or a cancelled caller.                                       *)
Failures == {"RuntimeError", "WatchError", "Aborted"}
Results == {"none", OK, InsufficientFundsError, UnknownHoldError, ValueError}
             \cup Failures

Init ==
    /\ wallets = [o \in Owners |-> FreshWallet]
    /\ busy = {}
    /\ op = [c \in Clients |-> NoOperation]
    /\ result = [c \in Clients |-> "none"]

Call(c) ==
    /\ c \notin busy
    /\ \E o \in OperationsOn(Owners, HoldIds, Amounts) : op' = [op EXCEPT ![c] = o]
    /\ busy' = busy \cup {c}
    /\ result' = [result EXCEPT ![c] = "none"]
    /\ UNCHANGED wallets

(* The call takes effect; an Aborted caller never learns that it did. *)
Commit(c) ==
    LET o == op[c] IN
    /\ c \in busy
    /\ Outcome(wallets[o.owner], o) = OK
    /\ wallets' = [wallets EXCEPT ![o.owner] = Apply(@, o)]
    /\ \E r \in {OK, "Aborted"} : result' = [result EXCEPT ![c] = r]
    /\ busy' = busy \ {c}
    /\ UNCHANGED op

(* The call is refused for a reason that is true of the wallet now. *)
Reject(c) ==
    LET o == op[c] IN
    /\ c \in busy
    /\ Outcome(wallets[o.owner], o) # OK
    /\ result' = [result EXCEPT ![c] = Outcome(wallets[o.owner], o)]
    /\ busy' = busy \ {c}
    /\ UNCHANGED <<wallets, op>>

(* The call fails without effect. *)
Fail(c) ==
    /\ c \in busy
    /\ \E r \in Failures : result' = [result EXCEPT ![c] = r]
    /\ busy' = busy \ {c}
    /\ UNCHANGED <<wallets, op>>

Next == \E c \in Clients : Call(c) \/ Commit(c) \/ Reject(c) \/ Fail(c)

Spec == Init /\ [][Next]_vars
=============================================================================
