------------------------------- MODULE Wallet -------------------------------
(***************************************************************************)
(* Class Wallet of ahp/economy/wallet.py over Redis: every operation is    *)
(* an optimistic transaction,                                              *)
(*     WATCH key; GET key; apply_*; MULTI; SET key [; SETEX/DEL mirror];   *)
(*     EXEC                                                                *)
(* in a loop of Retries rounds.  Any number of coroutines, of any number   *)
(* of processes, do this on the same keys; each arrow above may be         *)
(* followed by a step of another.                                          *)
(***************************************************************************)
EXTENDS WalletState

CONSTANTS Owners,      \* whoever has a wallet
          HoldIds,     \* the names a hold can have
          Amounts,     \* the amounts callers ask for
          Clients,     \* coroutines that hold a Wallet handle
          Retries,     \* rounds of the retry loop (8 in the code)
          BalanceCap   \* bound of the model: no topup is asked for beyond it

ASSUME WalletAssumption ==
    /\ Amounts \subseteq Nat
    /\ Retries \in Nat \ {0}
    /\ IsFiniteSet(HoldIds)

VARIABLES wallets,   \* [Owners -> wallet]: the JSON under ahp:wallet:{owner}
          mirrors,   \* <<owner, id>> of the live keys ahp:hold:{owner}:{id}
          pc,        \* where each client is in its call
          op,        \* the call each client makes or made last
          fresh,     \* the state it computed from its GET, about to be SET
          touched,   \* clients whose WATCHed key was written since the WATCH
          tries,     \* rounds each client has left
          result     \* how the last call of each client ended

vars == <<wallets, mirrors, pc, op, fresh, touched, tries, result>>

Atomic == INSTANCE AtomicWallet WITH busy <- {c \in Clients : pc[c] # "idle"}

(* How a call ends: with a state, with an exception of the pure helper, or *)
(* with one that says nothing about the wallet (retries exhausted, a lost  *)
(* race, a dropped connection or a cancelled caller).                      *)
Results == {"none", OK, InsufficientFundsError, UnknownHoldError, ValueError,
            "RuntimeError", "WatchError", "Aborted"}

Operations == OperationsOn(Owners, HoldIds, Amounts)
Key(c) == op[c].owner

TypeOK ==
    /\ DOMAIN wallets = Owners /\ \A o \in Owners : IsWallet(wallets[o], HoldIds)
    /\ mirrors \in SUBSET (Owners \X HoldIds)
    /\ pc \in [Clients -> {"idle", "watch", "get", "exec"}]
    /\ op \in [Clients -> Operations \cup {NoOperation}]
    /\ DOMAIN fresh = Clients /\ \A c \in Clients : IsWallet(fresh[c], HoldIds)
    /\ touched \in SUBSET Clients
    /\ tries \in [Clients -> 0..Retries]
    /\ result \in [Clients -> Results]

Init ==
    /\ wallets = [o \in Owners |-> FreshWallet]
    /\ mirrors = {}
    /\ pc = [c \in Clients |-> "idle"]
    /\ op = [c \in Clients |-> NoOperation]
    /\ fresh = [c \in Clients |-> FreshWallet]
    /\ touched = {}
    /\ tries = [c \in Clients |-> 0]
    /\ result = [c \in Clients |-> "none"]

-----------------------------------------------------------------------------
(* A coroutine calls hold, settle_against_hold, refund or topup. *)
Call(c) ==
    /\ pc[c] = "idle"
    /\ \E o \in Operations :
         /\ o.kind = "topup" => wallets[o.owner].balance + o.amount <= BalanceCap
         /\ op' = [op EXCEPT ![c] = o]
    /\ pc' = [pc EXCEPT ![c] = "watch"]
    /\ tries' = [tries EXCEPT ![c] = Retries]
    /\ result' = [result EXCEPT ![c] = "none"]
    /\ UNCHANGED <<wallets, mirrors, fresh, touched>>

(* The call ends; a stale computed state is forgotten. *)
Return(c, r) ==
    /\ pc' = [pc EXCEPT ![c] = "idle"]
    /\ result' = [result EXCEPT ![c] = r]
    /\ fresh' = [fresh EXCEPT ![c] = FreshWallet]
    /\ tries' = [tries EXCEPT ![c] = 0]

(* Next round of the loop: a new pipeline WATCHes the key. *)
Watch(c) ==
    /\ pc[c] = "watch"
    /\ tries[c] > 0
    /\ pc' = [pc EXCEPT ![c] = "get"]
    /\ tries' = [tries EXCEPT ![c] = @ - 1]
    /\ UNCHANGED <<wallets, mirrors, op, fresh, touched, result>>

(* The loop is over: RuntimeError("... retries exhausted"). *)
GiveUp(c) ==
    /\ pc[c] = "watch"
    /\ tries[c] = 0
    /\ Return(c, "RuntimeError")
    /\ UNCHANGED <<wallets, mirrors, op, touched>>

(* GET, then the pure helper, which may raise; leaving the pipeline's      *)
(* context UNWATCHes.                                                      *)
Get(c) ==
    LET w == wallets[Key(c)]
        outcome == Outcome(w, op[c])
    IN /\ pc[c] = "get"
       /\ \/ /\ outcome = OK
             /\ fresh' = [fresh EXCEPT ![c] = Apply(w, op[c])]
             /\ pc' = [pc EXCEPT ![c] = "exec"]
             /\ UNCHANGED <<tries, result, touched>>
          \/ /\ outcome # OK
             /\ Return(c, outcome)
             /\ touched' = touched \ {c}
       /\ UNCHANGED <<wallets, mirrors, op>>

(* The coroutines that WATCH a key now. *)
Watching(key) == {d \in Clients : pc[d] \in {"get", "exec"} /\ Key(d) = key}

(* Mutant: the mirror is left to its TTL. *)
MirrorsKept(o) == IF o.kind = "hold" THEN mirrors \cup {<<o.owner, o.id>>} ELSE mirrors

(* What the MULTI block does to the mirror of the hold. *)
MirrorsAfter(o) ==
    CASE o.kind = "hold"  -> mirrors \cup {<<o.owner, o.id>>}
      [] o.kind = "topup" -> mirrors
      [] OTHER            -> mirrors \ {<<o.owner, o.id>>}

(* Mutant: MULTI/EXEC without the optimistic check. *)
ExecUnconditionally(c) ==
    /\ pc[c] = "exec"
    /\ wallets' = [wallets EXCEPT ![Key(c)] = fresh[c]]
    /\ mirrors' = MirrorsAfter(op[c])
    /\ touched' = touched \cup (Watching(Key(c)) \ {c})
    /\ \/ Return(c, OK)
       \/ Return(c, "Aborted")
    /\ UNCHANGED op

(* EXEC on an untouched key: both writes happen at once, and whoever else  *)
(* watches the key will lose its race.                                     *)
Exec(c) ==
    /\ pc[c] = "exec"
    /\ c \notin touched
    /\ wallets' = [wallets EXCEPT ![Key(c)] = fresh[c]]
    /\ mirrors' = MirrorsAfter(op[c])
    /\ touched' = touched \cup (Watching(Key(c)) \ {c})
    /\ \/ Return(c, OK)
       \/ Return(c, "Aborted")     \* the reply is lost
    /\ UNCHANGED op

(* EXEC on a touched key does nothing.  The code reads a null reply as     *)
(* "try again"; redis-py itself raises WatchError.                         *)
LoseRace(c) ==
    /\ pc[c] = "exec"
    /\ c \in touched
    /\ touched' = touched \ {c}
    /\ \/ /\ pc' = [pc EXCEPT ![c] = "watch"]
          /\ UNCHANGED <<fresh, tries, result>>
       \/ Return(c, "WatchError")
    /\ UNCHANGED <<wallets, mirrors, op>>

(* Cancelled, or the connection drops, before EXEC reached the server. *)
Abort(c) ==
    /\ pc[c] # "idle"
    /\ Return(c, "Aborted")
    /\ touched' = touched \ {c}
    /\ UNCHANGED <<wallets, mirrors, op>>

(* HOLD_TTL_SECONDS after the SETEX, Redis drops the mirror key. *)
Expire ==
    /\ \E m \in mirrors : mirrors' = mirrors \ {m}
    /\ UNCHANGED <<wallets, pc, op, fresh, touched, tries, result>>

Step(c) == Watch(c) \/ GiveUp(c) \/ Get(c) \/ Exec(c) \/ LoseRace(c)

Next == (\E c \in Clients : Call(c) \/ Step(c) \/ Abort(c)) \/ Expire

Spec == Init /\ [][Next]_vars

-----------------------------------------------------------------------------
(* The module docstring's promise, whatever the interleaving: no wallet    *)
(* goes negative, even if every outstanding hold is settled in full, and   *)
(* held_total agrees with the dict of holds it summarises.                 *)
WalletsSound == \A o \in Owners : Sound(wallets[o])

(* The mirror key of a hold is written and deleted in the transaction that *)
(* opens and closes the hold, so a live mirror always names a hold that is *)
(* open: a scan of ahp:hold:* finds no phantom.                            *)
MirrorsNameHolds == \A m \in mirrors : IsHeld(wallets[m[1]], m[2])

(* A client about to EXEC on a key nobody touched is about to write the    *)
(* state its operation leads to from the wallet as it still is: what makes *)
(* the optimistic transaction atomic.                                      *)
FreshIsCurrent ==
    \A c \in Clients :
      pc[c] = "exec" /\ c \notin touched =>
        /\ Outcome(wallets[Key(c)], op[c]) = OK
        /\ fresh[c] = Apply(wallets[Key(c)], op[c])

(* No update is lost and none is applied twice: the optimistic             *)
(* transactions implement the atomic wallet.                               *)
ImplementsAtomicWallet == Atomic!Spec
=============================================================================
