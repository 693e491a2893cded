------------------------------- MODULE Banker -------------------------------
(***************************************************************************)
(* The agent banker: it seeds a new agent's wallet from its host's or the  *)
(* commons', and returns what is left when the agent goes.  Each wallet    *)
(* operation is a step of its own, so other tasks run between the two      *)
(* halves of a transfer, and a task may be cancelled there.                *)
(***************************************************************************)
EXTENDS WalletState

CONSTANTS Addresses,   \* agents that may be funded
          lifecycle,   \* their lifecycle
          Host, COMMONS_WALLET,
          STARTING_FUND_BY_LIFECYCLE,
          Tasks,       \* tasks that use the banker, one transfer at a time
          Spendings,   \* bound of the model: calls the agents make themselves
          Cancellations \* bound of the model: transfers that are cut short

None == <<>>
Owners == Addresses \cup {Host, COMMONS_WALLET}
Lifecycles == {"session", "longterm", "ephemeral", "stale-ok"}
ASSUME BankerAssumption ==
    /\ IsFiniteSet(Addresses) /\ IsFiniteSet(Tasks)
    /\ None \notin Owners
    /\ Host \notin Addresses /\ COMMONS_WALLET \notin Addresses \cup {Host}
    /\ lifecycle \in [Addresses -> Lifecycles]
    /\ STARTING_FUND_BY_LIFECYCLE \in [Lifecycles -> Nat]
    /\ Spendings \in Nat /\ Cancellations \in Nat

VARIABLES wallets,  \* every wallet, as last written
          pay,      \* where each task's transfer is
          books     \* credits that left the wallets or came from nowhere

banker_vars == <<wallets, pay, books>>

NoPay == [at |-> "none"]
FundAmount(a) == STARTING_FUND_BY_LIFECYCLE[lifecycle[a]]

funding_source_for(a) == IF lifecycle[a] = "session" THEN Host ELSE COMMONS_WALLET
refund_destination_for(a) ==
    CASE lifecycle[a] = "longterm"  -> None
      [] lifecycle[a] = "ephemeral" -> COMMONS_WALLET
      [] OTHER                      -> Host

(* One operation on one wallet is a transaction that runs or raises. *)
Runs(owner, operation) ==
    /\ Outcome(wallets[owner], operation) = OK
    /\ wallets' = [wallets EXCEPT ![owner] = Apply(@, operation)]
Raises(owner, operation) == Outcome(wallets[owner], operation) # OK /\ UNCHANGED wallets

HoldFor(what, a, amount) == [kind |-> "hold", id |-> <<what, a>>, amount |-> amount]
SettleFor(what, a, amount) == [kind |-> "settle", id |-> <<what, a>>, amount |-> amount]
Topup(amount) == [kind |-> "topup", amount |-> amount]

At(p, where) == pay[p].at = where
Goes(p, where) == pay' = [pay EXCEPT ![p].at = where]

-----------------------------------------------------------------------------
(* fund_agent: a funder that has too little refuses before anything is     *)
(* written; the hold is named after the agent, so two tasks that fund one  *)
(* agent share it and the later one fails.                                 *)
FundAgent(p, a) ==
    /\ pay' = [pay EXCEPT ![p] = [at |-> "check", agent |-> a, amount |-> FundAmount(a)]]
    /\ UNCHANGED <<wallets, books>>

CheckFunder(p) ==
    /\ At(p, "check")
    /\ LET enough == Available(wallets[funding_source_for(pay[p].agent)]) >= pay[p].amount
       IN Goes(p, IF enough THEN "hold" ELSE "failed")
    /\ UNCHANGED <<wallets, books>>

(* A step on the funder's wallet that the task goes on from, or fails at. *)
FunderStep(p, from, to, operation) ==
    /\ At(p, from)
    /\ \/ Runs(funding_source_for(pay[p].agent), operation) /\ Goes(p, to)
       \/ Raises(funding_source_for(pay[p].agent), operation) /\ Goes(p, "failed")
    /\ UNCHANGED books

HoldFund(p) == FunderStep(p, "hold", "settle", HoldFor("fund", pay[p].agent, pay[p].amount))
SettleFund(p) == FunderStep(p, "settle", "topup", SettleFor("fund", pay[p].agent, pay[p].amount))

(* Mutant: the agent is given one credit more than was taken. *)
TopupOneMore(p) ==
    /\ At(p, "topup") /\ Goes(p, "paid")
    /\ Runs(pay[p].agent, Topup(pay[p].amount + 1))
    /\ UNCHANGED books

TopupAgent(p) ==
    /\ At(p, "topup") /\ Goes(p, "paid")
    /\ Runs(pay[p].agent, Topup(pay[p].amount))
    /\ UNCHANGED books

-----------------------------------------------------------------------------
(* drain_agent: the destination is given the balance that was read; only   *)
(* then the agent's wallet is held and settled, which fails when part of   *)
(* the balance is held by a call.  A longterm agent keeps its balance.     *)
DrainAgent(p, a) ==
    /\ refund_destination_for(a) # None
    /\ LET residual == wallets[a].balance IN
       pay' = [pay EXCEPT ![p] = [at |-> IF residual > 0 THEN "refund" ELSE "paid",
                                  agent |-> a, amount |-> residual]]
    /\ UNCHANGED <<wallets, books>>

RefundDestination(p) ==
    /\ At(p, "refund") /\ Goes(p, "empty")
    /\ Runs(refund_destination_for(pay[p].agent), Topup(pay[p].amount))
    /\ UNCHANGED books

HoldResidual(p) ==
    LET operation == HoldFor("drain", pay[p].agent, pay[p].amount) IN
    /\ At(p, "empty")
    /\ \/ Runs(pay[p].agent, operation) /\ Goes(p, "drain") /\ UNCHANGED books
       \/ /\ Raises(pay[p].agent, operation) /\ Goes(p, "failed")
          /\ books' = [books EXCEPT !.minted = @ + pay[p].amount]

SettleResidual(p) ==
    LET operation == SettleFor("drain", pay[p].agent, pay[p].amount) IN
    /\ At(p, "drain")
    /\ \/ /\ Runs(pay[p].agent, operation) /\ Goes(p, "paid")
          /\ UNCHANGED books
       \/ /\ Raises(pay[p].agent, operation) /\ Goes(p, "failed")
          /\ books' = [books EXCEPT !.minted = @ + pay[p].amount]

(* Credits between the two halves of a transfer: taken and not yet given,  *)
(* or given and not yet taken.                                             *)
InTransit(transfer) == IF transfer.at = "topup" THEN transfer.amount ELSE 0
GivenTwice(transfer) == IF transfer.at \in {"empty", "drain"} THEN transfer.amount ELSE 0

(* A task that is cancelled, or whose store fails, leaves what it did. *)
AbandonPay(p) ==
    /\ pay[p].at \notin {"none", "paid", "failed"} /\ Goes(p, "failed")
    /\ books.cut < Cancellations
    /\ books' = [books EXCEPT !.cut = @ + 1, !.lost = @ + InTransit(pay[p]),
                              !.minted = @ + GivenTwice(pay[p])]
    /\ UNCHANGED wallets

-----------------------------------------------------------------------------
(* An agent's own call holds and pays from its wallet meanwhile. *)
OpenCall(a) ==
    /\ books.calls < Spendings
    /\ Runs(a, HoldFor("call", a, 1))
    /\ ~IsHeld(wallets[a], <<"call", a>>)
    /\ books' = [books EXCEPT !.calls = @ + 1]
    /\ UNCHANGED pay
CloseCall(a) ==
    /\ \E price \in {0, 1} :
         /\ Runs(a, SettleFor("call", a, price))
         /\ books' = [books EXCEPT !.spent = @ + price]
    /\ UNCHANGED pay

(* A task begins a transfer, takes it a step further, or has seen it end. *)
Transfer(p) == At(p, "none") /\ \E a \in Addresses : FundAgent(p, a) \/ DrainAgent(p, a)
TransferStep(p) ==
    \/ CheckFunder(p) \/ HoldFund(p) \/ SettleFund(p) \/ TopupAgent(p)
    \/ RefundDestination(p) \/ HoldResidual(p) \/ SettleResidual(p) \/ AbandonPay(p)
TransferEnds(p) ==
    /\ pay[p].at \in {"paid", "failed"} /\ pay' = [pay EXCEPT ![p] = NoPay]
    /\ UNCHANGED <<wallets, books>>

BankerInit ==
    /\ wallets = [o \in Owners |-> FreshWallet]
    /\ pay = [p \in Tasks |-> NoPay]
    /\ books = [lost |-> 0, minted |-> 0, spent |-> 0, calls |-> 0, cut |-> 0]
BankerNext ==
    \/ \E p \in Tasks : Transfer(p) \/ TransferStep(p) \/ TransferEnds(p)
    \/ \E a \in Addresses : OpenCall(a) \/ CloseCall(a)
BankerSpec == BankerInit /\ [][BankerNext]_banker_vars

-----------------------------------------------------------------------------
(* A transfer is on foot with an agent and an amount, and whoever is to be *)
(* given the refund has a wallet.                                          *)
HoldIds == {"fund", "drain", "call"} \X Addresses
Places == {"check", "hold", "settle", "topup", "refund", "empty", "drain", "paid", "failed"}
IsTransfer(t) ==
    \/ t = NoPay
    \/ /\ t \in [at : Places, agent : Addresses, amount : Nat]
       /\ t.at = "refund" => refund_destination_for(t.agent) # None

BankerTypeOK ==
    /\ DOMAIN wallets = Owners /\ \A o \in Owners : IsWallet(wallets[o], HoldIds)
    /\ DOMAIN pay = Tasks /\ \A p \in Tasks : IsTransfer(pay[p])
    /\ books \in [lost : Nat, minted : Nat, spent : Nat, calls : Nat, cut : Nat]

(* Every wallet's books balance, whoever draws on it in whatever order. *)
PursesSound == \A o \in Owners : Sound(wallets[o])

-----------------------------------------------------------------------------
(* What the wallets hold together, and what the transfers have under way. *)
Initially == Total([o \in Owners |-> INITIAL_FUND])
Worth(ws) == Total([o \in Owners |-> ws[o].balance])
OnTheWay(ps) == Total([p \in Tasks |-> InTransit(ps[p])])
Advanced(ps) == Total([p \in Tasks |-> GivenTwice(ps[p])])

(* However transfers overlap, fail or stop half way, the wallets together  *)
(* hold what they began with, but for what is on its way, was spent, was   *)
(* lost in a transfer that stopped, or was given back without being taken. *)
CreditsAreTraced ==
    Worth(wallets) + OnTheWay(pay) + books.lost + books.spent
      = Initially + Advanced(pay) + books.minted

(* A drain that has ended took from the agent what it gave away. *)
DrainsMintNothing == books.minted = 0
=============================================================================
