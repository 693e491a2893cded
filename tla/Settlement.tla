----------------------------- MODULE Settlement -----------------------------
(***************************************************************************)
(* A SEND-GET with the economic plane switched on: the engine's            *)
(* _broker_send_get places a hold on the caller's wallet, dispatches the   *)
(* message over the bus, and refunds the hold or has the broker settle it, *)
(* which takes one wallet transaction per party.                           *)
(*                                                                         *)
(* Many such handlers run at once, in several processes, over the same     *)
(* wallets; a message that is sent again runs a second handler under the   *)
(* same hold id.  Each wallet operation is one step here (see Wallet, whose *)
(* transactions implement atomic ones); anything may happen between two.   *)
(***************************************************************************)
EXTENDS WalletState

CONSTANTS Handlers,     \* coroutines running _broker_send_get
          Messages,     \* message ids, hence hold ids
          Owners,       \* whoever has a wallet
          Broker, Commons,   \* the wallets the protocol tax goes to
          MessageOf,    \* [Handlers -> Messages]
          CallerOf,     \* [Messages -> Owners]: the message's source
          ServerOf,     \* [Handlers -> Owners]: the server it finds for the target's org
          ComputeOf,    \* [Handlers -> Owners]: provider of the best leaf, or the server
          HoldAmount,   \* [Handlers -> Nat]: estimate_hold, at that leaf's rate
          Bills,        \* [Handlers -> SUBSET Settlement]: what settle_payment may return
          SurveyThreshold,   \* AHP_SURVEY_STAKES_THRESHOLD
          MaxFaults     \* bound of the model: Redis failures, crashes, cancellations

ASSUME SettlementAssumption ==
    /\ IsFiniteSet(Handlers) /\ IsFiniteSet(Messages) /\ IsFiniteSet(Owners)
    /\ {Broker, Commons} \subseteq Owners
    /\ MessageOf \in [Handlers -> Messages]
    /\ CallerOf \in [Messages -> Owners]
    /\ ServerOf \in [Handlers -> Owners]
    /\ ComputeOf \in [Handlers -> Owners]
    /\ HoldAmount \in [Handlers -> Nat]
    /\ DOMAIN Bills = Handlers
    /\ SurveyThreshold \in Nat
    /\ MaxFaults \in Nat

(* pricing.Settlement: four shares that sum to the pre-tax price.  The     *)
(* server's is what the others leave, and may be negative.                 *)
ASSUME BillsAssumption ==
    \A h \in Handlers : \A s \in Bills[h] :
       /\ s = [pre_tax |-> s.pre_tax, server |-> s.server, compute |-> s.compute,
               broker |-> s.broker, commons |-> s.commons]
       /\ {s.pre_tax, s.compute, s.broker, s.commons} \subseteq Nat
       /\ s.server \in Int
       /\ s.pre_tax = s.server + s.compute + s.broker + s.commons

VARIABLES wallets,    \* [Owners -> wallet]
          mirrors,    \* messages whose key ahp:hold:{caller}:{id} is alive
          pc,         \* where each handler is
          bill,       \* the settlement each handler computed
          accepted,   \* completed_accepted of each server's reputation record
          seen,       \* the count a handler read before writing it back
          nudged,     \* handlers that moved their responder's reputation
          surveyed,   \* handlers that enqueued a survey of their caller
          faults,     \* failures so far
          charged,    \* history: what each handler debited from its caller
          paid        \* history: what it credited to the recipients

wallet_vars == <<wallets, mirrors>>
effects == <<accepted, seen, nudged, surveyed>>
history == <<charged, paid>>
vars == <<wallets, mirrors, pc, bill, accepted, seen, nudged, surveyed, faults, charged, paid>>

Positive(n) == IF n > 0 THEN n ELSE 0

NoBill == [pre_tax |-> 0, server |-> 0, compute |-> 0, broker |-> 0, commons |-> 0]

Shares == {"server", "compute", "broker", "commons"}
Done == {"returned", "none", "raised", "stopped"}
Working == {"lookup", "free", "hold", "dispatch", "refund_none", "refund_raise", "price",
            "debit", "read_rep", "write_rep", "nudge", "survey", "undo"} \cup Shares

Msg(h) == MessageOf[h]
Caller(h) == CallerOf[Msg(h)]
IsOpen(m) == IsHeld(wallets[CallerOf[m]], m)

Recipient(h, share) ==
    CASE share = "server"  -> ServerOf[h]
      [] share = "compute" -> ComputeOf[h]
      [] share = "broker"  -> Broker
      [] share = "commons" -> Commons

(* Mutant: the commons is forgotten. *)
AfterWithoutCommons(share) ==
    CASE share = "server"  -> "compute"
      [] share = "compute" -> "broker"
      [] share = "broker"  -> "read_rep"
      [] share = "commons" -> "read_rep"

(* The order Broker.settle credits the shares in, and what comes after. *)
After(share) ==
    CASE share = "server"  -> "compute"
      [] share = "compute" -> "broker"
      [] share = "broker"  -> "commons"
      [] share = "commons" -> "read_rep"

TypeOK ==
    /\ DOMAIN wallets = Owners /\ \A o \in Owners : IsWallet(wallets[o], Messages)
    /\ mirrors \in SUBSET Messages
    /\ pc \in [Handlers -> Working \cup Done]
    /\ DOMAIN bill = Handlers
    /\ \A h \in Handlers : bill[h] \in Bills[h] \cup {NoBill}
    /\ accepted \in [Owners -> Nat]
    /\ seen \in [Handlers -> Nat]
    /\ nudged \in SUBSET Handlers
    /\ surveyed \in SUBSET Handlers
    /\ faults \in 0..MaxFaults
    /\ charged \in [Handlers -> Nat]
    /\ paid \in [Handlers -> Nat]

Init ==
    /\ wallets = [o \in Owners |-> FreshWallet]
    /\ mirrors = {}
    /\ pc = [h \in Handlers |-> "lookup"]
    /\ bill = [h \in Handlers |-> NoBill]
    /\ accepted = [o \in Owners |-> 0]
    /\ seen = [h \in Handlers |-> 0]
    /\ nudged = {}
    /\ surveyed = {}
    /\ faults = 0
    /\ charged = [h \in Handlers |-> 0]
    /\ paid = [h \in Handlers |-> 0]

-----------------------------------------------------------------------------
Goto(h, next) == pc' = [pc EXCEPT ![h] = next]

(* An await inside handler h raises: the connection drops, or a lost race  *)
(* surfaces as WatchError or as exhausted retries.                         *)
Fault(h, next) ==
    /\ faults < MaxFaults
    /\ faults' = faults + 1
    /\ Goto(h, next)

(* The await succeeds, or its effect stands but its reply is lost. *)
Succeed(h, next, failed) ==
    \/ Goto(h, next) /\ UNCHANGED faults
    \/ Fault(h, failed)

SetWallet(o, w) == wallets' = [wallets EXCEPT ![o] = w]

(* servers.discover, then compute.list_leaves: without a live owning server *)
(* the dispatch is free of charge.                                         *)
Lookup(h) ==
    /\ pc[h] = "lookup"
    /\ \/ Goto(h, "hold") /\ UNCHANGED faults
       \/ Goto(h, "free") /\ UNCHANGED faults
       \/ Fault(h, "raised")
    /\ UNCHANGED <<wallets, mirrors, bill, effects, history>>

FreeDispatch(h) ==
    /\ pc[h] = "free"
    /\ \E end \in {"returned", "none", "raised"} : Goto(h, end)
    /\ UNCHANGED <<wallets, mirrors, bill, effects, faults, history>>

(* Mutant: wait for the funds. *)
PlaceHoldWaiting(h) ==
    LET w == wallets[Caller(h)]
        amount == HoldAmount[h]
    IN /\ pc[h] = "hold"
       /\ \/ /\ HoldOutcome(w, Msg(h), amount) = OK
             /\ SetWallet(Caller(h), ApplyHold(w, Msg(h), amount))
             /\ mirrors' = mirrors \cup {Msg(h)}
             /\ Succeed(h, "dispatch", "raised")
          \/ Fault(h, "raised") /\ UNCHANGED wallet_vars
       /\ UNCHANGED <<bill, effects, history>>

(* broker.hold; without the funds the caller gets None, and a message      *)
(* that is already held at another estimate raises.                        *)
PlaceHold(h) ==
    LET w == wallets[Caller(h)]
        amount == HoldAmount[h]
    IN /\ pc[h] = "hold"
       /\ \/ /\ HoldOutcome(w, Msg(h), amount) = OK
             /\ SetWallet(Caller(h), ApplyHold(w, Msg(h), amount))
             /\ mirrors' = mirrors \cup {Msg(h)}
             /\ Succeed(h, "dispatch", "raised")
          \/ /\ HoldOutcome(w, Msg(h), amount) = InsufficientFundsError
             /\ Goto(h, "none")
             /\ UNCHANGED <<wallets, mirrors, faults>>
          \/ /\ HoldOutcome(w, Msg(h), amount) = ValueError
             /\ Goto(h, "raised")
             /\ UNCHANGED <<wallets, mirrors, faults>>
          \/ Fault(h, "raised") /\ UNCHANGED wallet_vars
       /\ UNCHANGED <<bill, effects, history>>

(* Mutant: a timeout returns None before the refund. *)
DispatchForgettingNone(h) ==
    /\ pc[h] = "dispatch"
    /\ \E next \in {"price", "none", "refund_raise"} : Goto(h, next)
    /\ UNCHANGED <<wallets, mirrors, bill, effects, faults, history>>

(* bus.send_get answers, times out, or raises. *)
Dispatch(h) ==
    /\ pc[h] = "dispatch"
    /\ \E next \in {"price", "refund_none", "refund_raise"} : Goto(h, next)
    /\ UNCHANGED <<wallets, mirrors, bill, effects, faults, history>>

(* Mutant: the refund credits a balance that was never debited. *)
RefundOfPayment(h) ==
    LET w == wallets[Caller(h)]
    IN /\ pc[h] \in {"refund_none", "refund_raise"}
       /\ RefundOutcome(w, Msg(h)) = OK
       /\ SetWallet(Caller(h), ApplyCredit(ApplyRefund(w, Msg(h)), HoldAmount[h]))
       /\ mirrors' = mirrors \ {Msg(h)}
       /\ Succeed(h, IF pc[h] = "refund_none" THEN "none" ELSE "raised", "raised")
       /\ UNCHANGED <<bill, effects, history>>

(* Without an answer the hold is refunded, and None returned or the        *)
(* exception raised again; a refund that raises replaces either.           *)
Refund(h) ==
    LET w == wallets[Caller(h)]
    IN /\ pc[h] \in {"refund_none", "refund_raise"}
       /\ \/ /\ RefundOutcome(w, Msg(h)) = OK
             /\ SetWallet(Caller(h), ApplyRefund(w, Msg(h)))
             /\ mirrors' = mirrors \ {Msg(h)}
             /\ Succeed(h, IF pc[h] = "refund_none" THEN "none" ELSE "raised", "raised")
          \/ /\ RefundOutcome(w, Msg(h)) # OK
             /\ Goto(h, "raised")
             /\ UNCHANGED <<wallets, mirrors, faults>>
          \/ Fault(h, "raised") /\ UNCHANGED wallet_vars
       /\ UNCHANGED <<bill, effects, history>>

(* calculate_and_settle: get_reputation, then settle_payment. *)
Price(h) ==
    /\ pc[h] = "price"
    /\ \/ \E s \in Bills[h] :
            bill' = [bill EXCEPT ![h] = s] /\ Goto(h, "debit") /\ UNCHANGED faults
       \/ Fault(h, "undo") /\ UNCHANGED bill
    /\ UNCHANGED <<wallets, mirrors, effects, history>>

(* Broker.settle, 1: release the hold by debiting the price. *)
Debit(h) ==
    LET w == wallets[Caller(h)]
        price == bill[h].pre_tax
    IN /\ pc[h] = "debit"
       /\ \/ /\ ReleaseOutcome(w, Msg(h), price) = OK
             /\ SetWallet(Caller(h), ApplyRelease(w, Msg(h), price))
             /\ mirrors' = mirrors \ {Msg(h)}
             /\ charged' = [charged EXCEPT ![h] = price]
             /\ Succeed(h, "server", "undo")
          \/ /\ ReleaseOutcome(w, Msg(h), price) # OK
             /\ Goto(h, "undo")
             /\ UNCHANGED <<wallets, mirrors, faults, charged>>
          \/ Fault(h, "undo") /\ UNCHANGED <<wallets, mirrors, charged>>
       /\ UNCHANGED <<bill, effects, paid>>

(* Mutant: a share is credited again when its reply was lost. *)
CreditUntilConfirmed(h) ==
    LET share == pc[h]
        amount == bill[h][share]
        owner == Recipient(h, share)
    IN /\ share \in Shares
       /\ SetWallet(owner, ApplyCredit(wallets[owner], amount))
       /\ paid' = [paid EXCEPT ![h] = @ + amount]
       /\ Succeed(h, After(share), share)
       /\ UNCHANGED <<mirrors, bill, effects, charged>>

(* Broker.settle, 2 to 4: credit one share; nothing is due for a share     *)
(* that is not positive.                                                   *)
Credit(h) ==
    LET share == pc[h]
        amount == bill[h][share]
        owner == Recipient(h, share)
    IN /\ share \in Shares
       /\ \/ /\ amount > 0
             /\ SetWallet(owner, ApplyCredit(wallets[owner], amount))
             /\ paid' = [paid EXCEPT ![h] = @ + amount]
             /\ Succeed(h, After(share), "undo")
          \/ /\ amount <= 0
             /\ Goto(h, After(share))
             /\ UNCHANGED <<wallets, faults, paid>>
          \/ /\ amount > 0
             /\ Fault(h, "undo")
             /\ UNCHANGED <<wallets, paid>>
       /\ UNCHANGED <<mirrors, bill, effects, charged>>

(* record_outcome: GET the record, count the call, SET it. *)
ReadReputation(h) ==
    /\ pc[h] = "read_rep"
    /\ \/ /\ seen' = [seen EXCEPT ![h] = accepted[ServerOf[h]]]
          /\ Goto(h, "write_rep")
          /\ UNCHANGED faults
       \/ Fault(h, "undo") /\ UNCHANGED seen
    /\ UNCHANGED <<wallets, mirrors, bill, accepted, nudged, surveyed, history>>

WriteReputation(h) ==
    /\ pc[h] = "write_rep"
    /\ \/ /\ accepted' = [accepted EXCEPT ![ServerOf[h]] = seen[h] + 1]
          /\ Succeed(h, "nudge", "undo")
       \/ Fault(h, "undo") /\ UNCHANGED accepted
    /\ UNCHANGED <<wallets, mirrors, bill, seen, nudged, surveyed, history>>

(* registry.update_reputation for the responder; its errors are logged. *)
Nudge(h) ==
    /\ pc[h] = "nudge"
    /\ nudged' \in {nudged, nudged \cup {h}}
    /\ Goto(h, "survey")
    /\ UNCHANGED <<wallets, mirrors, bill, accepted, seen, surveyed, faults, history>>

(* _maybe_request_survey: the stakes must warrant it and the server must   *)
(* have opted in; its errors are logged.                                   *)
Survey(h) ==
    /\ pc[h] = "survey"
    /\ \/ UNCHANGED surveyed
       \/ bill[h].pre_tax >= SurveyThreshold /\ surveyed' = surveyed \cup {h}
    /\ Goto(h, "returned")
    /\ UNCHANGED <<wallets, mirrors, bill, accepted, seen, nudged, faults, history>>

(* "broker settlement failed; refunding hold": whatever the refund does,   *)
(* the response is returned.                                               *)
Undo(h) ==
    LET w == wallets[Caller(h)]
    IN /\ pc[h] = "undo"
       /\ \/ /\ RefundOutcome(w, Msg(h)) = OK
             /\ SetWallet(Caller(h), ApplyRefund(w, Msg(h)))
             /\ mirrors' = mirrors \ {Msg(h)}
             /\ Succeed(h, "returned", "returned")
          \/ /\ RefundOutcome(w, Msg(h)) # OK
             /\ Goto(h, "returned")
             /\ UNCHANGED <<wallets, mirrors, faults>>
          \/ Fault(h, "returned") /\ UNCHANGED wallet_vars
       /\ UNCHANGED <<bill, effects, history>>

(* The process dies, or the handler is cancelled: CancelledError is not an *)
(* Exception, so no except clause of the engine runs.                      *)
Stop(h) ==
    /\ pc[h] \notin Done
    /\ Fault(h, "stopped")
    /\ UNCHANGED <<wallets, mirrors, bill, effects, history>>

(* HOLD_TTL_SECONDS pass. *)
ExpireMirror(m) ==
    /\ m \in mirrors
    /\ mirrors' = mirrors \ {m}
    /\ UNCHANGED <<wallets, pc, bill, effects, faults, history>>

Handle(h) ==
    \/ Lookup(h) \/ FreeDispatch(h) \/ PlaceHold(h) \/ Dispatch(h) \/ Refund(h)
    \/ Price(h) \/ Debit(h) \/ Credit(h) \/ ReadReputation(h) \/ WriteReputation(h)
    \/ Nudge(h) \/ Survey(h) \/ Undo(h)

Next ==
    \/ \E h \in Handlers : Handle(h) \/ Stop(h)
    \/ \E m \in Messages : ExpireMirror(m)

Spec == Init /\ [][Next]_vars

(* The event loop resumes a coroutine whose await is over, send_get has a  *)
(* timeout, and Redis expires keys.                                        *)
FairSpec ==
    /\ Spec
    /\ \A h \in Handlers : WF_vars(Handle(h))
    /\ \A m \in Messages : WF_vars(ExpireMirror(m))
-----------------------------------------------------------------------------
(* Every wallet stays sound whatever the calls do to it together: no       *)
(* balance is negative and every outstanding hold is covered.              *)
WalletsSound == \A o \in Owners : Sound(wallets[o])

(* What there is in all wallets, and what there was at the start.          *)
Balances == [o \in Owners |-> wallets[o].balance]
Endowment == Total([o \in Owners |-> INITIAL_FUND])

(* Credits are only moved: what callers were charged and recipients were   *)
(* not paid is all that is missing from the wallets, and nothing was added *)
(* that no caller was charged, at every step of every interleaving and     *)
(* after any failure.                                                      *)
CreditsConserved == Total(Balances) + Total(charged) = Endowment + Total(paid)

(* The recipients of a call never receive more than its caller was charged *)
(* (when no leaf costs more than the call earns).                          *)
NoCreditsMinted == \A h \in Handlers : paid[h] <= charged[h]

(* A call that _broker_send_get ends with None or an exception was not     *)
(* charged for.                                                            *)
ChargedOnlyIfAnswered ==
    \A h \in Handlers : pc[h] \in {"none", "raised"} => charged[h] = 0

(* What a bill pays out: its shares, save those that are not positive.     *)
Payout(b) == Positive(b.server) + b.compute + b.broker + b.commons

(* Reputation and surveys follow the money: the responder is only nudged,  *)
(* and the caller only asked for a survey, for an answered call whose      *)
(* price was debited in full and whose every share was credited, whatever  *)
(* failed around it.                                                       *)
RewardsFollowPayment ==
    \A h \in nudged \cup surveyed :
      /\ pc[h] \in {"survey", "returned", "stopped"}
      /\ charged[h] = bill[h].pre_tax
      /\ paid[h] = Payout(bill[h])

Twins(h) == {g \in Handlers : Msg(g) = Msg(h)}

(* If nothing failed, no hold outlives the handlers of its message: every  *)
(* way out of the handler has settled or refunded it.                      *)
HoldsCloseWithHandlers ==
    \A h \in Handlers :
      faults = 0 /\ (\A g \in Twins(h) : pc[g] \in Done) => ~IsOpen(Msg(h))

(* An answer that the engine returns without having charged for it: its    *)
(* price turned out above the hold, or another handler of the same message *)
(* had closed their common hold.                                           *)
IsFree(h) == bill[h] = NoBill \/ bill[h].pre_tax > HoldAmount[h] \/ Twins(h) # {h}

(* A caller that earns nothing pays whole prices or nothing: its wallet is *)
(* down by exactly the prices of some of its calls, at every step and      *)
(* whatever fails.  A call that ended without an answer is not among them; *)
(* and if nothing failed, every answer is, save the free ones.             *)
CallersPayWhatTheyOwe ==
    \A m \in Messages :
      LET caller == CallerOf[m]
          mine == {h \in Handlers : Caller(h) = caller}
      IN caller \notin {Recipient(h, s) : h \in Handlers, s \in Shares} =>
           \E settled \in SUBSET mine :
             /\ wallets[caller].balance =
                  INITIAL_FUND - Total([h \in settled |-> bill[h].pre_tax])
             /\ \A h \in settled : pc[h] \notin {"none", "raised"}
             /\ \A h \in mine \ settled :
                  faults = 0 /\ pc[h] = "returned" => IsFree(h)

(* An answer within the hold, to a message sent once, is charged and paid  *)
(* in full by the time it is returned, if nothing failed.                  *)
AnswersArePaidFor ==
    \A h \in Handlers :
      /\ pc[h] = "returned" /\ bill[h] # NoBill
      /\ faults = 0 /\ Twins(h) = {h} /\ bill[h].pre_tax <= HoldAmount[h]
      => charged[h] = bill[h].pre_tax /\ paid[h] = charged[h]

(* Every call comes back, answered or not.                                 *)
CallsReturn == \A h \in Handlers : <>(pc[h] \in Done)

(* What the settlement promises about holds, charges and payouts.          *)
Reserve == [m \in {m \in Messages : IsOpen(m)} |-> wallets[CallerOf[m]].holds[m]]
ThisEscrow == INSTANCE Escrow WITH reserve <- Reserve
ImplementsEscrow == ThisEscrow!Spec
=============================================================================
