----------------------------- MODULE Broadcast -----------------------------
(***************************************************************************)
(* A CAST-GET with the economic plane switched on: the engine's            *)
(* _broker_cast_get holds credits for each target in turn, drops the ones  *)
(* its caller cannot afford, broadcasts, settles the answers one by one    *)
(* against the holds of the targets that gave them, and refunds the rest.  *)
(*                                                                         *)
(* Many such broadcasts of one caller share its wallet; a message that is  *)
(* sent again shares the reply channel and the hold ids of the first.  As  *)
(* in Settlement each wallet operation is one step.  What Broker.settle    *)
(* does after the debit (Settlement's Credit to Survey) is one step here.  *)
(***************************************************************************)
EXTENDS WalletState, Sequences

CONSTANTS Casts,          \* coroutines running _broker_cast_get for the caller
          Messages,       \* message ids
          Targets,        \* agent addresses
          MessageOf,      \* [Casts -> Messages]
          TargetsOf,      \* [Casts -> Seq(Targets)]: what the pattern resolved to
          HoldAmount,     \* [Casts -> [Targets -> Nat]]: estimate_hold
          Prices,         \* [Targets -> SUBSET Nat]: pre-tax prices of its answers
          MaxResponses,   \* [Casts -> Nat \cup {AllTargets}]
          AllTargets,     \* max_responses=None
          MaxFaults       \* bound of the model: Redis failures, crashes, cancellations

ASSUME BroadcastAssumption ==
    /\ IsFiniteSet(Casts) /\ IsFiniteSet(Messages) /\ IsFiniteSet(Targets)
    /\ MessageOf \in [Casts -> Messages]
    /\ TargetsOf \in [Casts -> Seq(Targets)]
    /\ HoldAmount \in [Casts -> [Targets -> Nat]]
    /\ Prices \in [Targets -> SUBSET Nat]
    /\ AllTargets \notin Nat
    /\ MaxResponses \in [Casts -> Nat \cup {AllTargets}]
    /\ MaxFaults \in Nat

VARIABLES wallet,        \* the caller's wallet
          pc,            \* where each broadcast is
          todo,          \* targets its current loop has still to visit
          owned,         \* targets whose org has a live server
          held,          \* the keys of its dict of holds
          deliverable,   \* targets the message goes to
          answers,       \* sources of the responses not yet looked at
          responded,     \* sources of the responses looked at
          faults,        \* failures so far
          charged        \* history: what it debited for each target

loop_vars == <<todo, owned, held, deliverable>>
reply_vars == <<answers, responded>>
vars == <<wallet, pc, todo, owned, held, deliverable, answers, responded, faults, charged>>

Done == {"returned", "raised", "stopped"}
Working == {"lookup", "hold", "refund_raise", "settle", "payout", "undo", "refund_silent"}

HoldIds == Messages \X Targets
HoldId(c, t) == <<MessageOf[c], t>>

TypeOK ==
    /\ IsWallet(wallet, HoldIds)
    /\ pc \in [Casts -> Working \cup Done]
    /\ todo \in [Casts -> Seq(Targets)]
    /\ owned \in [Casts -> SUBSET Targets]
    /\ held \in [Casts -> SUBSET Targets]
    /\ deliverable \in [Casts -> SUBSET Targets]
    /\ answers \in [Casts -> Seq(Targets)]
    /\ responded \in [Casts -> SUBSET Targets]
    /\ faults \in 0..MaxFaults
    /\ charged \in [Casts \X Targets -> Nat]

Init ==
    /\ wallet = FreshWallet
    /\ pc = [c \in Casts |-> "lookup"]
    /\ todo = [c \in Casts |-> <<>>]
    /\ owned = [c \in Casts |-> {}]
    /\ held = [c \in Casts |-> {}]
    /\ deliverable = [c \in Casts |-> {}]
    /\ answers = [c \in Casts |-> <<>>]
    /\ responded = [c \in Casts |-> {}]
    /\ faults = 0
    /\ charged = [ct \in Casts \X Targets |-> 0]

-----------------------------------------------------------------------------
Goto(c, next) == pc' = [pc EXCEPT ![c] = next]

(* An await inside broadcast c raises. *)
Fault(c, next) ==
    /\ faults < MaxFaults
    /\ faults' = faults + 1
    /\ Goto(c, next)

(* The await succeeds, or its effect stands but its reply is lost. *)
Succeed(c, next, failed) ==
    \/ Goto(c, next) /\ UNCHANGED faults
    \/ Fault(c, failed)

Visit(c) == todo' = [todo EXCEPT ![c] = TargetsOf[c]]
NextTarget(c) == todo' = [todo EXCEPT ![c] = Tail(@)]
NextAnswer(c) == answers' = [answers EXCEPT ![c] = Tail(@)]
Deliver(c, t) == deliverable' = [deliverable EXCEPT ![c] = @ \cup {t}]

(* servers.discover, compute.list_leaves: some targets have no live owning *)
(* server, and nobody bills for them.                                      *)
Lookup(c) ==
    /\ pc[c] = "lookup"
    /\ \/ /\ \E some \in SUBSET Targets : owned' = [owned EXCEPT ![c] = some]
          /\ Visit(c)
          /\ Goto(c, "hold")
          /\ UNCHANGED faults
       \/ Fault(c, "raised") /\ UNCHANGED <<todo, owned>>
    /\ UNCHANGED <<wallet, held, deliverable, reply_vars, charged>>

FreeTarget(c) ==
    /\ pc[c] = "hold" /\ todo[c] # <<>>
    /\ Head(todo[c]) \notin owned[c]
    /\ Deliver(c, Head(todo[c]))
    /\ NextTarget(c)
    /\ UNCHANGED <<wallet, pc, owned, held, reply_vars, faults, charged>>

(* Mutant: a target that cannot be held for is sent the message all the same. *)
HoldOrNot(c) ==
    LET t == Head(todo[c])
        id == HoldId(c, t)
        amount == HoldAmount[c][t]
    IN /\ pc[c] = "hold" /\ todo[c] # <<>> /\ t \in owned[c]
       /\ HoldOutcome(wallet, id, amount) \in {OK, InsufficientFundsError}
       /\ wallet' = IF HoldOutcome(wallet, id, amount) = OK
                    THEN ApplyHold(wallet, id, amount) ELSE wallet
       /\ held' = [held EXCEPT ![c] = @ \cup {t}]
       /\ Deliver(c, t)
       /\ NextTarget(c)
       /\ UNCHANGED <<pc, owned, reply_vars, faults, charged>>

(* Mutant: the hold is not recorded. *)
HoldUnrecorded(c) ==
    LET t == Head(todo[c])
        id == HoldId(c, t)
        amount == HoldAmount[c][t]
    IN /\ pc[c] = "hold" /\ todo[c] # <<>> /\ t \in owned[c]
       /\ \/ /\ HoldOutcome(wallet, id, amount) = OK
             /\ wallet' = ApplyHold(wallet, id, amount)
             /\ Deliver(c, t)
          \/ /\ HoldOutcome(wallet, id, amount) = InsufficientFundsError
             /\ UNCHANGED <<wallet, deliverable>>
       /\ NextTarget(c)
       /\ UNCHANGED <<pc, owned, held, reply_vars, faults, charged>>

(* broker.hold for the next target.  One the caller cannot afford is       *)
(* dropped; any other exception leaves at once, with the holds so far.     *)
Hold(c) ==
    LET t == Head(todo[c])
        id == HoldId(c, t)
        amount == HoldAmount[c][t]
    IN /\ pc[c] = "hold" /\ todo[c] # <<>> /\ t \in owned[c]
       /\ \/ /\ HoldOutcome(wallet, id, amount) = OK
             /\ wallet' = ApplyHold(wallet, id, amount)
             /\ held' = [held EXCEPT ![c] = @ \cup {t}]
             /\ Deliver(c, t)
             /\ NextTarget(c)
             /\ UNCHANGED <<pc, faults>>
          \/ /\ HoldOutcome(wallet, id, amount) = OK
             /\ wallet' = ApplyHold(wallet, id, amount)
             /\ Fault(c, "raised")
             /\ UNCHANGED <<todo, held, deliverable>>
          \/ /\ HoldOutcome(wallet, id, amount) = InsufficientFundsError
             /\ NextTarget(c)
             /\ UNCHANGED <<wallet, pc, held, deliverable, faults>>
          \/ /\ HoldOutcome(wallet, id, amount) = ValueError
             /\ Goto(c, "raised")
             /\ UNCHANGED <<wallet, todo, held, deliverable, faults>>
          \/ /\ Fault(c, "raised")
             /\ UNCHANGED <<wallet, todo, held, deliverable>>
       /\ UNCHANGED <<owned, reply_vars, charged>>

(* bus.cast_get collects replies until the timeout or the limit.  Its      *)
(* reply channel is the message's: a target may answer a broadcast that    *)
(* dropped it, or twice, when the message was sent twice.                  *)
Limit(c) == IF MaxResponses[c] = AllTargets
            THEN Cardinality(deliverable[c]) ELSE MaxResponses[c]

Dispatch(c) ==
    /\ pc[c] = "hold" /\ todo[c] = <<>>
    /\ \/ /\ deliverable[c] = {}
          /\ Goto(c, "returned")
          /\ UNCHANGED <<todo, answers>>
       \/ /\ deliverable[c] # {}
          /\ \E n \in 0..Limit(c) : \E replies \in [1..n -> Targets] :
               answers' = [answers EXCEPT ![c] = replies]
          /\ Goto(c, "settle")
          /\ UNCHANGED todo
       \/ /\ deliverable[c] # {}
          /\ Visit(c)
          /\ Goto(c, "refund_raise")
          /\ UNCHANGED answers
    /\ UNCHANGED <<wallet, owned, held, deliverable, responded, faults, charged>>

Answer(c) == Head(answers[c])
Settling(c) == pc[c] = "settle" /\ answers[c] # <<>>

(* Mutant: only second answers are skipped. *)
SkipSecondAnswer(c) ==
    /\ Settling(c)
    /\ Answer(c) \in responded[c]
    /\ NextAnswer(c)
    /\ UNCHANGED <<wallet, pc, loop_vars, responded, faults, charged>>

(* A second answer of a target is not billed, nor is one of a target that  *)
(* nothing is held for.                                                    *)
SkipAnswer(c) ==
    /\ Settling(c)
    /\ Answer(c) \in responded[c] \/ Answer(c) \notin held[c]
    /\ responded' = [responded EXCEPT ![c] = @ \cup {Answer(c)}]
    /\ NextAnswer(c)
    /\ UNCHANGED <<wallet, pc, loop_vars, faults, charged>>

(* Mutant: every answer is billed. *)
SettleEveryAnswer(c) ==
    LET t == Answer(c)
        id == HoldId(c, t)
    IN /\ Settling(c) /\ t \in held[c]
       /\ responded' = [responded EXCEPT ![c] = @ \cup {t}]
       /\ \E price \in Prices[t] :
            /\ wallet' = IF ReleaseOutcome(wallet, id, price) = OK
                         THEN ApplyRelease(wallet, id, price)
                         ELSE ApplyCredit(wallet, -price)
            /\ charged' = [charged EXCEPT ![<<c, t>>] = price]
       /\ Goto(c, "payout")
       /\ UNCHANGED <<loop_vars, answers, faults>>

(* Mutant: the responder is not remembered. *)
SettleForgetting(c) ==
    LET t == Answer(c)
        id == HoldId(c, t)
    IN /\ Settling(c) /\ t \in held[c] \ responded[c]
       /\ \E price \in Prices[t] :
            /\ ReleaseOutcome(wallet, id, price) = OK
            /\ wallet' = ApplyRelease(wallet, id, price)
            /\ charged' = [charged EXCEPT ![<<c, t>>] = price]
       /\ Goto(c, "payout")
       /\ UNCHANGED <<loop_vars, reply_vars, faults>>

(* calculate_and_settle against the target's hold, up to the debit. *)
Settle(c) ==
    LET t == Answer(c)
        id == HoldId(c, t)
    IN /\ Settling(c) /\ t \in held[c] \ responded[c]
       /\ responded' = [responded EXCEPT ![c] = @ \cup {t}]
       /\ \/ \E price \in Prices[t] :
               /\ ReleaseOutcome(wallet, id, price) = OK
               /\ wallet' = ApplyRelease(wallet, id, price)
               /\ charged' = [charged EXCEPT ![<<c, t>>] = price]
               /\ Succeed(c, "payout", "undo")
          \/ /\ \E price \in Prices[t] : ReleaseOutcome(wallet, id, price) # OK
             /\ Goto(c, "undo")
             /\ UNCHANGED <<wallet, charged, faults>>
          \/ /\ Fault(c, "undo")
             /\ UNCHANGED <<wallet, charged>>
       /\ UNCHANGED <<loop_vars, answers>>

(* The rest of calculate_and_settle: the shares, reputation, the survey. *)
PayOut(c) ==
    /\ pc[c] = "payout"
    /\ \/ Goto(c, "settle") /\ NextAnswer(c) /\ UNCHANGED faults
       \/ Fault(c, "undo") /\ UNCHANGED answers
    /\ UNCHANGED <<wallet, loop_vars, responded, charged>>

(* One refund whose exception is ignored. *)
RefundQuietly(id) ==
    \/ /\ RefundOutcome(wallet, id) = OK
       /\ wallet' = ApplyRefund(wallet, id)
       /\ UNCHANGED faults
    \/ /\ RefundOutcome(wallet, id) # OK
       /\ UNCHANGED <<wallet, faults>>
    \/ /\ faults < MaxFaults
       /\ faults' = faults + 1
       /\ UNCHANGED wallet

(* "cast_get settlement failed; refunding hold". *)
Undo(c) ==
    /\ pc[c] = "undo"
    /\ RefundQuietly(HoldId(c, Answer(c)))
    /\ Goto(c, "settle") /\ NextAnswer(c)
    /\ UNCHANGED <<loop_vars, responded, charged>>

(* Mutant: the targets that did not deliver an answer in time stay held. *)
EndOfAnswersAtOnce(c) ==
    /\ pc[c] = "settle" /\ answers[c] = <<>>
    /\ Goto(c, "returned")
    /\ UNCHANGED <<wallet, loop_vars, reply_vars, faults, charged>>

(* The holds of the targets that stayed silent are up for refund. *)
EndOfAnswers(c) ==
    /\ pc[c] = "settle" /\ answers[c] = <<>>
    /\ Visit(c)
    /\ Goto(c, "refund_silent")
    /\ UNCHANGED <<wallet, owned, held, deliverable, reply_vars, faults, charged>>

Due(c) == IF pc[c] = "refund_silent" THEN held[c] \ responded[c] ELSE held[c]

Refund(c) ==
    /\ pc[c] \in {"refund_silent", "refund_raise"} /\ todo[c] # <<>>
    /\ \/ /\ Head(todo[c]) \in Due(c)
          /\ RefundQuietly(HoldId(c, Head(todo[c])))
       \/ /\ Head(todo[c]) \notin Due(c)
          /\ UNCHANGED <<wallet, faults>>
    /\ NextTarget(c)
    /\ UNCHANGED <<pc, owned, held, deliverable, reply_vars, charged>>

Leave(c) ==
    /\ pc[c] \in {"refund_silent", "refund_raise"} /\ todo[c] = <<>>
    /\ Goto(c, IF pc[c] = "refund_silent" THEN "returned" ELSE "raised")
    /\ UNCHANGED <<wallet, loop_vars, reply_vars, faults, charged>>

(* The process dies, or the broadcast is cancelled. *)
Stop(c) ==
    /\ pc[c] \notin Done
    /\ Fault(c, "stopped")
    /\ UNCHANGED <<wallet, loop_vars, reply_vars, charged>>

Handle(c) ==
    \/ Lookup(c) \/ FreeTarget(c) \/ Hold(c) \/ Dispatch(c) \/ SkipAnswer(c) \/ Settle(c)
    \/ PayOut(c) \/ Undo(c) \/ EndOfAnswers(c) \/ Refund(c) \/ Leave(c)

Next == \E c \in Casts : Handle(c) \/ Stop(c)

Spec == Init /\ [][Next]_vars

(* The event loop resumes a coroutine whose await is over, and cast_get    *)
(* has a timeout.                                                          *)
FairSpec == Spec /\ \A c \in Casts : WF_vars(Handle(c))
-----------------------------------------------------------------------------
IsOpen(id) == IsHeld(wallet, id)
Twins(c) == {d \in Casts : MessageOf[d] = MessageOf[c]}
Over(c) == \A d \in Twins(c) : pc[d] \in Done

(* The wallet's books stay balanced however the holds, settlements and     *)
(* refunds of the broadcasts mix, and its balance is down by exactly what  *)
(* was debited: nothing else a broadcast does costs its caller a credit.   *)
WalletSound == Sound(wallet)
BalanceIsSpent == wallet.balance + Total(charged) = INITIAL_FUND

(* "A partial broadcast": the message goes out to a billed target only     *)
(* when the credits for its answer are reserved, whatever other broadcasts *)
(* take from or give back to the wallet during the loop.                   *)
DeliveredTargetsAreBacked ==
    \A c \in Casts :
      /\ pc[c] = "hold" /\ todo[c] = <<>> /\ Twins(c) = {c}
      => \A t \in deliverable[c] \cap owned[c] :
           IsOpen(HoldId(c, t)) /\ wallet.holds[HoldId(c, t)] = HoldAmount[c][t]

(* Without failures every hold of a broadcast is settled or refunded by    *)
(* the time the broadcasts of its message are over.                        *)
HoldsCloseWithBroadcasts ==
    \A c \in Casts : \A t \in Targets :
      faults = 0 /\ Over(c) => ~IsOpen(HoldId(c, t))

(* A broadcast sent once that returns has charged each target it held for  *)
(* and that answered, within the hold, and no other, if nothing failed.    *)
AnswersAreBilledOnce ==
    \A c \in Casts : \A t \in Targets :
      pc[c] = "returned" /\ faults = 0 /\ Twins(c) = {c} =>
        /\ charged[<<c, t>>] > 0 => t \in held[c] \cap responded[c]
        /\ /\ t \in held[c] \cap responded[c]
           /\ \A price \in Prices[t] : price \in 1..HoldAmount[c][t]
           => charged[<<c, t>>] > 0

(* Every broadcast comes back, even when its waits and refunds fail. *)
BroadcastsReturn == \A c \in Casts : <>(pc[c] \in Done)

(* Each answer of a broadcast is a call of its own under the escrow; what  *)
(* is paid out of a charge is Settlement's.                                *)
ThisEscrow == INSTANCE Escrow WITH
    Handlers   <- Casts \X Targets,
    Messages   <- HoldIds,
    MessageOf  <- [ct \in Casts \X Targets |-> HoldId(ct[1], ct[2])],
    HoldAmount <- [ct \in Casts \X Targets |-> HoldAmount[ct[1]][ct[2]]],
    reserve    <- wallet.holds,
    paid       <- [ct \in Casts \X Targets |-> 0]
ImplementsEscrow == ThisEscrow!Spec
=============================================================================
