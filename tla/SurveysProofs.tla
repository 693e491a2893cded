---------------------------- MODULE SurveysProofs ----------------------------
(***************************************************************************)
(* What TLAPS proves of Surveys, for any number of surveys, enqueues,      *)
(* sweeps, votes and failures.  The books of the commons follow from the   *)
(* three moves a vote can make; that a reward is paid once needs to know,  *)
(* for each place a vote can be at, whose response is on file and what was *)
(* debited and credited by then.  The theorems on the queue need what each *)
(* enqueue, sweep and vote under way knows of it.                          *)
(***************************************************************************)
EXTENDS Surveys, WalletStateProofs, TLAPS

ControlTyped ==
    /\ RecordsTyped /\ SweepsTyped
    /\ rated \in SUBSET Voters
    /\ phase \in [Surveys -> {"early", "due", "expired"}]
    /\ known \in SUBSET Surveys
    /\ pc \in [Processes -> Labels]
    /\ faults \in 0..MaxFaults
    /\ asked \in [Surveys -> Nat]

(* A sweep that asks for a marker or sets one is at a survey.              *)
SurveyAtHand == \A w \in Sweepers : pc[w] \in {"check", "mark"} => cur[w] \in Surveys

(* What holds of a vote at each place of submit_response.                  *)
Recorded == {"index", "dequeue", "unmark", "load", "hold", "debit", "credit", "rate"}
Unpaid == {"idle", "record", "index", "dequeue", "unmark", "load", "hold", "debit"}

Stage(v) ==
    /\ pc[v] \in Recorded => response[VoteOn[v]] = v
    /\ taken[v] > 0 => response[VoteOn[v]] = v
    /\ pc[v] \in Unpaid => taken[v] = 0
    /\ pc[v] = "credit" => taken[v] = Reward[VoteOn[v]] /\ earned[v] = 0
    /\ earned[v] <= taken[v] /\ taken[v] <= Reward[VoteOn[v]]
Stages == \A v \in Voters : Stage(v)

IInv == TypeOK /\ SurveyAtHand /\ CommonsSound /\ Stages

-----------------------------------------------------------------------------
LEMMA GotoTyped ==
  ASSUME ControlTyped, NEW p \in Processes, NEW l \in Labels, Goto(p, l)
  PROVE  /\ pc' \in [Processes -> Labels]
         /\ pc'[p] = l
         /\ \A q \in Processes : q # p => pc'[q] = pc[q]
BY DEF Goto, ControlTyped

LEMMA FaultTyped ==
  ASSUME ControlTyped, NEW p, NEW l, Fault(p, l)
  PROVE  faults' \in 0..MaxFaults /\ Goto(p, l)
BY SurveysAssumption DEF Fault, ControlTyped

LEMMA OldestInside == \A ids, n : Oldest(ids, n) \subseteq ids
BY DEF Oldest

(* The clock, enqueues and votes leave the sweeps alone.                   *)
LEMMA SweepsElsewhere ==
  ASSUME ControlTyped, SurveyAtHand, NEW p \in Enqueuers \cup Voters, UNCHANGED sweep_vars,
         \A q \in Processes : q # p => pc'[q] = pc[q]
  PROVE  SweepsTyped' /\ SurveyAtHand'
<1>1. \A w \in Sweepers : pc'[w] = pc[w]
  BY SurveysAssumption DEF Processes
<1> QED BY <1>1 DEF sweep_vars, ControlTyped, SweepsTyped, SurveyAtHand

LEMMA EnqueueControl ==
  ASSUME ControlTyped, SurveyAtHand, NEW e \in Enqueuers, Enqueue(e)
  PROVE  ControlTyped' /\ SurveyAtHand'
<1>1. e \in Processes /\ EnqueueOf[e] \in Surveys
  BY SurveysAssumption DEF Processes
<1>2. \E l \in {"zadd", "done"} : Goto(e, l)
  BY DEF Enqueue, Store, Queue
<1>3. /\ pc' \in [Processes -> Labels]
      /\ \A q \in Processes : q # e => pc'[q] = pc[q]
  BY <1>1, <1>2, GotoTyped DEF Labels, Done
<1>4. UNCHANGED <<sweep_vars, rated, phase, known, faults, asked>>
  BY DEF Enqueue, Store, Queue
<1>5. SweepsTyped' /\ SurveyAtHand'
  BY <1>3, <1>4, SweepsElsewhere
<1>6. RecordsTyped'
  BY <1>1 DEF Enqueue, Store, Queue, ControlTyped, RecordsTyped
<1> QED BY <1>3, <1>4, <1>5, <1>6 DEF ControlTyped

LEMMA VoteControl ==
  ASSUME ControlTyped, SurveyAtHand, NEW v \in Voters, Vote(v)
  PROVE  ControlTyped' /\ SurveyAtHand'
<1>1. v \in Processes /\ VoteOn[v] \in Surveys
  BY SurveysAssumption DEF Processes
<1>2. /\ \E l \in Recorded \cup {"record", "done"} : Goto(v, l)
      /\ faults' \in 0..MaxFaults
  <2>1. CASE Open(v) \/ Record(v) \/ SettleQueue(v) \/ Load(v)
    BY <2>1 DEF Open, Record, SettleQueue, Load, Recorded, ControlTyped
  <2>2. CASE HoldReward(v)
    BY <2>2, FaultTyped DEF HoldReward, Succeed, Recorded, ControlTyped
  <2>3. CASE DebitReward(v)
    BY <2>3, FaultTyped DEF DebitReward, Succeed, Recorded, ControlTyped
  <2>4. CASE CreditActor(v)
    BY <2>4, FaultTyped DEF CreditActor, Recorded, ControlTyped
  <2>5. CASE Rate(v)
    BY <2>5, FaultTyped DEF Rate, Recorded, ControlTyped
  <2> QED BY <2>1, <2>2, <2>3, <2>4, <2>5 DEF Vote
<1>3. /\ pc' \in [Processes -> Labels]
      /\ \A q \in Processes : q # v => pc'[q] = pc[q]
  BY <1>1, <1>2, GotoTyped DEF Labels, Done, Recorded
<1>4. UNCHANGED <<sweep_vars, phase, known, asked>> /\ rated' \in SUBSET Voters
  BY DEF Vote, Open, Record, SettleQueue, Load, HoldReward, DebitReward, CreditActor, Rate,
         ControlTyped
<1>5. SweepsTyped' /\ SurveyAtHand'
  BY <1>3, <1>4, SweepsElsewhere
<1>6. RecordsTyped'
  BY <1>1 DEF Vote, Open, Record, SettleQueue, Load, HoldReward, DebitReward, CreditActor, Rate,
              records, ControlTyped, RecordsTyped
<1> QED BY <1>2, <1>3, <1>4, <1>5, <1>6 DEF ControlTyped

(* What a sweep does to its own variables, case by case.                   *)
LEMMA SweepControl ==
  ASSUME ControlTyped, SurveyAtHand, NEW w \in Sweepers, SweepStep(w)
  PROVE  ControlTyped' /\ SurveyAtHand'
<1>1. w \in Processes
  BY DEF Processes
<1>2. UNCHANGED <<response, index, rated, phase>>
  BY DEF SweepStep, Sweep, Look, Clean, Check, EndOfLook, Send, Mark, EndOfSend, records, money
<1>3. /\ pc' \in [Processes -> Labels]
      /\ \A q \in Processes : q # w => pc'[q] = pc[q]
      /\ faults' \in 0..MaxFaults
  <2>1. CASE Sweep(w) \/ Clean(w) \/ Check(w) \/ EndOfLook(w) \/ Mark(w) \/ EndOfSend(w)
    <3>1. \E l \in {"look", "unmark", "forget", "send", "idle"} : Goto(w, l)
      BY <2>1 DEF Sweep, Clean, Check, EndOfLook, Mark, EndOfSend, Turn
    <3>2. UNCHANGED faults
      BY <2>1 DEF Sweep, Clean, Check, EndOfLook, Mark, EndOfSend
    <3> QED BY <1>1, <3>1, <3>2, GotoTyped DEF Labels, ControlTyped
  <2>2. CASE Look(w)
    <3>1. (\E l \in {"tidy", "dequeue", "check"} : Goto(w, l)) \/ UNCHANGED pc
      BY <2>2 DEF Look, Turn
    <3>2. UNCHANGED faults
      BY <2>2 DEF Look
    <3> QED BY <1>1, <3>1, <3>2, GotoTyped DEF Labels, ControlTyped
  <2>3. CASE Send(w)
    <3>1. \/ \E l \in {"mark", "send"} : Goto(w, l)
          \/ UNCHANGED pc
      BY <2>3 DEF Send, Turn, Fault
    <3>2. faults' \in 0..MaxFaults
      BY <2>3, FaultTyped DEF Send, ControlTyped
    <3> QED BY <1>1, <3>1, <3>2, GotoTyped DEF Labels, ControlTyped
  <2> QED BY <2>1, <2>2, <2>3 DEF SweepStep
<1>4. /\ w \notin Firing => pc'[w] \notin {"check", "send", "mark"}
      /\ pc'[w] \in {"check", "mark"} => cur'[w] \in Surveys
  <2> USE <1>1 DEF Turn, Goto, Fault
  <2>1. CASE Sweep(w)
    BY <2>1 DEF Sweep, ControlTyped
  <2>2. CASE Look(w)
    <3>1. PICK s \in Oldest(todo[w], 1) : 
            \/ Turn(w, s, "tidy") \/ Turn(w, s, "dequeue")
            \/ w \in Firing /\ Turn(w, s, "check")
            \/ UNCHANGED <<pc, cur>>
      BY <2>2 DEF Look
    <3>2. s \in Surveys
      BY OldestInside DEF ControlTyped, SweepsTyped
    <3> QED BY <2>2, <3>1, <3>2 DEF Look, ControlTyped, SweepsTyped, SurveyAtHand
  <2>3. CASE Clean(w)
    BY <2>3 DEF Clean, ControlTyped
  <2>4. CASE Check(w)
    BY <2>4 DEF Check, ControlTyped
  <2>5. CASE EndOfLook(w)
    BY <2>5 DEF EndOfLook, ControlTyped
  <2>6. CASE Send(w)
    <3>1. w \in Firing
      BY <2>6 DEF Send, ControlTyped, SweepsTyped
    <3>2. PICK s \in Oldest(ready[w], 1) :
            \/ Turn(w, s, "mark") \/ Fault(w, "send") \/ UNCHANGED pc
      BY <2>6 DEF Send
    <3>3. s \in Surveys
      BY OldestInside DEF ControlTyped, SweepsTyped
    <3> QED BY <2>6, <3>1, <3>2, <3>3 DEF Send, ControlTyped, SweepsTyped
  <2>7. CASE Mark(w)
    BY <2>7 DEF Mark, ControlTyped, SweepsTyped
  <2>8. CASE EndOfSend(w)
    BY <2>8 DEF EndOfSend, ControlTyped
  <2> QED BY <2>1, <2>2, <2>3, <2>4, <2>5, <2>6, <2>7, <2>8 DEF SweepStep
<1>5. /\ todo' \in [Sweepers -> SUBSET Surveys]
      /\ late' \in [Sweepers -> SUBSET Surveys]
      /\ sweeps' \in [Sweepers -> Nat]
      /\ \A q \in Sweepers : sweeps'[q] <= MaxSweeps[q]
  <2>1. CASE Sweep(w)
    <3>1. Due \subseteq Surveys /\ queue \subseteq Surveys
      BY DEF Due, ControlTyped, RecordsTyped
    <3>2. /\ Oldest(Due, 2 * MaxDispatch) \subseteq Surveys
          /\ \A ids \in {Due, queue} : Oldest(ids, ListLimit) \subseteq Surveys
      BY <3>1, OldestInside
    <3>3. todo' \in [Sweepers -> SUBSET Surveys]
      BY <2>1, <3>2 DEF Sweep, ControlTyped, SweepsTyped
    <3>4. late' \in [Sweepers -> SUBSET Surveys]
      BY <2>1 DEF Sweep, ControlTyped, SweepsTyped
    <3>5. sweeps' \in [Sweepers -> Nat] /\ \A q \in Sweepers : sweeps'[q] <= MaxSweeps[q]
      <4>1. /\ sweeps \in [Sweepers -> Nat] /\ MaxSweeps \in [Sweepers -> Nat]
            /\ \A q \in Sweepers : sweeps[q] <= MaxSweeps[q]
        BY SurveysAssumption DEF ControlTyped, SweepsTyped
      <4>2. sweeps[w] < MaxSweeps[w] /\ sweeps' = [sweeps EXCEPT ![w] = @ + 1]
        BY <2>1 DEF Sweep
      <4> QED BY <4>1, <4>2
    <3> QED BY <3>3, <3>4, <3>5
  <2>2. CASE ~Sweep(w)
    BY <2>2 DEF SweepStep, Look, Clean, Check, EndOfLook, Send, Mark, EndOfSend, sweep_vars,
                ControlTyped, SweepsTyped
  <2> QED BY <2>1, <2>2
<1>6. /\ ready' \in [Sweepers -> SUBSET Surveys]
      /\ cur' \in [Sweepers -> Surveys \cup {Nobody}]
      /\ \A q \in Sweepers : q # w => cur'[q] = cur[q]
      /\ known' \in SUBSET Surveys
      /\ asked' \in [Surveys -> Nat]
  <2>1. CASE Look(w)
    <3>1. PICK s \in Oldest(todo[w], 1) :
            /\ \/ \E l \in Labels : Turn(w, s, l)
               \/ UNCHANGED cur
            /\ \/ \E list \in {{}, {s}} : ready' = [ready EXCEPT ![w] = @ \cup list]
               \/ UNCHANGED ready
      BY <2>1 DEF Look, Labels
    <3>2. s \in Surveys
      BY OldestInside DEF ControlTyped, SweepsTyped
    <3>3. UNCHANGED <<known, asked>>
      BY <2>1 DEF Look
    <3> QED BY <3>1, <3>2, <3>3 DEF Turn, ControlTyped, SweepsTyped
  <2>2. CASE Send(w)
    <3>1. PICK s \in Oldest(ready[w], 1) :
            /\ cur' = [cur EXCEPT ![w] = s] \/ UNCHANGED cur
            /\ ready' = [ready EXCEPT ![w] = @ \ {s}]
            /\ known' \in {known, known \cup {s}}
            /\ asked' = [asked EXCEPT ![s] = @ + 1] \/ UNCHANGED asked
      BY <2>2 DEF Send, Turn
    <3>2. s \in Surveys
      BY OldestInside DEF ControlTyped, SweepsTyped
    <3> QED BY <3>1, <3>2 DEF ControlTyped, SweepsTyped
  <2>3. CASE Check(w)
    BY <2>3 DEF Check, Turn, ControlTyped, SweepsTyped, SurveyAtHand
  <2>4. CASE Clean(w)
    <3>1. cur' = [cur EXCEPT ![w] = cur[w]] \/ cur' = [cur EXCEPT ![w] = Nobody]
      BY <2>4 DEF Clean, Turn
    <3>2. UNCHANGED <<ready, known, asked>>
      BY <2>4 DEF Clean
    <3> QED BY <3>1, <3>2 DEF ControlTyped, SweepsTyped
  <2>5. CASE Sweep(w) \/ EndOfLook(w) \/ Mark(w) \/ EndOfSend(w)
    BY <2>5 DEF Sweep, EndOfLook, Mark, EndOfSend, Turn, sweep_vars, ControlTyped, SweepsTyped
  <2> QED BY <2>1, <2>2, <2>3, <2>4, <2>5 DEF SweepStep
<1>7. request' \in SUBSET Surveys /\ queue' \in SUBSET Surveys /\ fired' \in SUBSET Surveys
  <2>1. CASE Mark(w)
    BY <2>1 DEF Mark, SurveyAtHand, ControlTyped, RecordsTyped
  <2>2. CASE ~Mark(w)
    BY <2>2 DEF SweepStep, Sweep, Look, Clean, Check, EndOfLook, Send, EndOfSend, records,
                ControlTyped, RecordsTyped
  <2> QED BY <2>1, <2>2
<1>8. RecordsTyped'
  BY <1>2, <1>7 DEF ControlTyped, RecordsTyped
<1>9. \A q \in Sweepers : q # w => pc'[q] = pc[q]
  BY <1>3 DEF Processes
<1>10. SweepsTyped' /\ SurveyAtHand'
  <2>1. \A q \in Sweepers \ Firing : pc'[q] \notin {"check", "send", "mark"}
    BY <1>4, <1>9 DEF ControlTyped, SweepsTyped
  <2>2. SurveyAtHand'
    BY <1>4, <1>6, <1>9 DEF SurveyAtHand
  <2> QED BY <1>5, <1>6, <2>1, <2>2 DEF SweepsTyped
<1> QED BY <1>2, <1>3, <1>6, <1>8, <1>10 DEF ControlTyped

(* The clock, a failure and the other payments of the commons.             *)
LEMMA OtherControl ==
  ASSUME ControlTyped, SurveyAtHand,
         \/ \E s \in Surveys : Tick(s)
         \/ \E p \in Processes : Raise(p)
         \/ PayElsewhere
         \/ UNCHANGED vars
  PROVE  ControlTyped' /\ SurveyAtHand'
<1>1. ASSUME UNCHANGED <<records, sweep_vars, rated, known, pc, faults, asked>>,
             phase' \in [Surveys -> {"early", "due", "expired"}]
      PROVE  ControlTyped' /\ SurveyAtHand'
  BY <1>1 DEF ControlTyped, RecordsTyped, SweepsTyped, SurveyAtHand, records, sweep_vars
<1>2. CASE \E s \in Surveys : Tick(s)
  BY <1>1, <1>2 DEF Tick, ControlTyped
<1>3. CASE PayElsewhere \/ UNCHANGED vars
  <2>1. UNCHANGED <<records, sweep_vars, rated, known, pc, faults, asked, phase>>
    BY <1>3 DEF PayElsewhere, vars, records, sweep_vars
  <2> QED BY <1>1, <2>1 DEF ControlTyped
<1>4. ASSUME NEW p \in Processes, Raise(p)
      PROVE  ControlTyped' /\ SurveyAtHand'
  <2>1. /\ pc' \in [Processes -> Labels] /\ pc'[p] = "raised"
        /\ \A q \in Processes : q # p => pc'[q] = pc[q]
        /\ faults' \in 0..MaxFaults
    BY <1>4, FaultTyped, GotoTyped DEF Raise, Labels, Done
  <2>2. UNCHANGED <<records, sweep_vars, rated, known, phase, asked>>
    BY <1>4 DEF Raise
  <2>3. \A q \in Sweepers : pc'[q] = pc[q] \/ pc'[q] = "raised"
    BY <2>1 DEF Processes
  <2>4. SweepsTyped' /\ SurveyAtHand'
    BY <2>2, <2>3 DEF ControlTyped, SweepsTyped, SurveyAtHand, sweep_vars
  <2>5. RecordsTyped'
    BY <2>2 DEF ControlTyped, RecordsTyped, records
  <2> QED BY <2>1, <2>2, <2>4, <2>5 DEF ControlTyped
<1> QED BY <1>2, <1>3, <1>4

LEMMA ControlInit == Init => ControlTyped /\ SurveyAtHand
<1> SUFFICES ASSUME Init PROVE ControlTyped /\ SurveyAtHand
  OBVIOUS
<1>1. pc \in [Processes -> Labels]
  BY DEF Init, Labels
<1>2. \A w \in Sweepers : pc[w] = "idle"
  BY SurveysAssumption DEF Init, Processes
<1>3. SweepsTyped /\ SurveyAtHand
  BY <1>2, SurveysAssumption DEF Init, SweepsTyped, SurveyAtHand
<1>4. RecordsTyped
  BY DEF Init, RecordsTyped
<1> QED BY <1>1, <1>3, <1>4, SurveysAssumption DEF Init, ControlTyped

-----------------------------------------------------------------------------
(* The credits of the commons move in three ways. *)
Quiet == UNCHANGED <<commons, taken, earned, others>>

Reserves(v) ==
    /\ HoldOutcome(commons, VoteOn[v], Reward[VoteOn[v]]) = OK
    /\ commons' = ApplyHold(commons, VoteOn[v], Reward[VoteOn[v]])
    /\ UNCHANGED <<taken, earned, others>>

Debits(v) ==
    /\ ReleaseOutcome(commons, VoteOn[v], Reward[VoteOn[v]]) = OK
    /\ commons' = ApplyRelease(commons, VoteOn[v], Reward[VoteOn[v]])
    /\ taken' = [taken EXCEPT ![v] = @ + Reward[VoteOn[v]]]
    /\ UNCHANGED <<earned, others>>

Pays(v) ==
    /\ earned' = [earned EXCEPT ![v] = @ + Reward[VoteOn[v]]]
    /\ UNCHANGED <<commons, taken, others>>

Elsewhere ==
    /\ others < MaxOthers /\ Available(commons) > 0
    /\ commons' = [commons EXCEPT !.balance = @ - 1]
    /\ others' = others + 1
    /\ UNCHANGED <<taken, earned>>

Books == MoneyTyped /\ CommonsSound

LEMMA ReserveKeepsBooks ==
  ASSUME Books, NEW v \in Voters, Reserves(v)
  PROVE  Books'
<1>1. VoteOn[v] \in Surveys /\ Reward[VoteOn[v]] \in Nat /\ IsFiniteSet(Surveys)
  BY SurveysAssumption
<1>2. IsWallet(commons, Surveys) /\ Sound(commons)
  BY DEF Books, MoneyTyped, CommonsSound
<1>3. IsWallet(commons', Surveys) /\ Sound(commons')
  BY <1>1, <1>2, HoldSound DEF Reserves
<1>4. commons'.balance = commons.balance
  BY <1>2 DEF Reserves, ApplyHold, IsWallet
<1> QED BY <1>3, <1>4 DEF Reserves, Books, MoneyTyped, CommonsSound, IsWallet, Sound

LEMMA DebitKeepsBooks ==
  ASSUME Books, NEW v \in Voters, Debits(v)
  PROVE  Books'
<1>1. VoteOn[v] \in Surveys /\ Reward[VoteOn[v]] \in Nat
      /\ IsFiniteSet(Surveys) /\ IsFiniteSet(Voters)
  BY SurveysAssumption
<1>2. IsWallet(commons, Surveys) /\ Sound(commons)
  BY DEF Books, MoneyTyped, CommonsSound
<1>3. IsWallet(commons', Surveys) /\ Sound(commons')
  BY <1>1, <1>2, ReleaseSound DEF Debits
<1>4. commons'.balance = commons.balance - Reward[VoteOn[v]] /\ commons.balance \in Int
  BY <1>2 DEF Debits, ApplyRelease, IsWallet
<1>5. /\ taken \in [Voters -> Nat]
      /\ taken' \in [Voters -> Nat]
      /\ taken'[v] = taken[v] + Reward[VoteOn[v]]
      /\ \A u \in Voters : u # v => taken'[u] = taken[u]
  BY <1>1 DEF Debits, Books, MoneyTyped
<1>6. /\ Total(taken) \in Nat
      /\ Total(taken') \in Nat
      /\ Total(taken') = Total(taken) - taken[v] + taken'[v]
  BY <1>1, <1>5, TotalChange
<1>7. commons'.balance + Total(taken') + others' = INITIAL_FUND
  BY <1>1, <1>4, <1>5, <1>6 DEF Debits, Books, MoneyTyped, CommonsSound
<1> QED BY <1>3, <1>5, <1>7 DEF Debits, Books, MoneyTyped, CommonsSound, IsWallet, Sound

LEMMA CreditKeepsBooks ==
  ASSUME Books, NEW v \in Voters, Pays(v)
  PROVE  Books'
<1>1. VoteOn[v] \in Surveys /\ Reward[VoteOn[v]] \in Nat
  BY SurveysAssumption
<1>2. earned' \in [Voters -> Nat]
  BY <1>1 DEF Pays, Books, MoneyTyped
<1> QED BY <1>2 DEF Pays, Books, MoneyTyped, CommonsSound, IsWallet, Sound

LEMMA ElsewhereKeepsBooks ==
  ASSUME Books, Elsewhere
  PROVE  Books'
<1>1. IsWallet(commons, Surveys) /\ Sound(commons) /\ others \in 0..MaxOthers
  BY DEF Books, MoneyTyped, CommonsSound
<1>2. commons' = [balance |-> commons.balance - 1, held_total |-> commons.held_total,
                  holds |-> commons.holds]
  BY <1>1 DEF Elsewhere, IsWallet
<1>3. commons.balance - 1 \in Int /\ commons.held_total <= commons.balance - 1
  BY <1>1 DEF Elsewhere, Available, IsWallet
<1>4. IsWallet(commons', Surveys) /\ Sound(commons')
  BY <1>1, <1>2, <1>3 DEF IsWallet, Sound
<1>5. others' \in 0..MaxOthers
  BY <1>1, SurveysAssumption DEF Elsewhere
<1>6. commons'.balance + Total(taken') + others' = INITIAL_FUND
  <2>1. Total(taken) \in Nat
    BY TotalType, SurveysAssumption DEF Books, MoneyTyped
  <2> QED BY <1>1, <1>2, <2>1 DEF Elsewhere, Books, CommonsSound, IsWallet
<1> QED BY <1>4, <1>5, <1>6 DEF Elsewhere, Books, MoneyTyped, CommonsSound, IsWallet, Sound

LEMMA QuietKeepsBooks ==
  ASSUME Books, Quiet
  PROVE  Books'
BY DEF Quiet, money, Books, MoneyTyped, CommonsSound, IsWallet, Sound

(* Every step is one of the moves or moves no credits. *)
LEMMA NextKeepsBooks ==
  ASSUME Books, [Next]_vars
  PROVE  Books'
<1>1. ASSUME NEW v \in Voters, Vote(v)
      PROVE  Reserves(v) \/ Debits(v) \/ Pays(v) \/ Quiet
  BY <1>1 DEF Vote, Open, Record, SettleQueue, Load, HoldReward, DebitReward, CreditActor, Rate,
              Reserves, Debits, Pays, Quiet, money
<1>2. ASSUME \/ \E s \in Surveys : Tick(s)
             \/ \E e \in Enqueuers : Enqueue(e)
             \/ \E w \in Sweepers : SweepStep(w)
             \/ \E p \in Processes : Raise(p)
             \/ UNCHANGED vars
      PROVE  Quiet
  BY <1>2 DEF Tick, Enqueue, Store, Queue, SweepStep, Sweep, Look, Clean, Check, EndOfLook, Send,
              Mark, EndOfSend, Raise, vars, Quiet, money
<1>3. CASE PayElsewhere
  BY <1>3, ElsewhereKeepsBooks DEF PayElsewhere, Elsewhere
<1> QED BY <1>1, <1>2, <1>3, ReserveKeepsBooks, DebitKeepsBooks, CreditKeepsBooks,
           QuietKeepsBooks DEF Next

-----------------------------------------------------------------------------
(* What a vote is at does not change under the steps of others: a response *)
(* on file is never replaced.                                              *)
LEMMA StageElsewhere ==
  ASSUME ControlTyped, MoneyTyped, NEW v \in Voters, Stage(v),
         pc'[v] = pc[v] \/ pc'[v] = "raised",
         taken'[v] = taken[v], earned'[v] = earned[v],
         response'[VoteOn[v]] = response[VoteOn[v]] \/ response[VoteOn[v]] = Nobody
  PROVE  Stage(v)'
<1>1. v # Nobody
  BY SurveysAssumption
<1> QED BY <1>1 DEF Stage, Recorded, Unpaid, MoneyTyped

(* A vote's own steps. *)
LEMMA OwnStage ==
  ASSUME ControlTyped, MoneyTyped, NEW v \in Voters, Stage(v), Vote(v)
  PROVE  Stage(v)'
<1>1. v \in Processes /\ VoteOn[v] \in Surveys /\ Reward[VoteOn[v]] \in Nat
  BY SurveysAssumption DEF Processes
<1>2. taken[v] \in Nat /\ earned[v] \in Nat
  BY DEF MoneyTyped
<1> USE <1>1, <1>2 DEF Stage, Recorded, Unpaid
<1>3. \A l \in Labels : Goto(v, l) => pc'[v] = l
  BY GotoTyped
<1>4. CASE Open(v) \/ SettleQueue(v) \/ Load(v) \/ Rate(v)
  <2>1. UNCHANGED <<response, taken, earned>>
    BY <1>4 DEF Open, SettleQueue, Load, Rate, records, money
  <2>2. CASE Open(v)
    <3>1. pc[v] = "idle" /\ pc'[v] \in {"record", "done"}
      BY <2>2, <1>3 DEF Open, Labels, Done
    <3> QED BY <2>1, <3>1
  <2>3. CASE SettleQueue(v)
    <3>1. pc[v] \in {"index", "dequeue", "unmark"} /\ pc'[v] \in {"dequeue", "unmark", "load"}
      BY <2>3, <1>3 DEF SettleQueue, Labels
    <3> QED BY <2>1, <3>1
  <2>4. CASE Load(v)
    <3>1. pc[v] = "load" /\ pc'[v] \in {"hold", "rate", "done"}
      BY <2>4, <1>3 DEF Load, Labels, Done
    <3> QED BY <2>1, <3>1
  <2>5. CASE Rate(v)
    <3>1. pc'[v] = "done"
      BY <2>5, <1>3 DEF Rate, Fault, Labels, Done
    <3> QED BY <2>1, <3>1
  <2> QED BY <1>4, <2>2, <2>3, <2>4, <2>5
<1>5. CASE Record(v)
  <2>1. UNCHANGED <<taken, earned>> /\ pc[v] = "record"
    BY <1>5 DEF Record, money
  <2>2. \/ pc'[v] = "index" /\ response'[VoteOn[v]] = v
        \/ pc'[v] = "done" /\ UNCHANGED response
    BY <1>5, <1>3 DEF Record, Labels, Done, ControlTyped, RecordsTyped
  <2> QED BY <2>1, <2>2, SurveysAssumption DEF Record
<1>6. CASE HoldReward(v)
  <2>1. UNCHANGED <<response, taken, earned>> /\ pc[v] = "hold"
    BY <1>6 DEF HoldReward, records
  <2>2. pc'[v] \in {"debit", "rate"}
    BY <1>6, <1>3 DEF HoldReward, Succeed, Fault, Labels
  <2> QED BY <2>1, <2>2
<1>7. CASE DebitReward(v)
  <2>1. UNCHANGED <<response, earned>> /\ pc[v] = "debit"
    BY <1>7 DEF DebitReward, records
  <2>2. \/ pc'[v] \in {"credit", "rate"} /\ taken'[v] = Reward[VoteOn[v]]
        \/ pc'[v] = "rate" /\ taken'[v] = taken[v]
    BY <1>7, <1>3, <2>1 DEF DebitReward, Succeed, Fault, Labels, MoneyTyped
  <2> QED BY <2>1, <2>2
<1>8. CASE CreditActor(v)
  <2>1. UNCHANGED <<response, taken>> /\ pc[v] = "credit" /\ pc'[v] = "rate"
    BY <1>8, <1>3 DEF CreditActor, Fault, Labels, records
  <2>2. earned'[v] \in {earned[v], earned[v] + Reward[VoteOn[v]]}
    BY <1>8 DEF CreditActor, MoneyTyped
  <2> QED BY <2>1, <2>2
<1> QED BY <1>4, <1>5, <1>6, <1>7, <1>8 DEF Vote

LEMMA NextStages ==
  ASSUME ControlTyped, MoneyTyped, Stages, [Next]_vars
  PROVE  Stages'
<1> SUFFICES ASSUME NEW v \in Voters PROVE Stage(v)'
  BY DEF Stages
<1>1. Stage(v) /\ v \in Processes /\ VoteOn[v] \in Surveys
  BY SurveysAssumption DEF Stages, Processes
<1>2. ASSUME NEW p \in Processes, p # v, NEW l \in Labels, Goto(p, l)
      PROVE  pc'[v] = pc[v]
  BY <1>1, <1>2, GotoTyped
<1>3. ASSUME NEW u \in Voters, Vote(u)
      PROVE  Stage(v)'
  <2>1. CASE u = v
    BY <1>1, <1>3, <2>1, OwnStage
  <2>2. CASE u # v
    <3>1. \E l \in Labels : Goto(u, l)
      BY <1>3 DEF Vote, Open, Record, SettleQueue, Load, HoldReward, DebitReward, CreditActor,
                  Rate, Succeed, Fault, Labels, Done
    <3>2. pc'[v] = pc[v]
      BY <1>2, <2>2, <3>1 DEF Processes
    <3>3. taken'[v] = taken[v] /\ earned'[v] = earned[v]
      BY <1>3, <2>2 DEF Vote, Open, Record, SettleQueue, Load, HoldReward, DebitReward,
                        CreditActor, Rate, money, MoneyTyped
    <3>4. response'[VoteOn[v]] = response[VoteOn[v]] \/ response[VoteOn[v]] = Nobody
      BY <1>1, <1>3 DEF Vote, Open, Record, SettleQueue, Load, HoldReward, DebitReward,
                        CreditActor, Rate, records, ControlTyped, RecordsTyped
    <3> QED BY <1>1, <3>2, <3>3, <3>4, StageElsewhere
  <2> QED BY <2>1, <2>2
<1>4. ASSUME NEW e \in Enqueuers, Enqueue(e)
      PROVE  Stage(v)'
  <2>1. e \in Processes /\ e # v
    BY SurveysAssumption DEF Processes
  <2>2. \E l \in Labels : Goto(e, l)
    BY <1>4 DEF Enqueue, Store, Queue, Labels, Done
  <2>3. UNCHANGED <<response, taken, earned>>
    BY <1>4 DEF Enqueue, Store, Queue, money
  <2> QED BY <1>1, <1>2, <2>1, <2>2, <2>3, StageElsewhere
<1>5. ASSUME NEW w \in Sweepers, SweepStep(w)
      PROVE  Stage(v)'
  <2>1. w \in Processes /\ w # v
    BY SurveysAssumption DEF Processes
  <2>2. (\E l \in Labels : Goto(w, l)) \/ UNCHANGED pc
    BY <1>5 DEF SweepStep, Sweep, Look, Clean, Check, EndOfLook, Send, Mark, EndOfSend, Turn,
                Fault, Labels
  <2>3. UNCHANGED <<response, taken, earned>>
    BY <1>5 DEF SweepStep, Sweep, Look, Clean, Check, EndOfLook, Send, Mark, EndOfSend, money,
                records
  <2> QED BY <1>1, <1>2, <2>1, <2>2, <2>3, StageElsewhere
<1>6. ASSUME NEW p \in Processes, Raise(p)
      PROVE  Stage(v)'
  <2>1. Goto(p, "raised") /\ UNCHANGED <<response, taken, earned>>
    BY <1>6 DEF Raise, Fault, records, money
  <2>2. pc'[v] = pc[v] \/ pc'[v] = "raised"
    BY <1>1, <2>1, GotoTyped DEF Labels, Done
  <2> QED BY <1>1, <2>1, <2>2, StageElsewhere
<1>7. ASSUME (\E s \in Surveys : Tick(s)) \/ PayElsewhere \/ UNCHANGED vars
      PROVE  Stage(v)'
  <2>1. UNCHANGED <<response, taken, earned, pc>>
    BY <1>7 DEF Tick, PayElsewhere, vars, records, money
  <2> QED BY <1>1, <2>1, StageElsewhere
<1> QED BY <1>3, <1>4, <1>5, <1>6, <1>7 DEF Next

-----------------------------------------------------------------------------
Asked == available \in [Voters -> Int]

LEMMA TypeParts == TypeOK <=> ControlTyped /\ MoneyTyped /\ Asked
BY DEF TypeOK, ControlTyped, Asked

(* Only a vote that asks for its reward writes down what there was. *)
LEMMA NextAsked ==
  ASSUME Books, Asked, [Next]_vars
  PROVE  Asked'
<1>1. Available(commons) \in Int
  BY DEF Books, MoneyTyped, IsWallet, Available
<1>2. \/ UNCHANGED available
      \/ \E v \in Voters : available' = [available EXCEPT ![v] = Available(commons)]
  BY DEF Next, Vote, Open, Record, SettleQueue, Load, HoldReward, DebitReward, CreditActor, Rate,
         Tick, Enqueue, Store, Queue, SweepStep, Sweep, Look, Clean, Check, EndOfLook, Send,
         Mark, EndOfSend, Raise, PayElsewhere, vars, money
<1> QED BY <1>1, <1>2 DEF Asked

LEMMA InitIInv == Init => IInv
<1> SUFFICES ASSUME Init PROVE IInv
  OBVIOUS
<1>1. IsWallet(commons, Surveys) /\ Sound(commons)
  BY FreshWalletSound DEF Init, IsWallet
<1>2. /\ taken \in [Voters -> Nat] /\ \A v \in Voters : taken[v] = 0
      /\ earned \in [Voters -> Nat] /\ \A v \in Voters : earned[v] = 0
      /\ others \in 0..MaxOthers /\ others = 0
  BY SurveysAssumption DEF Init
<1>3. Total(taken) = 0
  <2>1. \A v \in Voters : {v} \X (1..taken[v]) = {}
    BY <1>2
  <2>2. Units(taken) = {}
    BY <1>2, <2>1 DEF Units
  <2> QED BY <2>2, FS_EmptySet DEF Total
<1>4. CommonsSound
  BY <1>1, <1>2, <1>3, FundAssumption DEF Init, CommonsSound, FreshWallet
<1>5. Stages
  <2>1. \A v \in Voters : pc[v] = "idle" /\ VoteOn[v] \in Surveys /\ Reward[VoteOn[v]] \in Nat
    BY SurveysAssumption DEF Init, Processes
  <2> QED BY <1>2, <2>1 DEF Stages, Stage, Recorded, Unpaid
<1>6. Asked
  BY DEF Init, Asked
<1> QED BY <1>1, <1>2, <1>4, <1>5, <1>6, ControlInit, TypeParts DEF IInv, MoneyTyped

LEMMA NextIInv == IInv /\ [Next]_vars => IInv'
<1> SUFFICES ASSUME IInv, [Next]_vars PROVE IInv'
  OBVIOUS
<1>1. ControlTyped /\ SurveyAtHand /\ MoneyTyped /\ Books /\ Stages
  BY TypeParts DEF IInv, Books
<1>2. ControlTyped' /\ SurveyAtHand'
  BY <1>1, EnqueueControl, VoteControl, SweepControl, OtherControl DEF Next
<1>3. MoneyTyped' /\ CommonsSound'
  BY <1>1, NextKeepsBooks DEF Books
<1>4. Stages'
  BY <1>1, NextStages
<1>5. TypeOK'
  <2>1. Asked'
    BY <1>1, NextAsked, TypeParts DEF IInv
  <2> QED BY <1>2, <1>3, <2>1 DEF TypeOK, ControlTyped, Asked
<1> QED BY <1>2, <1>3, <1>4, <1>5 DEF IInv

LEMMA IInvHolds == Spec => []IInv
BY InitIInv, NextIInv, PTL DEF Spec

(* The queue, the sweeps and the votes keep their types, and a sweep that  *)
(* only lists never checks or sets a fired marker.                         *)
THEOREM SurveysTypeCorrect == Spec => []TypeOK
<1>1. IInv => TypeOK
  BY DEF IInv
<1> QED BY <1>1, IInvHolds, PTL

(* Paying rewards never overcommits the commons, and what left it was      *)
(* debited for votes or paid elsewhere, whatever fails on the way.         *)
THEOREM CommonsStaysSound == Spec => []CommonsSound
<1>1. IInv => CommonsSound
  BY DEF IInv
<1> QED BY <1>1, IInvHolds, PTL

(* However many votes are cast on a survey, and wherever they fail, only   *)
(* the one on file is paid, at most once, and out of the commons.          *)
THEOREM RewardsArePaidOnce == Spec => []RewardPaidOnce
<1>1. IInv => RewardPaidOnce
  BY DEF IInv, Stages, Stage, RewardPaidOnce
<1> QED BY <1>1, IInvHolds, PTL
-----------------------------------------------------------------------------
(* While nothing fails.  A survey is listed once it was in the queue and   *)
(* somebody may still come back to it.                                     *)
Listed(s) ==
    \/ s \in queue \cup known
    \/ \E w \in Sweepers : s \in todo[w] \cup ready[w] \/ cur[w] = s

Enqueueing(s) == {e \in Enqueuers : EnqueueOf[e] = s /\ pc[e] = "zadd"}
Removed == {"unmark", "load", "hold", "debit", "credit", "rate"}
Removing == {"tidy", "dequeue", "unmark", "forget"}

(* One call of enqueue stored the request, and nobody lists the survey     *)
(* before that call has queued it.                                         *)
Stored(s) ==
    /\ Listed(s) => s \in request
    /\ \A e \in Enqueuers : EnqueueOf[e] = s /\ pc[e] \in {"zadd", "done"} => s \in request
    /\ Listed(s) => Enqueueing(s) = {}
    /\ \A d, e \in Enqueueing(s) : d = e
    /\ s \in request /\ response[s] = Nobody => s \in queue \/ Enqueueing(s) # {}

(* No sweep tidies or abandons it. *)
Untouched(s) ==
    \A w \in Sweepers : s \notin late[w] /\ (cur[w] = s => pc[w] \notin Removing)

(* The vote on file takes it out of the queue. *)
Answered(s) ==
    /\ response[s] # Nobody => s \in known
    /\ \A v \in Voters : VoteOn[v] = s =>
         /\ pc[v] # "idle" => s \in known
         /\ pc[v] \in {"idle", "record"} => response[s] # v
         /\ pc[v] \in Removed \/ (pc[v] = "done" /\ response[s] = v) => s \notin queue

Queued(s) == Stored(s) /\ Untouched(s) /\ Answered(s)
Current(s) == phase[s] # "expired"
QueueInv == Calm => \A s \in Surveys : Current(s) => Queued(s)

(* A step that leaves the system calm began in a calm one.                 *)
LEMMA CalmBefore ==
  ASSUME ControlTyped, [Next]_vars, Calm'
  PROVE  Calm /\ UNCHANGED faults
<1>1. faults \in 0..MaxFaults /\ MaxFaults \in Nat
  BY SurveysAssumption DEF ControlTyped
<1>2. faults' = faults \/ faults' = faults + 1
  <2>1. CASE \E v \in Voters : Vote(v)
    BY <2>1 DEF Vote, Open, Record, SettleQueue, Load, HoldReward, DebitReward, CreditActor, Rate,
                Succeed, Fault
  <2>2. CASE \E w \in Sweepers : SweepStep(w)
    BY <2>2 DEF SweepStep, Sweep, Look, Clean, Check, EndOfLook, Send, Mark, EndOfSend, Fault
  <2>3. CASE \/ \E s \in Surveys : Tick(s)
             \/ \E e \in Enqueuers : Enqueue(e)
             \/ \E p \in Processes : Raise(p)
             \/ PayElsewhere
             \/ UNCHANGED vars
    BY <2>3 DEF Tick, Enqueue, Store, Queue, Raise, Fault, PayElsewhere, vars
  <2> QED BY <2>1, <2>2, <2>3 DEF Next
<1> QED BY <1>1, <1>2 DEF Calm

(* Only the clock changes phases, and what has expired stays expired.      *)
LEMMA PhaseChanges ==
  ASSUME ControlTyped, [Next]_vars, NEW s \in Surveys, Current(s)'
  PROVE  Current(s)
<1>1. CASE \E r \in Surveys : Tick(r)
  BY <1>1 DEF Tick, Current, ControlTyped
<1>2. CASE ~\E r \in Surveys : Tick(r)
  <2>1. UNCHANGED phase
    <3>1. CASE \E v \in Voters : Vote(v)
      BY <3>1 DEF Vote, Open, Record, SettleQueue, Load, HoldReward, DebitReward, CreditActor, Rate
    <3>2. CASE \E w \in Sweepers : SweepStep(w)
      BY <3>2 DEF SweepStep, Sweep, Look, Clean, Check, EndOfLook, Send, Mark, EndOfSend
    <3>3. CASE \/ \E e \in Enqueuers : Enqueue(e)
               \/ \E p \in Processes : Raise(p)
               \/ PayElsewhere
               \/ UNCHANGED vars
      BY <3>3 DEF Enqueue, Store, Queue, Raise, PayElsewhere, vars
    <3> QED BY <1>2, <3>1, <3>2, <3>3 DEF Next
  <2> QED BY <2>1 DEF Current
<1> QED BY <1>1, <1>2

(* A call of enqueue. *)
LEMMA EnqueueQueued ==
  ASSUME IInv, NEW s \in Surveys, Queued(s), NEW e \in Enqueuers, Enqueue(e)
  PROVE  Queued(s)'
<1>1. ControlTyped /\ RecordsTyped
  BY TypeParts DEF IInv, ControlTyped
<1>2. /\ e \in Processes /\ \A d \in Enqueuers : d \in Processes
      /\ \A p \in Sweepers \cup Voters : p \in Processes /\ p # e
  BY SurveysAssumption DEF Processes
<1>3. UNCHANGED <<known, todo, ready, cur, late, response>>
  BY DEF Enqueue, Store, Queue, sweep_vars
<1>4. PICK l \in {"zadd", "done"} :
        /\ Goto(e, l)
        /\ \/ /\ l = "zadd" /\ pc[e] = "set" /\ EnqueueOf[e] \notin request
              /\ request' = request \cup {EnqueueOf[e]} /\ queue' = queue
           \/ /\ l = "done" /\ pc[e] = "set" /\ EnqueueOf[e] \in request
              /\ request' = request /\ queue' = queue
           \/ /\ l = "done" /\ pc[e] = "zadd"
              /\ request' = request /\ queue' = queue \cup {EnqueueOf[e]}
  BY DEF Enqueue, Store, Queue
<1>5. /\ pc'[e] = l
      /\ \A q \in Processes : q # e => pc'[q] = pc[q]
  BY <1>1, <1>2, <1>4, GotoTyped DEF Labels, Done
<1>6. \A p \in Sweepers \cup Voters : pc'[p] = pc[p]
  BY <1>2, <1>5
<1>7. Untouched(s)'
  BY <1>3, <1>6 DEF Queued, Untouched
<1>8. CASE EnqueueOf[e] # s
  <2>1. /\ s \in request' <=> s \in request
        /\ s \in queue' <=> s \in queue
    BY <1>4, <1>8
  <2>2. Listed(s)' <=> Listed(s)
    BY <1>3, <2>1 DEF Listed
  <2>3. Enqueueing(s)' = Enqueueing(s)
    BY <1>2, <1>5, <1>8 DEF Enqueueing
  <2>4. \A d \in Enqueuers : EnqueueOf[d] = s => pc'[d] = pc[d]
    BY <1>2, <1>5, <1>8
  <2>5. Stored(s)'
    BY <1>3, <2>1, <2>2, <2>3, <2>4 DEF Queued, Stored
  <2>6. Answered(s)'
    BY <1>3, <1>6, <2>1 DEF Queued, Answered
  <2> QED BY <1>7, <2>5, <2>6 DEF Queued
<1>9. CASE EnqueueOf[e] = s /\ pc[e] = "set" /\ s \notin request
  <2>1. l = "zadd" /\ s \in request' /\ queue' = queue
    BY <1>4, <1>9
  <2>2. ~Listed(s) /\ (Listed(s)' <=> Listed(s))
    BY <1>3, <1>9, <2>1 DEF Listed, Queued, Stored
  <2>3. Enqueueing(s) = {} /\ Enqueueing(s)' = {e}
    <3>1. Enqueueing(s) = {}
      BY <1>9 DEF Enqueueing, Queued, Stored
    <3> QED BY <1>2, <1>5, <1>9, <2>1, <3>1 DEF Enqueueing
  <2>4. Stored(s)'
    BY <2>1, <2>2, <2>3 DEF Stored
  <2>5. Answered(s)'
    BY <1>3, <1>6, <2>1 DEF Queued, Answered
  <2> QED BY <1>7, <2>4, <2>5 DEF Queued
<1>10. CASE EnqueueOf[e] = s /\ pc[e] = "set" /\ s \in request
  <2>1. l = "done" /\ request' = request /\ queue' = queue
    BY <1>4, <1>10
  <2>2. Listed(s)' <=> Listed(s)
    BY <1>3, <2>1 DEF Listed
  <2>3. Enqueueing(s)' = Enqueueing(s)
    BY <1>2, <1>5, <1>10, <2>1 DEF Enqueueing
  <2>4. Stored(s)'
    BY <1>3, <1>10, <2>1, <2>2, <2>3 DEF Queued, Stored
  <2>5. Answered(s)'
    BY <1>3, <1>6, <2>1 DEF Queued, Answered
  <2> QED BY <1>7, <2>4, <2>5 DEF Queued
<1>11. CASE EnqueueOf[e] = s /\ pc[e] = "zadd"
  <2>1. l = "done" /\ request' = request /\ queue' = queue \cup {s}
    BY <1>4, <1>11
  <2>2. e \in Enqueueing(s) /\ ~Listed(s) /\ s \in request
    BY <1>11 DEF Enqueueing, Queued, Stored
  <2>3. Enqueueing(s)' = {}
    <3>1. \A d \in Enqueueing(s) : d = e
      BY <2>2 DEF Queued, Stored
    <3> QED BY <1>2, <1>5, <2>1, <3>1 DEF Enqueueing
  <2>4. Stored(s)'
    BY <2>1, <2>2, <2>3 DEF Stored
  <2>5. response[s] = Nobody /\ \A v \in Voters : VoteOn[v] = s => pc[v] = "idle"
    BY <2>2 DEF Listed, Queued, Answered
  <2>6. Answered(s)'
    BY <1>3, <1>6, <2>5, SurveysAssumption DEF Removed, Answered
  <2> QED BY <1>7, <2>4, <2>6 DEF Queued
<1> QED BY <1>4, <1>8, <1>9, <1>10, <1>11

(* A vote takes its survey out of the queue, and only after it is on file. *)
LEMMA VoteQueued ==
  ASSUME IInv, NEW s \in Surveys, Queued(s), NEW v \in Voters, Vote(v)
  PROVE  Queued(s)'
<1>1. ControlTyped /\ RecordsTyped /\ Stage(v)
  BY TypeParts DEF IInv, ControlTyped, Stages
<1>2. /\ v \in Processes /\ VoteOn[v] \in Surveys
      /\ \A p \in Sweepers \cup Enqueuers : p \in Processes /\ p # v
      /\ Voters \subseteq Processes
      /\ v # Nobody
  BY SurveysAssumption DEF Processes
<1>3. UNCHANGED <<request, known, todo, late, ready, cur>>
  BY DEF Vote, Open, Record, SettleQueue, Load, HoldReward, DebitReward, CreditActor, Rate,
         records, sweep_vars
<1>4. PICK l \in Removed \cup {"record", "index", "dequeue", "done"} :
        /\ Goto(v, l)
        /\ \/ /\ pc[v] = "idle" /\ VoteOn[v] \in known /\ l \in {"record", "done"}
              /\ UNCHANGED <<queue, response>>
           \/ /\ pc[v] = "record" /\ response[VoteOn[v]] = Nobody /\ l = "index"
              /\ response' = [response EXCEPT ![VoteOn[v]] = v] /\ UNCHANGED queue
           \/ /\ pc[v] = "record" /\ l = "done"
              /\ UNCHANGED <<queue, response>>
           \/ /\ pc[v] = "index" /\ l = "dequeue"
              /\ UNCHANGED <<queue, response>>
           \/ /\ pc[v] = "dequeue" /\ l = "unmark"
              /\ queue' = queue \ {VoteOn[v]} /\ UNCHANGED response
           \/ /\ pc[v] \in Removed /\ l \in Removed \cup {"done"}
              /\ UNCHANGED <<queue, response>>
  <2>1. CASE Open(v)
    BY <2>1 DEF Open, records
  <2>2. CASE Record(v)
    BY <2>2 DEF Record
  <2>3. CASE SettleQueue(v)
    BY <2>3 DEF SettleQueue, Removed
  <2>4. CASE Load(v)
    BY <2>4 DEF Load, Removed, records
  <2>5. CASE HoldReward(v)
    BY <2>5 DEF HoldReward, Succeed, Fault, Removed, records
  <2>6. CASE DebitReward(v)
    BY <2>6 DEF DebitReward, Succeed, Fault, Removed, records
  <2>7. CASE CreditActor(v)
    BY <2>7 DEF CreditActor, Fault, Removed, records
  <2>8. CASE Rate(v)
    BY <2>8 DEF Rate, Fault, Removed, records
  <2> QED BY <2>1, <2>2, <2>3, <2>4, <2>5, <2>6, <2>7, <2>8 DEF Vote
<1>5. /\ pc'[v] = l
      /\ \A q \in Processes : q # v => pc'[q] = pc[q]
  <2>1. l \in Labels
    BY DEF Removed, Labels, Done
  <2> QED BY <1>1, <1>2, <1>4, <2>1, GotoTyped
<1>6. \A p \in Sweepers \cup Enqueuers : pc'[p] = pc[p]
  BY <1>2, <1>5
<1>7. Untouched(s)'
  BY <1>3, <1>6 DEF Queued, Untouched
<1>8. /\ s \in queue' => s \in queue
      /\ response'[s] = Nobody => response[s] = Nobody
  BY <1>1, <1>2, <1>4 DEF RecordsTyped
<1>9. /\ Listed(s)' => Listed(s)
      /\ Enqueueing(s)' = Enqueueing(s)
  BY <1>3, <1>6, <1>8 DEF Listed, Enqueueing
<1>10. s \in request /\ response'[s] = Nobody /\ s \in queue => s \in queue'
  BY <1>1, <1>2, <1>4, <1>8 DEF Stage, Recorded
<1>11. Stored(s)'
  BY <1>3, <1>6, <1>8, <1>9, <1>10 DEF Queued, Stored
<1>12. \A u \in Voters : u # v => pc'[u] = pc[u]
  BY <1>2, <1>5
<1>13. CASE VoteOn[v] # s
  <2>1. response'[s] = response[s]
    BY <1>1, <1>2, <1>4, <1>13 DEF RecordsTyped
  <2>2. \A u \in Voters : VoteOn[u] = s => pc'[u] = pc[u]
    BY <1>12, <1>13
  <2>3. Answered(s)'
    BY <1>3, <1>8, <2>1, <2>2 DEF Queued, Answered
  <2> QED BY <1>7, <1>11, <2>3 DEF Queued
<1>14. CASE VoteOn[v] = s
  <2>1. s \in known
    BY <1>4, <1>14 DEF Queued, Answered, Removed
  <2>2. response'[s] = response[s] \/ response'[s] = v
    BY <1>1, <1>4, <1>14 DEF RecordsTyped
  <2>3. ASSUME NEW u \in Voters, VoteOn[u] = s, u # v
        PROVE  /\ pc'[u] \in {"idle", "record"} => response'[s] # u
               /\ pc'[u] \in Removed \/ (pc'[u] = "done" /\ response'[s] = u) => s \notin queue'
    BY <1>8, <1>12, <2>2, <2>3 DEF Queued, Answered
  <2>4. /\ pc'[v] \in {"idle", "record"} => response'[s] # v
        /\ pc'[v] \in Removed \/ (pc'[v] = "done" /\ response'[s] = v) => s \notin queue'
    <3>1. pc[v] \in {"idle", "record"} => response[s] # v
      BY <1>14 DEF Queued, Answered
    <3>2. pc[v] \in Removed => s \notin queue
      BY <1>14 DEF Queued, Answered
    <3> QED BY <1>4, <1>5, <1>14, <3>1, <3>2 DEF Removed
  <2>5. Answered(s)'
    BY <1>3, <2>1, <2>3, <2>4 DEF Answered
  <2> QED BY <1>7, <1>11, <2>5 DEF Queued
<1> QED BY <1>13, <1>14

(* A sweep leaves a survey that has not expired where it is, and comes to  *)
(* know of none that was not in the queue.                                 *)
LEMMA SweepQueued ==
  ASSUME IInv, NEW s \in Surveys, Current(s), Queued(s), NEW w \in Sweepers, SweepStep(w)
  PROVE  Queued(s)'
<1>1. ControlTyped /\ RecordsTyped /\ SweepsTyped
  BY TypeParts DEF IInv, ControlTyped
<1>2. /\ w \in Processes /\ Sweepers \subseteq Processes
      /\ \A p \in Voters \cup Enqueuers : p \in Processes /\ p # w
      /\ s # Nobody
  BY SurveysAssumption DEF Processes
<1>3. /\ UNCHANGED response
      /\ \A p \in Processes : p # w => pc'[p] = pc[p]
  <2>1. UNCHANGED response
    BY DEF SweepStep, Sweep, Look, Clean, Check, EndOfLook, Send, Mark, EndOfSend, records
  <2>2. UNCHANGED pc \/ \E l : Goto(w, l)
    BY DEF SweepStep, Sweep, Look, Clean, Check, EndOfLook, Send, Mark, EndOfSend, Turn, Fault
  <2> QED BY <1>1, <2>1, <2>2 DEF Goto, ControlTyped
<1>4. \A p \in Voters \cup Enqueuers : pc'[p] = pc[p]
  BY <1>2, <1>3
<1>5. s \notin late[w] /\ (cur[w] = s => pc[w] \notin Removing)
  BY DEF Queued, Untouched
<1>6. Listed(s) => s \in request
  BY DEF Queued, Stored
<1>7. /\ s \in request' <=> s \in request
      /\ s \in queue' <=> s \in queue
      /\ s \in known => s \in known'
      /\ s \in known' => s \in known \cup ready[w]
      /\ s \in todo'[w] => s \in todo[w] \cup queue
      /\ s \in ready'[w] => s \in ready[w] \/ cur[w] = s \/ s \in todo[w]
      /\ cur'[w] = s => cur[w] = s \/ s \in todo[w] \/ s \in ready[w]
      /\ s \notin late'[w]
      /\ cur'[w] = s => pc'[w] \notin Removing
      /\ \A x \in Sweepers : x # w => /\ todo'[x] = todo[x] /\ ready'[x] = ready[x]
                                      /\ cur'[x] = cur[x] /\ late'[x] = late[x]
  <2>1. CASE Sweep(w)
    <3>1. todo' = [todo EXCEPT ![w] = Oldest(Due, 2 * MaxDispatch)]
          \/ \E ids \in {Due, queue} : todo' = [todo EXCEPT ![w] = Oldest(ids, ListLimit)]
      BY <2>1 DEF Sweep
    <3>2. Due \subseteq queue
      BY DEF Due
    <3>3. todo'[w] \subseteq queue /\ \A x \in Sweepers : x # w => todo'[x] = todo[x]
      BY <1>1, <3>1, <3>2, OldestInside DEF SweepsTyped
    <3>4. late' = [late EXCEPT ![w] = {r \in Surveys : phase[r] = "expired"}]
      BY <2>1 DEF Sweep
    <3>5. s \notin late'[w] /\ \A x \in Sweepers : x # w => late'[x] = late[x]
      BY <1>1, <3>4 DEF SweepsTyped, Current
    <3>6. pc'[w] = "look"
      BY <1>1, <1>2, <2>1 DEF Sweep, Goto, ControlTyped
    <3>7. UNCHANGED <<request, queue, known, ready, cur>>
      BY <2>1 DEF Sweep, records
    <3> QED BY <3>3, <3>5, <3>6, <3>7 DEF Removing
  <2>2. CASE Look(w)
    <3>1. PICK r \in Oldest(todo[w], 1) :
            /\ todo' = [todo EXCEPT ![w] = @ \ {r}]
            /\ \/ r \notin request /\ Turn(w, r, "tidy") /\ UNCHANGED ready
               \/ r \in request \cap late[w] /\ Turn(w, r, "dequeue") /\ UNCHANGED ready
               \/ r \in request \ late[w] /\ Turn(w, r, "check") /\ UNCHANGED ready
               \/ /\ \E list \in {{}, {r}} : ready' = [ready EXCEPT ![w] = @ \cup list]
                  /\ UNCHANGED <<pc, cur>>
      BY <2>2 DEF Look
    <3>2. r \in todo[w] /\ (r = s => s \in request)
      BY <1>6, <3>1, OldestInside DEF Listed
    <3>3. todo'[w] \subseteq todo[w] /\ \A x \in Sweepers : x # w => todo'[x] = todo[x]
      BY <1>1, <3>1 DEF SweepsTyped
    <3>4. /\ ready'[w] \subseteq ready[w] \cup {r}
          /\ \A x \in Sweepers : x # w => ready'[x] = ready[x]
      BY <1>1, <3>1 DEF Turn, SweepsTyped
    <3>5. /\ cur'[w] = cur[w] \/ cur'[w] = r
          /\ \A x \in Sweepers : x # w => cur'[x] = cur[x]
      BY <1>1, <3>1 DEF Turn, SweepsTyped
    <3>6. cur'[w] = s => pc'[w] \notin Removing
      <4>1. CASE UNCHANGED <<pc, cur>>
        BY <1>5, <4>1
      <4>2. CASE r = s /\ Turn(w, r, "check")
        BY <1>1, <1>2, <4>2 DEF Turn, Goto, ControlTyped, Removing
      <4>3. \/ UNCHANGED <<pc, cur>>
            \/ r # s /\ \E l : Turn(w, r, l)
            \/ r = s /\ Turn(w, r, "check")
        BY <1>5, <3>1, <3>2
      <4>4. CASE r # s /\ \E l : Turn(w, r, l)
        BY <1>1, <4>4 DEF Turn, SweepsTyped
      <4> QED BY <4>1, <4>2, <4>3, <4>4
    <3>7. UNCHANGED <<request, queue, known, late>>
      BY <2>2 DEF Look, records
    <3> QED BY <1>5, <3>2, <3>3, <3>4, <3>5, <3>6, <3>7
  <2>3. CASE Clean(w)
    <3>1. pc[w] \in Removing
      BY <2>3 DEF Clean, Removing
    <3>2. cur[w] # s
      BY <1>5, <3>1
    <3>3. /\ s \in request' <=> s \in request
          /\ s \in queue' <=> s \in queue
      BY <2>3, <3>2 DEF Clean
    <3>4. cur'[w] # s /\ \A x \in Sweepers : x # w => cur'[x] = cur[x]
      BY <1>1, <1>2, <2>3, <3>2 DEF Clean, Turn, SweepsTyped
    <3>5. UNCHANGED <<known, todo, late, ready>>
      BY <2>3 DEF Clean
    <3> QED BY <1>5, <3>3, <3>4, <3>5
  <2>4. CASE Check(w)
    <3>1. \/ UNCHANGED <<ready, todo>>
          \/ /\ ready' = [ready EXCEPT ![w] = @ \cup {cur[w]}]
             /\ \E rest \in {{}, todo[w]} : todo' = [todo EXCEPT ![w] = rest]
      BY <2>4 DEF Check
    <3>2. /\ ready'[w] \subseteq ready[w] \cup {cur[w]} /\ todo'[w] \subseteq todo[w]
          /\ \A x \in Sweepers : x # w => ready'[x] = ready[x] /\ todo'[x] = todo[x]
      BY <1>1, <3>1 DEF SweepsTyped
    <3>3. cur'[w] # s /\ \A x \in Sweepers : x # w => cur'[x] = cur[x]
      BY <1>1, <1>2, <2>4 DEF Check, Turn, SweepsTyped
    <3>4. UNCHANGED <<request, queue, known, late>>
      BY <2>4 DEF Check, records
    <3> QED BY <1>5, <3>2, <3>3, <3>4
  <2>5. CASE EndOfLook(w)
    <3>1. /\ known' = known \/ known' = known \cup ready[w]
          /\ ready' = ready \/ ready' = [ready EXCEPT ![w] = {}]
      BY <2>5 DEF EndOfLook
    <3>2. ready'[w] \subseteq ready[w] /\ \A x \in Sweepers : x # w => ready'[x] = ready[x]
      BY <1>1, <3>1 DEF SweepsTyped
    <3>3. pc'[w] \in {"send", "idle"}
      BY <1>1, <1>2, <2>5 DEF EndOfLook, Goto, ControlTyped
    <3>4. UNCHANGED <<request, queue, todo, late, cur>>
      BY <2>5 DEF EndOfLook, records
    <3> QED BY <1>5, <3>1, <3>2, <3>3, <3>4 DEF Removing
  <2>6. CASE Send(w)
    <3>1. PICK r \in Oldest(ready[w], 1) :
            /\ ready' = [ready EXCEPT ![w] = @ \ {r}]
            /\ known' \in {known, known \cup {r}}
            /\ \/ Turn(w, r, "mark")
               \/ (Goto(w, "send") \/ UNCHANGED pc) /\ UNCHANGED cur
      BY <2>6 DEF Send, Fault
    <3>2. r \in ready[w]
      BY <3>1, OldestInside
    <3>3. ready'[w] \subseteq ready[w] /\ \A x \in Sweepers : x # w => ready'[x] = ready[x]
      BY <1>1, <3>1 DEF SweepsTyped
    <3>4. /\ cur'[w] = cur[w] \/ cur'[w] = r
          /\ \A x \in Sweepers : x # w => cur'[x] = cur[x]
      BY <1>1, <3>1 DEF Turn, SweepsTyped
    <3>5. pc[w] = "send" /\ pc'[w] \in {"mark", "send"}
      BY <1>1, <1>2, <2>6 DEF Send, Turn, Fault, Goto, ControlTyped
    <3>6. UNCHANGED <<request, queue, todo, late>>
      BY <2>6 DEF Send, records
    <3> QED BY <1>5, <3>1, <3>2, <3>3, <3>4, <3>5, <3>6 DEF Removing
  <2>7. CASE Mark(w)
    <3>1. cur'[w] # s /\ \A x \in Sweepers : x # w => cur'[x] = cur[x]
      BY <1>1, <1>2, <2>7 DEF Mark, Turn, SweepsTyped
    <3>2. UNCHANGED <<request, queue, known, todo, late, ready>>
      BY <2>7 DEF Mark
    <3> QED BY <1>5, <3>1, <3>2
  <2>8. CASE EndOfSend(w)
    <3>1. UNCHANGED <<request, queue, known, todo, late, ready, cur>>
      BY <2>8 DEF EndOfSend, records, sweep_vars
    <3>2. pc'[w] = "idle"
      BY <1>1, <1>2, <2>8 DEF EndOfSend, Goto, ControlTyped
    <3> QED BY <1>5, <3>1, <3>2 DEF Removing
  <2> QED BY <2>1, <2>2, <2>3, <2>4, <2>5, <2>6, <2>7, <2>8 DEF SweepStep
<1>8. Listed(s)' => Listed(s)
  BY <1>7 DEF Listed
<1>9. Enqueueing(s)' = Enqueueing(s)
  BY <1>4 DEF Enqueueing
<1>10. Stored(s)'
  BY <1>3, <1>4, <1>7, <1>8, <1>9 DEF Queued, Stored
<1>11. Untouched(s)'
  <2>1. ASSUME NEW x \in Sweepers, x # w
        PROVE  s \notin late'[x] /\ (cur'[x] = s => pc'[x] \notin Removing)
    BY <1>2, <1>3, <1>7, <2>1 DEF Queued, Untouched
  <2> QED BY <1>7, <2>1 DEF Untouched, Removing
<1>12. Answered(s)'
  BY <1>3, <1>4, <1>7 DEF Queued, Answered
<1> QED BY <1>10, <1>11, <1>12 DEF Queued

LEMMA InitQueueInv == Init => QueueInv
<1> SUFFICES ASSUME Init, NEW s \in Surveys PROVE Queued(s)
  BY DEF QueueInv
<1>1. /\ \A e \in Enqueuers : pc[e] = "set"
      /\ \A p \in Sweepers \cup Voters : pc[p] = "idle"
  BY SurveysAssumption DEF Init, Processes
<1>2. ~Listed(s) /\ Enqueueing(s) = {}
  BY <1>1, SurveysAssumption DEF Init, Listed, Enqueueing
<1>3. Stored(s)
  BY <1>1, <1>2 DEF Init, Stored
<1>4. Untouched(s)
  BY <1>1 DEF Init, Untouched, Removing
<1>5. Answered(s)
  BY <1>1, SurveysAssumption DEF Init, Answered, Removed
<1> QED BY <1>3, <1>4, <1>5 DEF Queued

LEMMA NextQueueInv == IInv /\ QueueInv /\ [Next]_vars => QueueInv'
<1> SUFFICES ASSUME IInv, QueueInv, [Next]_vars, Calm', NEW s \in Surveys, Current(s)'
             PROVE  Queued(s)'
  BY DEF QueueInv
<1>1. ControlTyped
  BY TypeParts DEF IInv
<1>2. Calm /\ UNCHANGED faults
  BY <1>1, CalmBefore
<1>3. Current(s) /\ Queued(s)
  BY <1>1, <1>2, PhaseChanges DEF QueueInv
<1>4. CASE \E e \in Enqueuers : Enqueue(e)
  BY <1>3, <1>4, EnqueueQueued
<1>5. CASE \E v \in Voters : Vote(v)
  BY <1>3, <1>5, VoteQueued
<1>6. CASE \E w \in Sweepers : SweepStep(w)
  BY <1>3, <1>6, SweepQueued
<1>7. CASE (\E r \in Surveys : Tick(r)) \/ PayElsewhere \/ UNCHANGED vars
  <2>1. UNCHANGED <<request, queue, response, known, pc, todo, late, ready, cur>>
    BY <1>7 DEF Tick, PayElsewhere, vars, records, sweep_vars
  <2> QED BY <1>3, <2>1 DEF Queued, Stored, Untouched, Answered, Listed, Enqueueing
<1>8. CASE \E p \in Processes : Raise(p)
  BY <1>1, <1>2, <1>8 DEF Raise, Fault, ControlTyped
<1> QED BY <1>4, <1>5, <1>6, <1>7, <1>8 DEF Next

LEMMA QueueInvHolds == Spec => [](IInv /\ QueueInv)
<1>1. Init => IInv /\ QueueInv
  BY InitIInv, InitQueueInv
<1>2. IInv /\ QueueInv /\ [Next]_vars => (IInv /\ QueueInv)'
  BY NextIInv, NextQueueInv
<1> QED BY <1>1, <1>2, PTL DEF Spec

(* A survey that was enqueued, has not expired and has no vote on file is  *)
(* in the queue with its request, whatever the sweeps tidy away.           *)
THEOREM SurveysStayQueued == Spec => []OpenSurveysStayQueued
<1>1. IInv /\ QueueInv => OpenSurveysStayQueued
  <2> SUFFICES ASSUME IInv, QueueInv, NEW e \in Enqueuers,
                      Calm, phase[EnqueueOf[e]] # "expired", response[EnqueueOf[e]] = Nobody,
                      \A d \in Enqueuers : EnqueueOf[d] = EnqueueOf[e] => pc[d] = "done"
               PROVE  EnqueueOf[e] \in queue \cap request
    BY DEF OpenSurveysStayQueued
  <2> DEFINE s == EnqueueOf[e]
  <2>1. s \in Surveys
    BY SurveysAssumption
  <2>2. Stored(s)
    BY <2>1 DEF QueueInv, Current, Queued
  <2>3. Enqueueing(s) = {} /\ s \in request
    BY <2>2 DEF Enqueueing, Stored
  <2> QED BY <2>2, <2>3 DEF Stored
<1> QED BY <1>1, QueueInvHolds, PTL

(* A survey whose vote is over is out of the queue while it is current,    *)
(* however often it is enqueued again.                                     *)
THEOREM VotesEmptyTheQueue == Spec => []AnsweredSurveysLeaveQueue
<1>1. IInv /\ QueueInv => AnsweredSurveysLeaveQueue
  BY SurveysAssumption DEF AnsweredSurveysLeaveQueue, QueueInv, Current, Queued, Answered
<1> QED BY <1>1, QueueInvHolds, PTL

-----------------------------------------------------------------------------
(* Every hold in the commons is a survey's reward.                         *)
HoldsPriced == \A s \in DOMAIN commons.holds : commons.holds[s] = Reward[s]

(* The vote was paid, or what was available when it asked did not do.      *)
Settled(v) ==
    \/ earned[v] = Reward[VoteOn[v]]
    \/ earned[v] = 0 /\ available[v] < Reward[VoteOn[v]]

(* The request was gone before the vote could ask for anything.            *)
Abandoned(v) ==
    phase[VoteOn[v]] = "expired" /\ v \notin rated /\ earned[v] = 0 /\ taken[v] = 0

Paid(v) ==
    /\ pc[v] \in {"idle", "record"} => response[VoteOn[v]] # v
    /\ v \in rated => pc[v] = "done"
    /\ pc[v] = "rate" => Settled(v)
    /\ pc[v] = "done" /\ response[VoteOn[v]] = v => (Settled(v) /\ v \in rated) \/ Abandoned(v)
PaidInv == HoldsPriced /\ (Calm => \A v \in Voters : Paid(v))

LEMMA HoldsStayPriced ==
  ASSUME Books, HoldsPriced, [Next]_vars
  PROVE  HoldsPriced'
<1>1. commons = [balance |-> commons.balance, held_total |-> commons.held_total,
                 holds |-> commons.holds]
  BY DEF Books, MoneyTyped, IsWallet
<1>2. ASSUME NEW v \in Voters, Reserves(v)
      PROVE  HoldsPriced'
  <2> DEFINE s == VoteOn[v]
  <2>1. CASE IsHeld(commons, s)
    BY <1>1, <1>2, <2>1 DEF Reserves, ApplyHold, HoldsPriced
  <2>2. CASE ~IsHeld(commons, s)
    <3>1. commons'.holds = With(commons.holds, s, Reward[s])
      BY <1>1, <1>2, <2>2 DEF Reserves, ApplyHold
    <3> QED BY <3>1 DEF HoldsPriced, With
  <2> QED BY <2>1, <2>2
<1>3. ASSUME NEW v \in Voters, Debits(v)
      PROVE  HoldsPriced'
  <2>1. commons'.holds = Without(commons.holds, VoteOn[v])
    BY <1>3 DEF Debits, ApplyRelease
  <2> QED BY <2>1 DEF HoldsPriced, Without
<1>4. ASSUME Elsewhere
      PROVE  HoldsPriced'
  <2>1. commons'.holds = commons.holds
    BY <1>1, <1>4 DEF Elsewhere
  <2> QED BY <2>1 DEF HoldsPriced
<1>5. ASSUME UNCHANGED commons
      PROVE  HoldsPriced'
  BY <1>5 DEF HoldsPriced
<1>6. \/ \E v \in Voters : Reserves(v) \/ Debits(v)
      \/ Elsewhere
      \/ UNCHANGED commons
  <2>1. ASSUME NEW v \in Voters, Vote(v)
        PROVE  Reserves(v) \/ Debits(v) \/ UNCHANGED commons
    BY <2>1 DEF Vote, Open, Record, SettleQueue, Load, HoldReward, DebitReward, CreditActor, Rate,
                Reserves, Debits, money
  <2>2. ASSUME \/ \E s \in Surveys : Tick(s)
               \/ \E e \in Enqueuers : Enqueue(e)
               \/ \E w \in Sweepers : SweepStep(w)
               \/ \E p \in Processes : Raise(p)
               \/ UNCHANGED vars
        PROVE  UNCHANGED commons
    BY <2>2 DEF Tick, Enqueue, Store, Queue, SweepStep, Sweep, Look, Clean, Check, EndOfLook, Send,
                Mark, EndOfSend, Raise, vars, money
  <2>3. PayElsewhere => Elsewhere
    BY DEF PayElsewhere, Elsewhere
  <2> QED BY <2>1, <2>2, <2>3 DEF Next
<1> QED BY <1>2, <1>3, <1>4, <1>5, <1>6

(* An expired survey stays expired. *)
LEMMA StaysExpired ==
  ASSUME ControlTyped, [Next]_vars, NEW s \in Surveys, phase[s] = "expired"
  PROVE  phase'[s] = "expired"
<1>1. UNCHANGED phase \/ \E r \in Surveys : Tick(r)
  BY DEF Next, Enqueue, Store, Queue, SweepStep, Sweep, Look, Clean, Check, EndOfLook, Send, Mark,
         EndOfSend, Vote, Open, Record, SettleQueue, Load, HoldReward, DebitReward, CreditActor,
         Rate, Raise, PayElsewhere, vars
<1> QED BY <1>1 DEF Tick, ControlTyped

(* What a vote came to does not change under the steps of others. *)
LEMMA PaidElsewhere ==
  ASSUME NEW v \in Voters, Paid(v), pc'[v] = pc[v], earned'[v] = earned[v], taken'[v] = taken[v],
         available'[v] = available[v], v \in rated <=> v \in rated',
         response'[VoteOn[v]] = v => response[VoteOn[v]] = v,
         phase[VoteOn[v]] = "expired" => phase'[VoteOn[v]] = "expired"
  PROVE  Paid(v)'
BY DEF Paid, Settled, Abandoned

(* The vote's own steps, when none of them fails. *)
LEMMA OwnPaid ==
  ASSUME IInv, QueueInv, PaidInv, NEW v \in Voters, Vote(v), Calm, Calm'
  PROVE  Paid(v)'
<1> DEFINE s == VoteOn[v]
<1>1. /\ ControlTyped /\ RecordsTyped /\ MoneyTyped /\ Asked /\ Stage(v)
      /\ v \in Processes /\ s \in Surveys /\ Reward[s] \in Nat /\ v # Nobody
  BY TypeParts, SurveysAssumption DEF IInv, ControlTyped, Stages, Processes
<1>2. Paid(v) /\ HoldsPriced /\ (Current(s) => Stored(s) /\ Answered(s))
  BY <1>1 DEF PaidInv, QueueInv, Queued
<1>3. \A l \in Labels : Goto(v, l) => pc'[v] = l
  BY <1>1, GotoTyped
<1>4. \A p, l : ~Fault(p, l)
  BY <1>1, SurveysAssumption DEF Fault, Calm
<1>5. CASE Open(v)
  <2>1. /\ pc[v] = "idle" /\ pc'[v] \in {"record", "done"} /\ response'[s] # v
        /\ UNCHANGED rated
    BY <1>2, <1>3, <1>5 DEF Open, Paid, records, Labels, Done
  <2> QED BY <1>2, <2>1 DEF Paid
<1>6. CASE Record(v)
  <2>1. /\ pc[v] = "record" /\ UNCHANGED rated
        /\ \/ pc'[v] = "index"
           \/ pc'[v] = "done" /\ response'[s] # v
    BY <1>2, <1>3, <1>6 DEF Record, Paid, Labels, Done
  <2> QED BY <1>2, <2>1 DEF Paid
<1>7. CASE SettleQueue(v)
  <2>1. /\ pc[v] \in {"index", "dequeue", "unmark"} /\ pc'[v] \in {"dequeue", "unmark", "load"}
        /\ UNCHANGED rated
    BY <1>3, <1>7 DEF SettleQueue, Labels
  <2> QED BY <1>2, <2>1 DEF Paid
<1>8. CASE Load(v)
  <2>1. /\ pc[v] = "load" /\ UNCHANGED <<rated, phase, response, earned, taken>>
        /\ \/ pc'[v] = "done" /\ s \notin request
           \/ pc'[v] = "hold"
           \/ pc'[v] = "rate" /\ Reward[s] = 0
    BY <1>3, <1>8 DEF Load, Labels, Done, money, records
  <2>2. v \notin rated /\ earned[v] = 0 /\ taken[v] = 0
    BY <1>1, <1>2, <2>1 DEF Paid, Stage, Unpaid, MoneyTyped
  <2>3. Current(s) => s \in request
    <3>1. response[s] = v /\ v # Nobody
      BY <1>1, <2>1 DEF Stage, Recorded
    <3> QED BY <1>2, <3>1 DEF Answered, Stored, Listed
  <2> QED BY <2>1, <2>2, <2>3 DEF Paid, Settled, Abandoned, Current
<1>9. CASE HoldReward(v)
  <2>1. /\ pc[v] = "hold" /\ UNCHANGED <<rated, earned>>
        /\ available'[v] = Available(commons)
        /\ \/ pc'[v] = "debit"
           \/ pc'[v] = "rate" /\ HoldOutcome(commons, s, Reward[s]) # OK
    BY <1>1, <1>3, <1>4, <1>9 DEF HoldReward, Succeed, Labels, Asked
  <2>2. HoldOutcome(commons, s, Reward[s]) # OK => Available(commons) < Reward[s]
    BY <1>2 DEF HoldOutcome, IsHeld, HoldsPriced
  <2>3. v \notin rated /\ earned[v] = 0
    BY <1>1, <1>2, <2>1 DEF Paid, Stage, Unpaid, MoneyTyped
  <2> QED BY <2>1, <2>2, <2>3 DEF Paid, Settled
<1>10. CASE DebitReward(v)
  <2>1. pc[v] = "debit" /\ pc'[v] = "credit" /\ UNCHANGED rated
    BY <1>3, <1>4, <1>10 DEF DebitReward, Succeed, Labels
  <2> QED BY <1>2, <2>1 DEF Paid
<1>11. CASE CreditActor(v)
  <2>1. /\ pc[v] = "credit" /\ pc'[v] = "rate" /\ UNCHANGED rated
        /\ earned' = [earned EXCEPT ![v] = @ + Reward[s]]
    BY <1>3, <1>4, <1>11 DEF CreditActor, Labels
  <2>2. earned'[v] = Reward[s]
    BY <1>1, <2>1 DEF Stage, MoneyTyped
  <2> QED BY <1>2, <2>1, <2>2 DEF Paid, Settled
<1>12. CASE Rate(v)
  <2>1. /\ pc[v] = "rate" /\ pc'[v] = "done" /\ v \in rated'
        /\ UNCHANGED <<available, earned>>
    BY <1>3, <1>4, <1>12 DEF Rate, Labels, Done, money
  <2> QED BY <1>2, <2>1 DEF Paid, Settled
<1> QED BY <1>5, <1>6, <1>7, <1>8, <1>9, <1>10, <1>11, <1>12 DEF Vote

LEMMA NextPaidInv == IInv /\ QueueInv /\ PaidInv /\ [Next]_vars => PaidInv'
<1> SUFFICES ASSUME IInv, QueueInv, PaidInv, [Next]_vars PROVE PaidInv'
  OBVIOUS
<1>1. ControlTyped /\ RecordsTyped /\ Books /\ Asked
  BY TypeParts DEF IInv, Books, ControlTyped
<1>2. HoldsPriced'
  BY <1>1, HoldsStayPriced DEF PaidInv
<1> SUFFICES ASSUME Calm', NEW v \in Voters PROVE Paid(v)'
  BY <1>2 DEF PaidInv
<1>3. /\ v \in Processes /\ VoteOn[v] \in Surveys /\ v # Nobody
      /\ \A p \in Sweepers \cup Enqueuers : p # v
      /\ Voters \cup Sweepers \cup Enqueuers \subseteq Processes
  BY SurveysAssumption DEF Processes
<1>4. Calm /\ UNCHANGED faults
  BY <1>1, CalmBefore
<1>5. Paid(v) /\ (phase[VoteOn[v]] = "expired" => phase'[VoteOn[v]] = "expired")
  BY <1>1, <1>3, <1>4, StaysExpired DEF PaidInv
<1>6. ASSUME NEW u \in Voters, Vote(u)
      PROVE  Paid(v)'
  <2>1. CASE u = v
    BY <1>4, <1>6, <2>1, OwnPaid
  <2>2. CASE u # v
    <3>1. UNCHANGED pc \/ \E l : Goto(u, l)
      BY <1>6 DEF Vote, Open, Record, SettleQueue, Load, HoldReward, DebitReward, CreditActor,
                  Rate, Succeed, Fault
    <3>2. pc'[v] = pc[v]
      BY <1>1, <1>3, <2>2, <3>1 DEF Goto, ControlTyped
    <3>3. /\ UNCHANGED earned \/ \E n : earned' = [earned EXCEPT ![u] = n]
          /\ UNCHANGED taken \/ \E n : taken' = [taken EXCEPT ![u] = n]
          /\ UNCHANGED available \/ \E n : available' = [available EXCEPT ![u] = n]
          /\ UNCHANGED rated \/ rated' = rated \cup {u}
      BY <1>6 DEF Vote, Open, Record, SettleQueue, Load, HoldReward, DebitReward, CreditActor,
                  Rate, money
    <3>4. /\ earned'[v] = earned[v] /\ taken'[v] = taken[v] /\ available'[v] = available[v]
          /\ v \in rated <=> v \in rated'
      BY <1>1, <2>2, <3>3 DEF Books, MoneyTyped, Asked
    <3>5. UNCHANGED response \/ response' = [response EXCEPT ![VoteOn[u]] = u]
      BY <1>6 DEF Vote, Open, Record, SettleQueue, Load, HoldReward, DebitReward, CreditActor,
                  Rate, records
    <3>6. response'[VoteOn[v]] = v => response[VoteOn[v]] = v
      BY <1>1, <1>3, <2>2, <3>5 DEF RecordsTyped
    <3> QED BY <1>5, <3>2, <3>4, <3>6, PaidElsewhere
  <2> QED BY <2>1, <2>2
<1>7. ASSUME NEW p \in Enqueuers \cup Sweepers, Enqueue(p) \/ SweepStep(p)
      PROVE  Paid(v)'
  <2>1. UNCHANGED pc \/ \E l : Goto(p, l)
    BY <1>7 DEF Enqueue, Store, Queue, SweepStep, Sweep, Look, Clean, Check, EndOfLook, Send, Mark,
                EndOfSend, Turn, Fault
  <2>2. pc'[v] = pc[v]
    BY <1>1, <1>3, <2>1 DEF Goto, ControlTyped
  <2>3. UNCHANGED <<earned, taken, available, rated, response>>
    BY <1>7 DEF Enqueue, Store, Queue, SweepStep, Sweep, Look, Clean, Check, EndOfLook, Send, Mark,
                EndOfSend, money, records
  <2> QED BY <1>5, <2>2, <2>3, PaidElsewhere
<1>8. CASE (\E r \in Surveys : Tick(r)) \/ PayElsewhere \/ UNCHANGED vars
  <2>1. UNCHANGED <<earned, taken, available, rated, response, pc>>
    BY <1>8 DEF Tick, PayElsewhere, vars, money, records
  <2> QED BY <1>5, <2>1, PaidElsewhere
<1>9. CASE \E p \in Processes : Raise(p)
  BY <1>1, <1>4, <1>9 DEF Raise, Fault, ControlTyped
<1> QED BY <1>6, <1>7, <1>8, <1>9 DEF Next

(* While nothing fails, a vote that is on file when its submission is over *)
(* was paid in full, unless the commons did not have the reward when it    *)
(* was asked, and counted; or its survey expired under it, and a sweep     *)
(* took the request away before it was paid or counted.                    *)
THEOREM RecordedVotesGetPaid == Spec => []RecordedVotesArePaid
<1>1. Init => PaidInv
  <2> SUFFICES ASSUME Init PROVE PaidInv
    OBVIOUS
  <2>1. /\ \A v \in Voters : pc[v] = "idle" /\ v # Nobody /\ VoteOn[v] \in Surveys
        /\ rated = {} /\ \A s \in Surveys : response[s] = Nobody
    BY SurveysAssumption DEF Init, Processes
  <2>2. HoldsPriced
    BY DEF Init, FreshWallet, NoCredits, HoldsPriced
  <2> QED BY <2>1, <2>2 DEF PaidInv, Paid
<1>2. (IInv /\ QueueInv) /\ PaidInv /\ [Next]_vars => PaidInv'
  BY NextPaidInv
<1>3. PaidInv => RecordedVotesArePaid
  BY DEF PaidInv, Paid, Settled, Abandoned, RecordedVotesArePaid
<1> QED BY <1>1, <1>2, <1>3, QueueInvHolds, PTL DEF Spec

-----------------------------------------------------------------------------
(* One sweep fires at a time.  A survey that was sent and not answered is  *)
(* marked, or about to be, and no sweep has it to send.                    *)
Marked(s) ==
    /\ s \in fired \/ \E w \in Firing : pc[w] = "mark" /\ cur[w] = s
    /\ \A w \in Firing : s \notin ready[w]
Waiting(s) == Current(s) /\ response[s] = Nobody /\ asked[s] > 0
FiredInv == Calm => \A s \in Surveys : Waiting(s) => Marked(s)

LEMMA VoteMarked ==
  ASSUME IInv, NEW s \in Surveys, Waiting(s) => Marked(s), NEW v \in Voters, Vote(v), Waiting(s)'
  PROVE  Marked(s)'
<1>1. /\ ControlTyped /\ RecordsTyped /\ Stage(v)
      /\ v # Nobody /\ v \in Processes /\ VoteOn[v] \in Surveys
      /\ Sweepers \subseteq Processes /\ Firing \subseteq Sweepers /\ v \notin Sweepers
  BY TypeParts, SurveysAssumption DEF IInv, ControlTyped, Stages, Processes
<1>2. UNCHANGED <<phase, asked, ready, cur>>
  BY DEF Vote, Open, Record, SettleQueue, Load, HoldReward, DebitReward, CreditActor, Rate,
         sweep_vars
<1>3. UNCHANGED response \/ (response' = [response EXCEPT ![VoteOn[v]] = v])
  BY DEF Vote, Open, Record, SettleQueue, Load, HoldReward, DebitReward, CreditActor, Rate,
         records
<1>4. response[s] = Nobody /\ Marked(s)
  BY <1>1, <1>2, <1>3 DEF RecordsTyped, Waiting, Current
<1>5. \A w \in Firing : pc'[w] = pc[w]
  <2>1. \E l : Goto(v, l)
    BY DEF Vote, Open, Record, SettleQueue, Load, HoldReward, DebitReward, CreditActor, Rate,
           Succeed, Fault
  <2> QED BY <1>1, <2>1 DEF Goto, ControlTyped
<1>6. s \in fired => s \in fired'
  <2>1. UNCHANGED fired \/ (pc[v] = "unmark" /\ fired' = fired \ {VoteOn[v]})
    BY DEF Vote, Open, Record, SettleQueue, Load, HoldReward, DebitReward, CreditActor, Rate,
           records
  <2> QED BY <1>1, <1>4, <2>1 DEF Stage, Recorded
<1> QED BY <1>2, <1>4, <1>5, <1>6 DEF Marked

LEMMA SweepMarked ==
  ASSUME \A w, x \in Firing : w = x, IInv, NEW s \in Surveys, Queued(s),
         Waiting(s) => Marked(s), NEW w \in Sweepers, SweepStep(w), Calm, Calm', Waiting(s)'
  PROVE  Marked(s)'
<1>1. /\ ControlTyped /\ SweepsTyped /\ asked \in [Surveys -> Nat]
      /\ Sweepers \subseteq Processes /\ Firing \subseteq Sweepers
  BY TypeParts, SurveysAssumption DEF IInv, ControlTyped, Processes
<1>2. UNCHANGED <<response, phase>>
  BY DEF SweepStep, Sweep, Look, Clean, Check, EndOfLook, Send, Mark, EndOfSend, records
<1>3. \A p, l : ~Fault(p, l)
  BY <1>1, SurveysAssumption DEF Fault, Calm, ControlTyped
<1>4. /\ UNCHANGED pc \/ \E l : Goto(w, l)
      /\ UNCHANGED cur \/ \E r : cur' = [cur EXCEPT ![w] = r]
      /\ UNCHANGED ready \/ \E list : ready' = [ready EXCEPT ![w] = list]
  BY DEF SweepStep, Sweep, Look, Clean, Check, EndOfLook, Send, Mark, EndOfSend, Turn, Fault,
         sweep_vars
<1>5. \A x \in Sweepers : x # w => pc'[x] = pc[x] /\ cur'[x] = cur[x] /\ ready'[x] = ready[x]
  BY <1>1, <1>4 DEF Goto, ControlTyped, SweepsTyped
<1>6. s \in fired => s \in fired'
  <2>1. UNCHANGED fired \/ (\E r : fired' = fired \cup {r}) \/ Clean(w)
    BY DEF SweepStep, Sweep, Look, Check, EndOfLook, Send, Mark, EndOfSend, records
  <2>2. CASE Clean(w)
    BY <2>2 DEF Clean, Queued, Untouched, Removing
  <2> QED BY <2>1, <2>2
<1>7. CASE w \notin Firing
  <2>1. UNCHANGED asked
    BY <1>1, <1>7 DEF SweepStep, Sweep, Look, Clean, Check, EndOfLook, Send, Mark, EndOfSend,
                      SweepsTyped
  <2> QED BY <1>1, <1>2, <1>5, <1>6, <1>7, <2>1 DEF Waiting, Current, Marked
<1>8. CASE w \in Firing
  <2>1. \A x \in Firing : x = w
    BY <1>8
  <2> USE <1>8, <2>1
  <2>2. CASE Sweep(w) \/ Look(w) \/ Clean(w) \/ EndOfLook(w) \/ EndOfSend(w)
    <3>1. UNCHANGED asked /\ pc[w] # "mark"
      BY <2>2 DEF Sweep, Look, Clean, EndOfLook, EndOfSend
    <3>2. s \in fired /\ s \notin ready[w]
      BY <1>2, <3>1 DEF Waiting, Current, Marked
    <3>3. UNCHANGED ready \/ ready' = [ready EXCEPT ![w] = {}]
      BY <2>2 DEF Sweep, Look, Clean, EndOfLook, EndOfSend, sweep_vars
    <3> QED BY <1>1, <1>6, <3>2, <3>3 DEF Marked, SweepsTyped
  <2>3. CASE Check(w)
    <3>1. UNCHANGED asked /\ pc[w] # "mark"
      BY <2>3 DEF Check
    <3>2. s \in fired /\ s \notin ready[w]
      BY <1>2, <3>1 DEF Waiting, Current, Marked
    <3>3. UNCHANGED ready \/ (cur[w] \notin fired /\ ready' = [ready EXCEPT ![w] = @ \cup {cur[w]}])
      BY <2>3 DEF Check
    <3> QED BY <1>1, <1>6, <3>2, <3>3 DEF Marked, SweepsTyped
  <2>4. CASE Send(w)
    <3>1. PICK r \in Oldest(ready[w], 1) :
            /\ ready' = [ready EXCEPT ![w] = @ \ {r}]
            /\ \/ asked' = [asked EXCEPT ![r] = @ + 1] /\ Turn(w, r, "mark")
               \/ UNCHANGED <<pc, cur, asked>>
      BY <1>3, <2>4 DEF Send
    <3>2. pc[w] = "send" /\ r \in ready[w] /\ ready'[w] \subseteq ready[w] \ {r}
      BY <1>1, <2>4, <3>1, OldestInside DEF Send, SweepsTyped
    <3>3. CASE r = s /\ Turn(w, r, "mark")
      <4>1. pc'[w] = "mark" /\ cur'[w] = s
        BY <1>1, <3>3 DEF Turn, Goto, ControlTyped, SweepsTyped
      <4> QED BY <3>2, <3>3, <4>1 DEF Marked
    <3>4. CASE asked'[s] = asked[s]
      <4>1. s \in fired /\ s \notin ready[w]
        BY <1>2, <3>2, <3>4 DEF Waiting, Current, Marked
      <4> QED BY <1>6, <3>2, <4>1 DEF Marked
    <3> QED BY <1>1, <3>1, <3>3, <3>4
  <2>5. CASE Mark(w)
    <3>1. UNCHANGED <<asked, ready>> /\ fired' = fired \cup {cur[w]}
      BY <2>5 DEF Mark
    <3> QED BY <1>2, <3>1 DEF Waiting, Current, Marked
  <2> QED BY <2>2, <2>3, <2>4, <2>5 DEF SweepStep
<1> QED BY <1>7, <1>8

(* While nothing fails and one sweep fires at a time, a survey that was    *)
(* sent is not sent again before its response is submitted or it expires.  *)
THEOREM SurveysFireOnce ==
  ASSUME \A w, x \in Firing : w = x
  PROVE  Spec => FiredOnceUntilAnswered
<1>1. Init => FiredInv
  BY DEF Init, FiredInv, Waiting
<1>2. (IInv /\ QueueInv) /\ FiredInv /\ [Next]_vars => FiredInv'
  <2> SUFFICES ASSUME IInv, QueueInv, FiredInv, [Next]_vars, Calm', NEW s \in Surveys, Waiting(s)'
               PROVE  Marked(s)'
    BY DEF FiredInv
  <2>1. ControlTyped
    BY TypeParts DEF IInv
  <2>2. Calm /\ UNCHANGED faults
    BY <2>1, CalmBefore
  <2>3. Queued(s) /\ (Waiting(s) => Marked(s))
    BY <2>1, <2>2, PhaseChanges DEF Waiting, QueueInv, FiredInv
  <2>4. CASE \E v \in Voters : Vote(v)
    BY <2>3, <2>4, VoteMarked
  <2>5. CASE \E w \in Sweepers : SweepStep(w)
    BY <2>2, <2>3, <2>5, SweepMarked
  <2>6. CASE \E e \in Enqueuers : Enqueue(e)
    <3>1. PICK e \in Enqueuers : Enqueue(e)
      BY <2>6
    <3>2. UNCHANGED <<phase, asked, response, fired, ready, cur>> /\ \E l : Goto(e, l)
      BY <3>1 DEF Enqueue, Store, Queue, sweep_vars
    <3>3. \A w \in Firing : pc'[w] = pc[w]
      BY <2>1, <3>2, SurveysAssumption DEF Goto, ControlTyped, Processes
    <3> QED BY <2>3, <3>2, <3>3 DEF Waiting, Current, Marked
  <2>7. CASE (\E r \in Surveys : Tick(r)) \/ PayElsewhere \/ UNCHANGED vars
    <3>1. UNCHANGED <<asked, response, fired, ready, cur, pc>>
      BY <2>7 DEF Tick, PayElsewhere, vars, records, sweep_vars
    <3>2. Current(s)
      BY <2>1, PhaseChanges DEF Waiting
    <3> QED BY <2>3, <3>1, <3>2 DEF Waiting, Marked
  <2>8. CASE \E p \in Processes : Raise(p)
    BY <2>1, <2>2, <2>8 DEF Raise, Fault, ControlTyped
  <2> QED BY <2>4, <2>5, <2>6, <2>7, <2>8 DEF Next
<1>3. IInv /\ FiredInv /\ [Next]_vars =>
        [\A s \in Surveys :
           Calm /\ phase[s] # "expired" /\ asked[s] > 0 /\ asked'[s] > asked[s]
           => response[s] # Nobody]_vars
  <2> SUFFICES ASSUME IInv, FiredInv, Next, NEW s \in Surveys,
                      Calm, phase[s] # "expired", asked[s] > 0, asked'[s] > asked[s],
                      response[s] = Nobody
               PROVE  FALSE
    OBVIOUS
  <2>1. ControlTyped /\ SweepsTyped /\ asked \in [Surveys -> Nat]
    BY TypeParts DEF IInv, ControlTyped
  <2>2. Marked(s)
    BY DEF FiredInv, Waiting, Current
  <2>3. ~UNCHANGED asked
    BY <2>1
  <2>4. PICK w \in Sweepers : Send(w)
    BY <2>3 DEF Next, Tick, Enqueue, Store, Queue, SweepStep, Sweep, Look, Clean, Check, EndOfLook,
                Mark, EndOfSend, Vote, Open, Record, SettleQueue, Load, HoldReward, DebitReward,
                CreditActor, Rate, Raise, PayElsewhere
  <2>5. PICK r \in Oldest(ready[w], 1) : asked' = [asked EXCEPT ![r] = @ + 1]
    BY <2>3, <2>4 DEF Send
  <2>6. r = s /\ s \in ready[w]
    BY <2>1, <2>5, OldestInside
  <2>7. w \in Firing
    BY <2>1, <2>4 DEF Send, SweepsTyped
  <2> QED BY <2>2, <2>6, <2>7 DEF Marked
<1> QED BY <1>1, <1>2, <1>3, QueueInvHolds, PTL DEF Spec, FiredOnceUntilAnswered
=============================================================================
