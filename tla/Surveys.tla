------------------------------ MODULE Surveys ------------------------------
(***************************************************************************)
(* The survey queue of the broker: requests are queued at settlement,      *)
(* swept once they are due, sent to the actor who should vote, and voted   *)
(* on; a recorded vote is paid for out of the commons.                     *)
(*                                                                         *)
(* Everything is in Redis and every command is a step of its own: the      *)
(* request, its place in the queue, the fired marker and the response are  *)
(* separate keys, and enqueuers, sweepers and voters are separate          *)
(* processes.                                                              *)
(***************************************************************************)
EXTENDS WalletState

CONSTANTS Surveys,       \* survey ids
          Enqueuers,     \* calls of enqueue
          Sweepers,      \* processes calling fire_due or list_pending
          Voters,        \* calls of submit_response (cmd_vote)
          Firing,        \* the sweepers that call fire_due
          EnqueueOf,     \* [Enqueuers -> Surveys]
          VoteOn,        \* [Voters -> Surveys]
          Reward,        \* [Surveys -> Nat]
          DispatchAt,    \* [Surveys -> Nat]: the order in which they become due
          MaxDispatch,   \* max_dispatch of fire_due
          ListLimit,     \* limit of list_pending
          Nobody,        \* no response on file
          MaxSweeps,     \* bound of the model: [Sweepers -> Nat], sweeps of each
          MaxOthers,     \* bound of the model: credits the commons pays elsewhere
          MaxFaults      \* bound of the model: failed commands, cancellations

ASSUME SurveysAssumption ==
    /\ IsFiniteSet(Surveys) /\ IsFiniteSet(Voters)
    /\ Firing \subseteq Sweepers
    /\ Enqueuers \cap Sweepers = {} /\ Enqueuers \cap Voters = {} /\ Sweepers \cap Voters = {}
    /\ EnqueueOf \in [Enqueuers -> Surveys]
    /\ VoteOn \in [Voters -> Surveys]
    /\ Reward \in [Surveys -> Nat]
    /\ DispatchAt \in [Surveys -> Nat]
    /\ \A r, s \in Surveys : DispatchAt[r] = DispatchAt[s] => r = s
    /\ MaxDispatch \in Nat \ {0} /\ ListLimit \in Nat \ {0}
    /\ Nobody \notin Voters \cup Surveys
    /\ MaxSweeps \in [Sweepers -> Nat] /\ MaxOthers \in Nat /\ MaxFaults \in Nat

VARIABLES request,    \* ids with a request record
          queue,      \* ids in the sorted set
          fired,      \* ids in SURVEY_FIRED_INDEX
          response,   \* [Surveys -> Voters \cup {Nobody}]: whose response is stored
          index,      \* ids in SURVEY_RESPONSE_INDEX
          commons,    \* the commons wallet
          rated,      \* voters whose score was folded into the reputation
          phase,      \* the clock: not yet due, due, or expired
          known,      \* ids somebody was shown or sent
          pc,         \* where each process is
          todo,       \* ids a sweep has still to look at
          late,       \* ids that had expired when the sweep began
          ready,      \* ids a sweep is going to dispatch or to list
          cur,        \* the id a sweep is at, or Nobody
          sweeps,     \* sweeps each sweeper began
          faults,     \* failures so far
          asked,      \* history: how often a survey was sent to its actor
          taken,      \* history: what each vote debited from the commons
          earned,     \* history: what each vote credited to its actor
          others,     \* history: what the commons paid elsewhere
          available   \* history: what the commons had to spend when a vote asked it

records == <<request, queue, fired, response, index>>
money == <<commons, taken, earned, others, available>>
sweep_vars == <<todo, late, ready, cur, sweeps>>
vars == <<request, queue, fired, response, index, commons, rated, phase, known, pc, todo,
          late, ready, cur, sweeps, faults, asked, taken, earned, others, available>>

Processes == Enqueuers \cup Sweepers \cup Voters
Done == {"done", "raised"}
Labels == {"set", "zadd", "idle", "look", "tidy", "dequeue", "unmark", "forget", "check",
           "send", "mark", "record", "index", "load", "hold", "debit", "credit", "rate"} \cup Done

RecordsTyped ==
    /\ request \in SUBSET Surveys
    /\ queue \in SUBSET Surveys
    /\ fired \in SUBSET Surveys
    /\ index \in SUBSET Surveys
    /\ response \in [Surveys -> Voters \cup {Nobody}]

SweepsTyped ==
    /\ todo \in [Sweepers -> SUBSET Surveys]
    /\ late \in [Sweepers -> SUBSET Surveys]
    /\ ready \in [Sweepers -> SUBSET Surveys]
    /\ cur \in [Sweepers -> Surveys \cup {Nobody}]
    /\ sweeps \in [Sweepers -> Nat]
    /\ \A w \in Sweepers : sweeps[w] <= MaxSweeps[w]
    /\ \A w \in Sweepers \ Firing : pc[w] \notin {"check", "send", "mark"}

MoneyTyped ==
    /\ IsWallet(commons, Surveys)
    /\ taken \in [Voters -> Nat]
    /\ earned \in [Voters -> Nat]
    /\ others \in 0..MaxOthers

TypeOK ==
    /\ RecordsTyped /\ SweepsTyped /\ MoneyTyped
    /\ rated \in SUBSET Voters
    /\ phase \in [Surveys -> {"early", "due", "expired"}]
    /\ known \in SUBSET Surveys
    /\ pc \in [Processes -> Labels]
    /\ faults \in 0..MaxFaults
    /\ asked \in [Surveys -> Nat]
    /\ available \in [Voters -> Int]

Init ==
    /\ request = {} /\ queue = {} /\ fired = {} /\ index = {} /\ known = {}
    /\ response = [s \in Surveys |-> Nobody]
    /\ commons = FreshWallet
    /\ rated = {}
    /\ phase = [s \in Surveys |-> "early"]
    /\ pc = [p \in Processes |-> IF p \in Enqueuers THEN "set" ELSE "idle"]
    /\ todo = [w \in Sweepers |-> {}]
    /\ late = [w \in Sweepers |-> {}]
    /\ ready = [w \in Sweepers |-> {}]
    /\ cur = [w \in Sweepers |-> Nobody]
    /\ sweeps = [w \in Sweepers |-> 0]
    /\ faults = 0
    /\ asked = [s \in Surveys |-> 0]
    /\ taken = [v \in Voters |-> 0]
    /\ earned = [v \in Voters |-> 0]
    /\ others = 0
    /\ available = [v \in Voters |-> 0]

-----------------------------------------------------------------------------
Goto(p, next) == pc' = [pc EXCEPT ![p] = next]

Fault(p, next) ==
    /\ faults < MaxFaults
    /\ faults' = faults + 1
    /\ Goto(p, next)

(* A command inside a try: it takes effect, and its reply may be lost.     *)
Succeed(p, next, failed) ==
    \/ Goto(p, next) /\ UNCHANGED faults
    \/ Fault(p, failed)

(* The clock passes dispatch_at, in the order of the queue, then expires_at. *)
Tick(s) ==
    /\ phase[s] # "expired"
    /\ \A r \in Surveys : DispatchAt[r] < DispatchAt[s] => phase[r] # "early"
    /\ phase' = [phase EXCEPT ![s] = IF @ = "early" THEN "due" ELSE "expired"]
    /\ UNCHANGED <<records, money, rated, known, pc, sweep_vars, faults, asked>>

(* An await raises, or the process is cancelled or dies there: it goes no  *)
(* further.  A command whose reply is lost raises after it took effect.    *)
Raise(p) ==
    /\ pc[p] \notin Done \cup {"idle"}
    /\ Fault(p, "raised")
    /\ UNCHANGED <<records, money, rated, phase, known, sweep_vars, asked>>

-----------------------------------------------------------------------------
(* Mutant: the id is queued again although its record is there. *)
StoreAlways(e) ==
    /\ pc[e] = "set"
    /\ request' = request \cup {EnqueueOf[e]}
    /\ Goto(e, "zadd")
    /\ UNCHANGED <<queue, fired, response, index, money, rated, phase, known, sweep_vars,
                   faults, asked>>

(* enqueue: SET NX of the record; only the first goes on to the queue. *)
Store(e) ==
    LET s == EnqueueOf[e] IN
    /\ pc[e] = "set"
    /\ \/ s \notin request /\ request' = request \cup {s} /\ Goto(e, "zadd")
       \/ s \in request /\ Goto(e, "done") /\ UNCHANGED request
    /\ UNCHANGED <<queue, fired, response, index, money, rated, phase, known, sweep_vars,
                   faults, asked>>

Queue(e) ==
    /\ pc[e] = "zadd"
    /\ queue' = queue \cup {EnqueueOf[e]}
    /\ Goto(e, "done")
    /\ UNCHANGED <<request, fired, response, index, money, rated, phase, known, sweep_vars,
                   faults, asked>>

-----------------------------------------------------------------------------
Turn(w, s, next) == Goto(w, next) /\ cur' = [cur EXCEPT ![w] = s]

(* The first n ids in the order of the queue. *)
Oldest(ids, n) ==
    {s \in ids : Cardinality({r \in ids : DispatchAt[r] < DispatchAt[s]}) < n}

Due == {s \in queue : phase[s] # "early"}

(* ZRANGEBYSCORE: the oldest ids that are due by now, or (list_pending     *)
(* with include_future) in the queue, up to a limit.  The same now decides *)
(* what has expired.                                                       *)
Sweep(w) ==
    /\ pc[w] = "idle" /\ sweeps[w] < MaxSweeps[w]
    /\ sweeps' = [sweeps EXCEPT ![w] = @ + 1]
    /\ late' = [late EXCEPT ![w] = {s \in Surveys : phase[s] = "expired"}]
    /\ \/ w \in Firing /\ todo' = [todo EXCEPT ![w] = Oldest(Due, 2 * MaxDispatch)]
       \/ /\ w \notin Firing
          /\ \E ids \in {Due, queue} : todo' = [todo EXCEPT ![w] = Oldest(ids, ListLimit)]
    /\ Goto(w, "look")
    /\ UNCHANGED <<records, money, rated, phase, known, ready, cur, faults, asked>>

(* Mutant: a request is taken for expired when it is no longer early. *)
LookBeforeDispatch(w) ==
    /\ pc[w] = "look"
    /\ \E s \in Oldest(todo[w], 1) :
         /\ todo' = [todo EXCEPT ![w] = @ \ {s}]
         /\ \/ s \notin request /\ Turn(w, s, "tidy")
            \/ s \in request /\ phase[s] # "early" /\ Turn(w, s, "dequeue")
    /\ UNCHANGED <<records, money, rated, phase, known, late, ready, sweeps, faults, asked>>

(* get_request of the next id: the queue entry of a deleted request is     *)
(* tidied up, an expired request abandoned, any other looked at further    *)
(* (fire_due) or taken into the list, if it is for the surveyed_actor the  *)
(* list is for (list_pending).                                             *)
Look(w) ==
    /\ pc[w] = "look"
    /\ \E s \in Oldest(todo[w], 1) :
         /\ todo' = [todo EXCEPT ![w] = @ \ {s}]
         /\ \/ s \notin request /\ Turn(w, s, "tidy") /\ UNCHANGED ready
            \/ s \in request \cap late[w] /\ Turn(w, s, "dequeue") /\ UNCHANGED ready
            \/ s \in request \ late[w] /\ w \in Firing /\ Turn(w, s, "check") /\ UNCHANGED ready
            \/ /\ s \in request \ late[w] /\ w \notin Firing
               /\ \E list \in {{}, {s}} : ready' = [ready EXCEPT ![w] = @ \cup list]
               /\ UNCHANGED <<pc, cur>>
    /\ UNCHANGED <<records, money, rated, phase, known, late, sweeps, faults, asked>>

(* One command of the tidying (zrem) or of _abandon (zrem, srem, delete). *)
Clean(w) ==
    LET s == cur[w] IN
    /\ \/ /\ pc[w] = "tidy"
          /\ queue' = queue \ {s} /\ Turn(w, Nobody, "look")
          /\ UNCHANGED <<request, fired>>
       \/ /\ pc[w] = "dequeue"
          /\ queue' = queue \ {s} /\ Turn(w, s, "unmark")
          /\ UNCHANGED <<request, fired>>
       \/ /\ pc[w] = "unmark"
          /\ fired' = fired \ {s} /\ Turn(w, s, "forget")
          /\ UNCHANGED <<request, queue>>
       \/ /\ pc[w] = "forget"
          /\ request' = request \ {s} /\ Turn(w, Nobody, "look")
          /\ UNCHANGED <<queue, fired>>
    /\ UNCHANGED <<response, index, money, rated, phase, known, todo, late, ready, sweeps,
                   faults, asked>>

(* Mutant: the marker is not asked for. *)
CheckNothing(w) ==
    /\ pc[w] = "check"
    /\ ready' = [ready EXCEPT ![w] = @ \cup {cur[w]}]
    /\ Turn(w, Nobody, "look")
    /\ UNCHANGED <<records, money, rated, phase, known, todo, late, sweeps, faults, asked>>

(* SISMEMBER of the fired set; max_dispatch ids that are not in it are     *)
(* enough.                                                                 *)
Check(w) ==
    LET s == cur[w] IN
    /\ pc[w] = "check"
    /\ \/ s \in fired /\ UNCHANGED <<ready, todo>>
       \/ /\ s \notin fired
          /\ ready' = [ready EXCEPT ![w] = @ \cup {s}]
          /\ todo' = [todo EXCEPT ![w] =
                        IF Cardinality(ready[w]) + 1 >= MaxDispatch THEN {} ELSE @]
    /\ Turn(w, Nobody, "look")
    /\ UNCHANGED <<records, money, rated, phase, known, late, sweeps, faults, asked>>

(* All ids are looked at.  Without a bus, and in list_pending, that is all *)
(* and the caller is given the list.                                       *)
EndOfLook(w) ==
    /\ pc[w] = "look" /\ todo[w] = {}
    /\ \/ w \in Firing /\ Goto(w, "send") /\ UNCHANGED <<known, ready>>
       \/ /\ known' = known \cup ready[w]
          /\ ready' = [ready EXCEPT ![w] = {}]
          /\ Goto(w, "idle")
    /\ UNCHANGED <<records, money, rated, phase, todo, late, cur, sweeps, faults, asked>>

(* bus.send to the surveyed actor, who hears it if it is listening; a      *)
(* survey whose address does not parse, or whose send raises, is left for  *)
(* a later sweep.                                                          *)
Send(w) ==
    /\ pc[w] = "send"
    /\ \E s \in Oldest(ready[w], 1) :
         /\ ready' = [ready EXCEPT ![w] = @ \ {s}]
         /\ \/ /\ asked' = [asked EXCEPT ![s] = @ + 1]
               /\ known' \in {known, known \cup {s}}
               /\ \/ Turn(w, s, "mark") /\ UNCHANGED faults
                  \/ Fault(w, "send") /\ UNCHANGED cur
            \/ UNCHANGED <<pc, cur, known, asked, faults>>
    /\ UNCHANGED <<records, money, rated, phase, todo, late, sweeps>>

Mark(w) ==
    /\ pc[w] = "mark"
    /\ fired' = fired \cup {cur[w]}
    /\ Turn(w, Nobody, "send")
    /\ UNCHANGED <<request, queue, response, index, money, rated, phase, known, todo, late,
                   ready, sweeps, faults, asked>>

EndOfSend(w) ==
    /\ pc[w] = "send" /\ ready[w] = {}
    /\ Goto(w, "idle")
    /\ UNCHANGED <<records, money, rated, phase, known, sweep_vars, faults, asked>>

-----------------------------------------------------------------------------
(* cmd_vote: get_request of an id the voter was shown or sent. *)
Open(v) ==
    LET s == VoteOn[v] IN
    /\ pc[v] = "idle" /\ s \in known
    /\ Goto(v, IF s \in request THEN "record" ELSE "done")
    /\ UNCHANGED <<records, money, rated, phase, known, sweep_vars, faults, asked>>

(* Mutant: the last vote wins. *)
RecordAlways(v) ==
    /\ pc[v] = "record"
    /\ response' = [response EXCEPT ![VoteOn[v]] = v]
    /\ Goto(v, "index")
    /\ UNCHANGED <<request, queue, fired, index, money, rated, phase, known, sweep_vars,
                   faults, asked>>

(* submit_response: SET NX of the response; a second vote is a no-op. *)
Record(v) ==
    LET s == VoteOn[v] IN
    /\ pc[v] = "record"
    /\ \/ response[s] = Nobody /\ response' = [response EXCEPT ![s] = v] /\ Goto(v, "index")
       \/ response[s] # Nobody /\ Goto(v, "done") /\ UNCHANGED response
    /\ UNCHANGED <<request, queue, fired, index, money, rated, phase, known, sweep_vars,
                   faults, asked>>

(* Mutant: the request goes with the marker, "cleared along with the request". *)
SettleQueueForgetting(v) ==
    LET s == VoteOn[v] IN
    /\ v \in Voters
    /\ \/ pc[v] = "index" /\ index' = index \cup {s} /\ Goto(v, "dequeue")
          /\ UNCHANGED <<request, queue, fired>>
       \/ pc[v] = "dequeue" /\ queue' = queue \ {s} /\ Goto(v, "unmark")
          /\ UNCHANGED <<request, fired, index>>
       \/ pc[v] = "unmark" /\ fired' = fired \ {s} /\ request' = request \ {s}
          /\ Goto(v, "load") /\ UNCHANGED <<queue, index>>
    /\ UNCHANGED <<response, money, rated, phase, known, sweep_vars, faults, asked>>

(* SADD to the index, ZREM from the queue, SREM of the marker. *)
SettleQueue(v) ==
    LET s == VoteOn[v] IN
    /\ v \in Voters
    /\ \/ /\ pc[v] = "index"
          /\ index' = index \cup {s} /\ Goto(v, "dequeue")
          /\ UNCHANGED <<queue, fired>>
       \/ /\ pc[v] = "dequeue"
          /\ queue' = queue \ {s} /\ Goto(v, "unmark")
          /\ UNCHANGED <<fired, index>>
       \/ /\ pc[v] = "unmark"
          /\ fired' = fired \ {s} /\ Goto(v, "load")
          /\ UNCHANGED <<queue, index>>
    /\ UNCHANGED <<request, response, money, rated, phase, known, sweep_vars, faults, asked>>

(* get_request once more: without it nobody is paid and nothing rated. *)
Load(v) ==
    LET s == VoteOn[v] IN
    /\ pc[v] = "load"
    /\ \/ s \notin request /\ Goto(v, "done")
       \/ s \in request /\ Reward[s] > 0 /\ Goto(v, "hold")
       \/ s \in request /\ Reward[s] = 0 /\ Goto(v, "rate")
    /\ UNCHANGED <<records, money, rated, phase, known, sweep_vars, faults, asked>>

(* _pay_and_score: hold the reward in the commons, debit it, credit the    *)
(* actor; whatever raises is logged, and the score still counts.           *)
HoldReward(v) ==
    LET s == VoteOn[v] IN
    /\ pc[v] = "hold"
    /\ available' = [available EXCEPT ![v] = Available(commons)]
    /\ \/ /\ HoldOutcome(commons, s, Reward[s]) = OK
          /\ commons' = ApplyHold(commons, s, Reward[s])
          /\ Succeed(v, "debit", "rate")
       \/ /\ HoldOutcome(commons, s, Reward[s]) # OK
          /\ Goto(v, "rate")
          /\ UNCHANGED <<commons, faults>>
       \/ Fault(v, "rate") /\ UNCHANGED commons
    /\ UNCHANGED <<records, taken, earned, others, rated, phase, known, sweep_vars, asked>>

(* The hold is this vote's own, so the debit is never refused. *)
DebitReward(v) ==
    LET s == VoteOn[v] IN
    /\ pc[v] = "debit"
    /\ \/ /\ ReleaseOutcome(commons, s, Reward[s]) = OK
          /\ commons' = ApplyRelease(commons, s, Reward[s])
          /\ taken' = [taken EXCEPT ![v] = @ + Reward[s]]
          /\ Succeed(v, "credit", "rate")
       \/ Fault(v, "rate") /\ UNCHANGED <<commons, taken>>
    /\ UNCHANGED <<records, earned, others, available, rated, phase, known, sweep_vars, asked>>

CreditActor(v) ==
    /\ pc[v] = "credit"
    /\ \/ /\ earned' = [earned EXCEPT ![v] = @ + Reward[VoteOn[v]]]
          /\ Goto(v, "rate")
          /\ UNCHANGED faults
       \/ Fault(v, "rate") /\ UNCHANGED earned
    /\ UNCHANGED <<records, commons, taken, others, available, rated, phase, known, sweep_vars,
                   asked>>

(* The commons pays for surveys that are not in the model. *)
PayElsewhere ==
    /\ others < MaxOthers /\ Available(commons) > 0
    /\ commons' = [commons EXCEPT !.balance = @ - 1]
    /\ others' = others + 1
    /\ UNCHANGED <<records, taken, earned, available, rated, phase, known, pc, sweep_vars,
                   faults, asked>>

(* apply_csat on the target server's reputation; errors are logged. *)
Rate(v) ==
    /\ pc[v] = "rate"
    /\ \/ rated' = rated \cup {v} /\ Goto(v, "done") /\ UNCHANGED faults
       \/ Fault(v, "done") /\ UNCHANGED rated
    /\ UNCHANGED <<records, money, phase, known, sweep_vars, asked>>

Enqueue(e) == Store(e) \/ Queue(e)
SweepStep(w) ==
    \/ Sweep(w) \/ Look(w) \/ Clean(w) \/ Check(w) \/ EndOfLook(w)
    \/ Send(w) \/ Mark(w) \/ EndOfSend(w)
Vote(v) ==
    \/ Open(v) \/ Record(v) \/ SettleQueue(v) \/ Load(v)
    \/ HoldReward(v) \/ DebitReward(v) \/ CreditActor(v) \/ Rate(v)

Next ==
    \/ \E s \in Surveys : Tick(s)
    \/ \E e \in Enqueuers : Enqueue(e)
    \/ \E w \in Sweepers : SweepStep(w)
    \/ \E v \in Voters : Vote(v)
    \/ \E p \in Processes : Raise(p)
    \/ PayElsewhere

Spec == Init /\ [][Next]_vars
-----------------------------------------------------------------------------
Calm == faults = 0

(* The rewards being paid never overcommit the commons, and all that has   *)
(* left it was debited for a vote.                                         *)
CommonsSound ==
    Sound(commons) /\ commons.balance + Total(taken) + others = INITIAL_FUND

(* A survey pays at most its reward, once, to the vote on file, and out of *)
(* the commons, however many votes are cast and repeated for it.           *)
RewardPaidOnce ==
    \A v \in Voters :
      /\ earned[v] <= taken[v] /\ taken[v] <= Reward[VoteOn[v]]
      /\ taken[v] > 0 => response[VoteOn[v]] = v

(* An enqueued survey that has not expired waits in the queue with its     *)
(* request until it is answered, whatever the sweeps tidy away.            *)
OpenSurveysStayQueued ==
    \A e \in Enqueuers :
      LET s == EnqueueOf[e] IN
      /\ Calm /\ phase[s] # "expired" /\ response[s] = Nobody
      /\ \A d \in Enqueuers : EnqueueOf[d] = s => pc[d] = "done"
      => s \in queue \cap request

(* A survey whose vote is over does not come back to the queue while it    *)
(* could still be sent, however enqueues of it repeat.                     *)
AnsweredSurveysLeaveQueue ==
    \A v \in Voters :
      LET s == VoteOn[v] IN
      Calm /\ pc[v] = "done" /\ response[s] = v /\ phase[s] # "expired" => s \notin queue

(* If nothing failed, a vote that is on file when submit_response is over  *)
(* was counted in the reputation and paid in full, unless the commons did  *)
(* not have the reward when it was asked; or the survey expired under it,  *)
(* a sweep abandoned the request, and it was neither paid nor counted.     *)
RecordedVotesArePaid ==
    \A v \in Voters :
      LET s == VoteOn[v] IN
      Calm /\ pc[v] = "done" /\ response[s] = v
      => \/ /\ v \in rated
            /\ \/ earned[v] = Reward[s]
               \/ earned[v] = 0 /\ available[v] < Reward[s]
         \/ phase[s] = "expired" /\ v \notin rated /\ earned[v] = 0 /\ taken[v] = 0

(* fire-surveys: "a survey is only fired once until its response is        *)
(* submitted", while it has not expired and one sweep fires at a time.     *)
FiredOnceUntilAnswered ==
    [][\A s \in Surveys :
         Calm /\ phase[s] # "expired" /\ asked[s] > 0 /\ asked'[s] > asked[s]
         => response[s] # Nobody]_vars

=============================================================================
