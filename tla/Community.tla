------------------------------ MODULE Community ------------------------------
(***************************************************************************)
(* The agent factory.  Provisioning specs become addresses, of which those *)
(* that are alive are used as they are and the others are built; an        *)
(* invitation asks a small model for a slate of new agents, which the      *)
(* banker funds before they are registered and started.                    *)
(***************************************************************************)
EXTENDS Banker, SequencesExt

CONSTANTS Specs,      \* provisioning patterns, as sequences of fields
          Already,    \* the agents that may be alive at the start
          Slate,      \* how many agents an invitation asks for
          max_retries,
          Spawners,   \* tasks that use the factory, each also a banking task
          Jobs,       \* bound of the model: calls of the factory
          Departures  \* bound of the model: agents that stop or expire

ASSUME CommunityAssumption ==
    /\ Spawners \subseteq Tasks /\ Already \subseteq SUBSET Addresses
    /\ Slate \in Nat \ {0} /\ Slate <= Cardinality(Addresses)
    /\ max_retries \in Nat /\ Jobs \in Nat /\ Departures \in Nat
    /\ \A agents \in Already : IsFiniteSet(agents)
    /\ \A spec \in Specs :
         /\ spec \in Seq(ToSet(spec))
         /\ \A i \in DOMAIN spec :
              spec[i].kind \in {"fixed", "max", "cross"} /\ spec[i].count \in Nat \ {0}

VARIABLES job,       \* what each task is doing
          alive,     \* addresses whose liveness key is there
          running,   \* agents that were started, with the task that did it
          started,   \* how many calls of the factory there were
          departed   \* how many agents left

community_vars == <<job, alive, running, started, departed>>

-----------------------------------------------------------------------------
(* A field is fixed, cycled through with the other "max" fields, or taken  *)
(* in every combination ("cross"); fresh values are numbered from 0.       *)
Wild(f) == f.kind # "fixed"
fixed(v) == [kind |-> "fixed", count |-> 1, value |-> v, reuse |-> FALSE]
cycled(n) == [kind |-> "max", count |-> n, value |-> "none", reuse |-> TRUE]
crossed(n) == [kind |-> "cross", count |-> n, value |-> "none", reuse |-> TRUE]
always_fresh(f) == [f EXCEPT !.reuse = FALSE]

OfKind(spec, kind) == {i \in DOMAIN spec : spec[i].kind = kind}

(* How many combinations there are of the last n fields. *)
Width(f) == IF f.kind = "cross" THEN f.count ELSE 1
Turns(spec) ==
    LET turns[n \in 0 .. Len(spec)] ==
          IF n = 0 THEN 1 ELSE turns[n - 1] * Width(spec[Len(spec) - n + 1])
    IN turns

_max_iters(spec) == Max({1} \cup {spec[i].count : i \in OfKind(spec, "max")})
Combinations(spec) == Turns(spec)[Len(spec)]
total(spec) == _max_iters(spec) * Combinations(spec)

(* The fields in the k-th combination; the last crossed field turns fastest. *)
_combine(spec, k) ==
    [i \in DOMAIN spec |->
       CASE spec[i].kind = "fixed" -> spec[i].value
         [] spec[i].kind = "max"   -> <<"fresh", (k \div Combinations(spec)) % spec[i].count>>
         [] OTHER -> <<"fresh", (k \div Turns(spec)[Len(spec) - i]) % spec[i].count>>]

materialize(spec) == [k \in 1 .. total(spec) |-> _combine(spec, k - 1)]

skeleton(spec) == {a \in alive : Len(a) = Len(spec)
                                 /\ \A i \in OfKind(spec, "fixed") : a[i] = spec[i].value}

ReusesAgents(spec) == \A i \in DOMAIN spec : Wild(spec[i]) => spec[i].reuse

(* Mutant: the places that are left are named from the beginning again. *)
MaterializeFromTheHead(spec) ==
    LET n == Min({total(spec), Cardinality(skeleton(spec))})
    IN IF ReusesAgents(spec)
       THEN {SetToSeq(reused) \o SubSeq(materialize(spec), 1, total(spec) - n) :
               reused \in kSubset(n, skeleton(spec))}
       ELSE {materialize(spec)}

(* A field that wants fresh values turns reuse off.  Otherwise the agents  *)
(* that are alive and fit come first -- whichever their names put first -- *)
(* and the last of the fresh addresses fill the places that are left.      *)
materialize_async(spec) ==
    LET n == Min({total(spec), Cardinality(skeleton(spec))})
    IN IF ReusesAgents(spec)
       THEN {SetToSeq(reused) \o SubSeq(materialize(spec), n + 1, total(spec)) :
               reused \in kSubset(n, skeleton(spec))}
       ELSE {materialize(spec)}

-----------------------------------------------------------------------------
NoJob == [at |-> "idle"]
NewJob(kind, spec, at, todo) ==
    [at |-> at, kind |-> kind, spec |-> spec, todo |-> todo, new |-> <<>>, reused |-> {},
     paid |-> {}, retries |-> 0]
Busy(p) == job[p].at \notin {"idle", "done", "raised"}

Starts(p) ==
    /\ ~Busy(p) /\ started < Jobs /\ started' = started + 1
Becomes(p, at) == job' = [job EXCEPT ![p].at = at]
Is(p, at) == job[p].at = at

(* spawn: the registry is read at once, and then once more per address. *)
Spawn(p, spec) ==
    /\ Starts(p)
    /\ \E addresses \in materialize_async(spec) :
         job' = [job EXCEPT ![p] = NewJob("spawn", spec, "check", addresses)]
    /\ UNCHANGED <<alive, running, departed, banker_vars>>

(* invite: the model is asked for a slate, and again when its answer is no *)
(* such slate, a limited number of times.                                  *)
Invite(p) ==
    /\ Starts(p)
    /\ job' = [job EXCEPT ![p] = NewJob("invite", <<>>, "ask", <<>>)]
    /\ UNCHANGED <<alive, running, departed, banker_vars>>

_parse_slate(p) ==
    /\ Is(p, "ask")
    /\ \E slugs \in kSubset(Slate, Addresses) : \E order \in SetToSeqs(slugs) :
         job' = [job EXCEPT ![p].at = "check", ![p].todo = order]
    /\ UNCHANGED <<alive, running, started, departed, banker_vars>>

_ParseError(p) ==
    /\ Is(p, "ask")
    /\ job' = [job EXCEPT ![p].retries = @ + 1,
                          ![p].at = IF job[p].retries = max_retries THEN "raised" ELSE "ask"]
    /\ UNCHANGED <<alive, running, started, departed, banker_vars>>

(* An address that is alive is reused, another one is built. *)
Check(p) ==
    /\ Is(p, "check") /\ job[p].todo # <<>>
    /\ LET a == Head(job[p].todo) IN
       job' = IF a \in alive
              THEN [job EXCEPT ![p].todo = Tail(@), ![p].reused = @ \cup {a}]
              ELSE [job EXCEPT ![p].todo = Tail(@), ![p].new = Append(@, a)]
    /\ UNCHANGED <<alive, running, started, departed, banker_vars>>

(* No builder matches, or the agent's tools, skills or resources collide,  *)
(* or the registry fails: what was done before is not undone.              *)
Raise(p) ==
    /\ job[p].at \in {"check", "register", "start"} /\ Becomes(p, "raised")
    /\ UNCHANGED <<alive, running, started, departed, banker_vars>>

-----------------------------------------------------------------------------
(* The new agents of an invitation are funded one after the other, then    *)
(* all are registered, then all are started.                               *)
Built(p) ==
    /\ Is(p, "check") /\ job[p].todo = <<>>
    /\ job' = [job EXCEPT ![p].at = IF job[p].kind = "invite" THEN "fund" ELSE "register",
                          ![p].todo = job[p].new]
    /\ UNCHANGED <<alive, running, started, departed, banker_vars>>

FundNext(p) ==
    /\ Is(p, "fund") /\ job[p].todo # <<>> /\ At(p, "none")
    /\ FundAgent(p, Head(job[p].todo))
    /\ UNCHANGED community_vars

(* Mutant: an agent that cannot be funded is provisioned all the same. *)
FundedOrNot(p) ==
    /\ Is(p, "fund") /\ TransferEnds(p)
    /\ job' = [job EXCEPT ![p].todo = Tail(@),
                          ![p].paid = IF At(p, "paid") THEN @ \cup {pay[p].agent} ELSE @]
    /\ UNCHANGED <<alive, running, started, departed>>

Funded(p) ==
    /\ Is(p, "fund") /\ TransferEnds(p)
    /\ job' = IF At(p, "paid")
              THEN [job EXCEPT ![p].todo = Tail(@), ![p].paid = @ \cup {pay[p].agent}]
              ELSE [job EXCEPT ![p].at = "raised"]
    /\ UNCHANGED <<alive, running, started, departed>>

AllFunded(p) ==
    /\ Is(p, "fund") /\ job[p].todo = <<>>
    /\ job' = [job EXCEPT ![p].at = "register", ![p].todo = job[p].new]
    /\ UNCHANGED <<alive, running, started, departed, banker_vars>>

Register(p) ==
    /\ Is(p, "register")
    /\ IF job[p].todo = <<>>
       THEN /\ job' = [job EXCEPT ![p].at = "start", ![p].todo = job[p].new]
            /\ UNCHANGED alive
       ELSE /\ alive' = alive \cup {Head(job[p].todo)}
            /\ job' = [job EXCEPT ![p].todo = Tail(@)]
    /\ UNCHANGED <<running, started, departed, banker_vars>>

Start(p) ==
    /\ Is(p, "start")
    /\ IF job[p].todo = <<>>
       THEN Becomes(p, "done") /\ UNCHANGED running
       ELSE /\ running' = running \cup {<<p, Head(job[p].todo)>>}
            /\ job' = [job EXCEPT ![p].todo = Tail(@)]
    /\ UNCHANGED <<alive, started, departed, banker_vars>>

(* An agent stops and deregisters, or its liveness key runs out. *)
Depart(a) ==
    /\ a \in alive /\ departed < Departures /\ departed' = departed + 1
    /\ alive' = alive \ {a}
    /\ running' \in {running, {r \in running : r[2] # a}}
    /\ UNCHANGED <<job, started, banker_vars>>

JobStep(p) ==
    \/ (\E spec \in Specs : Spawn(p, spec)) \/ Invite(p) \/ _parse_slate(p) \/ _ParseError(p)
    \/ Check(p) \/ Raise(p) \/ Built(p) \/ FundNext(p) \/ Funded(p) \/ AllFunded(p)
    \/ Register(p) \/ Start(p)
    \/ TransferStep(p) /\ UNCHANGED community_vars
CommunityStep == (\E p \in Spawners : JobStep(p)) \/ \E a \in alive : Depart(a)

(* Transfers of tasks beside the factory, and what the agents spend. *)
BankerStep ==
    /\ \/ \E p \in Tasks \ Spawners : Transfer(p) \/ TransferStep(p)
       \/ \E a \in Addresses : OpenCall(a) \/ CloseCall(a)
    /\ UNCHANGED community_vars

CommunityInit ==
    /\ BankerInit
    /\ job = [p \in Spawners |-> NoJob] /\ alive \in Already /\ running = {}
    /\ started = 0 /\ departed = 0
CommunitySpec ==
    CommunityInit /\ [][CommunityStep \/ BankerStep]_<<community_vars, banker_vars>>

-----------------------------------------------------------------------------
(* Specs agree that have the agents they share in the same places, and fix *)
(* the same fields then: specs that differ in how many they ask for do,    *)
(* unless the counts of one are spread over the fields in another way.     *)
Pinned(spec) == [i \in OfKind(spec, "fixed") |-> spec[i].value]
SpecsAgree ==
    \A s, t \in Specs : s # t =>
      \A j \in 1 .. total(s), k \in 1 .. total(t) :
        materialize(s)[j] = materialize(t)[k] => j = k /\ Pinned(s) = Pinned(t)
GuestsHaveNames ==
    \A spec \in Specs : ToSet(materialize(spec)) \cap (Addresses \cup UNION Already) = {}

(* A spawn that ended well has as many agents as its spec has places, each *)
(* at an address of its own and alive, whatever other calls, with other    *)
(* counts, left to be reused or raised half way, and however they overlap  *)
(* -- as long as no agent left, and specs agree.                           *)
SpawnsFillTheirPlaces ==
    \A p \in Spawners :
      Is(p, "done") /\ job[p].kind = "spawn" /\ departed = 0 =>
        LET placed == ToSet(job[p].new) \cup job[p].reused
        IN Cardinality(placed) = total(job[p].spec) /\ placed \subseteq alive

(* No invitation brings an agent to life that it did not fund first,       *)
(* though invitations that overlap fund the same agents under one hold,    *)
(* and any of the transfers may fail.                                      *)
LiveAgentsAreFunded ==
    \A p \in Spawners :
      Busy(p) /\ job[p].kind = "invite" /\ job[p].at \in {"register", "start"} =>
        ToSet(job[p].new) \subseteq job[p].paid
=============================================================================
