# A verification development of the Agent Handshake Protocol

TLA+ models of the `ahp` package under `src/ahp` and of the session driver in
`src/examples/viewer`, the TLC runs that check them and TLAPS proofs of their
main theorems.

AHP lets agents address each other by structured names, exchange messages over
Redis, and, when a broker is wired in, pay for the answers: a call reserves
credits of its caller, and its price is split between the server, the compute
provider, the broker and the commons. The money path is where several processes
share state and where failures have lasting effects. It is proved about most;
the registries, the router, the messages, the conversations and the community of
agents that make use of it are modelled around it.

Contents: [components](#the-system-and-its-components) ·
[plan](#plan) · [modules](#modules-and-the-code-they-model) ·
[runs](#runs) · [bounds](#bounds-and-why-they-are-enough) ·
[fairness](#fairness) · [proofs](#what-is-proved) ·
[findings](#what-the-code-does-that-its-documents-do-not-say) ·
[not modelled](#what-is-not-modelled)

## The system and its components

Everything shared lives in Redis; every process (an engine, a broker, the
command line, a cron job) is an asyncio program that holds no lock, save in the
audit sink, and can be interleaved with any other, or with itself, at each
`await`. There is no recovery code: whatever a crash leaves in Redis stays there
until a key expires.

| component | code | state | operations | what is hard | what makes it correct |
|---|---|---|---|---|---|
| wallet | `economy/wallet.py` | `ahp:wallet:{owner}` (balance, held_total, holds), mirror keys `ahp:hold:…` with a TTL | hold, settle_against_hold, refund, topup as WATCH/GET/MULTI/EXEC loops over pure `apply_*` functions | interleaved read-modify-writes, lost replies, retries running out, mirrors that expire | operations are atomic; no wallet is overcommitted; a mirror names a hold |
| settlement | `broker/broker.py` | the wallets of all parties, reputation records | hold, settle (up to five wallet transactions), refund, calculate_and_settle, record_outcome | failure between transactions; two handlers of one message; lost updates | credits are conserved; nothing is paid that was not charged; no answer, no charge; holds close |
| protocol engine | `engine/router.py` | per-call locals: hold ids, targets, responses | SEND, SEND-GET, CAST, CAST-GET, CAST-SUB, INVALIDATE, each with and without a broker | every exception path of the brokered verbs; checks, cache and liveness read at different moments | each hold is settled or refunded once; a call returns answers to its own question; no request passes the policy by |
| surveys | `broker/surveys.py` | request blobs, due queue, fired set, responses, response index | enqueue, list_pending, fire_due, submit_response, abandon | five keys updated one command at a time by enqueuers, sweeps and voters | an open survey stays queued; it is fired and paid once |
| pricing | `economy/pricing.py`, `tiers.py` | none | estimate_hold, compute_price, settle_payment | rounding, zero rates, bonuses that exceed the estimate | shares add up to the price; a price exceeds its hold only for a bonus that was earned or a dearer leaf |
| reputation | `economy/reputation.py` | a record per server | apply_outcome, apply_csat, visibility | averages at zero, thresholds, read-modify-write | what the router and the prices read is what the outcomes wrote |
| compute registry | `broker/compute_registry.py`, `economy/compute_provider.py` | provider, heartbeat, sentinel and leaf keys, an index of leaves | register, deregister, heartbeat, detect_outage, register_leaf, list_leaves, ranking | sweeps racing heartbeats; index repair | one outage counts once; the index names no leaf that is gone |
| server registry | `broker/server_registry.py` | server meta, liveness | register, deregister, heartbeat, discover | check-then-act on two keys | shares the commands of the other two |
| agent registry | `registry/registry.py`, `auth.py` | agent records by scope, liveness | register, hide, deregister, heartbeat, update_reputation behind a policy | the same, plus an optimistic update | no stored nudge is overwritten, and none brings anybody back |
| broker router | `broker/router.py` | none: reads spread over awaits | resolve | a hard filter, a coin, soft filters, a ranking, on records that move | the choice is the lexicographic best of what was read |
| message bus | `transport/redis_bus.py` | streams, channels, reply channels, taps | append, publish, subscribe, collect replies | pub/sub loses what nobody listens to; a confirmation that comes late; the limit and the deadline | histories have questions before answers; every wait ends |
| response cache | `transport/cache.py` | cached replies with a TTL | get, put, invalidate | an invalidation racing a put or an expiry | what was cached and matched when it began is gone |
| thread manager | `engine/thread_manager.py` | thread meta, participants | create, join, leave, close, append | append after close, into another thread | (findings) |
| scope, patterns, compatibility | `engine/scope.py`, `core/*` | none | matches, can_route, is_allowed | wildcards, defaults, tables of codes and tiers | used by every check of the engine |
| agent base | `adapters/base.py` | registration, inbox, two tasks | start, stop, dispatch, heartbeat | stopping and starting under traffic | handled within policy |
| factory, provisioning, inviter, banker | `adapters/factory.py`, `provisioning.py`, `inviter.py`, `economy/agent_banker.py` | agents alive, wallets | spawn, invite, fund_agent, drain_agent | overlapping spawns and fundings, failure after some agents were funded; two wallets in two transactions | every place has its agent; live agents are funded; credits are traced |
| audit | `audit/*` | a buffer of events | emit, flush | flushes that fail in either order, or are cancelled; replies that are lost; the cap | an event is lost only to the cap or a cancelled flush, and doubled only by a lost reply |
| gateways and people | `adapters/gateway.py`, `human.py` | per-message locals | handle, relay, answer | an agent handles one message at a time, so gateways wait for each other | for every question a reply is published in the end |
| teachers and their graph | `adapters/teacher_agent.py`, `knowledge_graph.py`, `neo4j_kg.py` | nodes and edges | judge, survey, observe | what several teachers write into one graph, surveys that stop half way, deletions | a judgement is whole |
| formats, recipes, game modes | `adapters/formats.py`, `prompts.py`, `game_modes.py`, `format_agent.py` | which turn a mode is at | contract check, dispatch, the mode's graph | 24 modes spread over several tables | no turn meets a missing hook; modes play out |
| session driver | `examples/viewer/runner.py` | a session from setup to teardown | run_debate | codes, tiers, rounds and recipes must agree | everybody invited is heard in every round |
| model agents, tool and skill registries, CLI, scaffolders, demos | `adapters/*`, `llm/*`, `cli.py`, … | – | – | – | not modelled, see below |

How they interact. The engine receives a message, checks its format, its code
against the target's tier, and the scope policy, and resolves its targets in the
agent registry. Without a broker it looks into the cache and sends over the bus.
With one it asks the router's parts for a server and a leaf, calls `Broker.hold`,
sends, waits for the reply with a timeout, and calls
`Broker.calculate_and_settle`, which prices the call, calls `Broker.settle`
(wallet by wallet), updates the server's reputation and queues a survey of the
caller. A sweep sends due surveys over the bus; a vote pays its author out of the
commons and updates the same reputation. The agents behind the bus are started by
the factory, which lets the banker fund those it invites; the session driver
invites a panel through the factory and drives it through the rounds of a format.
The components share no memory: they meet in Redis keys, above all in the wallets.

## Plan

Written in the order of importance: each module of the money path is proved about
before the next component that uses it is started, and the abstract
specifications are stated apart from the mechanisms.

| step | modules | state |
|---|---|---|
| 1 | `Credits`, `WalletState` – sums of credits, the pure wallet layer | checked, lemmas proved |
| 2 | `AtomicWallet`, `Wallet` – abstract and optimistic wallet | refinement checked and proved |
| 3 | `Escrow`, `Settlement` – what a call's credits may do; the SEND-GET path | refinement checked and proved |
| 4 | `Broadcast` – the CAST-GET path under the same escrow | refinement checked and proved |
| 5 | `Surveys` – the survey queue and its payouts | checked and proved |
| 6 | `Registry`, `AgentRegistry`, `ComputeRegistry`, composed with the server registry in `Registries` | checked and proved |
| 7 | `Pricing`, `Reputation`, `Menu`, composed in `Routing` | checked and proved |
| 8 | `Addressing`, `Transport`, `Engine`, `AgentBase`, composed in `Messaging` | checked and proved |
| 9 | `Formats`, `Conversation`, `SessionRunner`, `Relay`, `Classroom` | checked; safety proved |
| 10 | `Banker`, `Community`, `Sink` | checked and proved |

What could follow: a composition of `Routing` with `Settlement`, so that
`BillsAssumption` becomes a consequence of `Pricing`, and the same proved of the
bills that `settle_payment` computes.

## Modules and the code they model

`PROJECT.json` maps each definition to its source lines. In outline:

**Credits** – dictionaries of credits. `Total` is the cardinality of a set with
one pair per credit instead of a fold: facts about it follow from the library's
cardinality theorems, and need no induction. Credits are whole numbers; the
`1e-9` tolerances of the code's float comparisons become exact comparisons.

**WalletState** – `WalletState` and the pure functions `apply_hold`,
`apply_release`, `apply_credit`, `apply_refund`. Each has an *outcome* (OK or
the exception it raises) and an *effect*. `Sound` says that `held_total` is the
sum of the holds and that the balance covers it. The `history` list is left out.

**AtomicWallet / Wallet** – class `Wallet`. One action per Redis round trip:
`Watch`, `Get`, `Exec`, the lost race, the exhausted loop, an abort by a lost
connection or a cancelled coroutine (before or after EXEC took effect), and the
expiry of a mirror. `touched` is Redis's own memory of who must lose the race.
On a lost race redis-py's `pipeline.execute` raises `WatchError`, while the code
also has a branch for a `None` result; the model allows both. `AtomicWallet`
has one instant of effect per call; `Wallet` implements it with
`busy` mapped to the clients inside a call.

**Escrow** – what the broker promises about the credits of a call: a reserve is
opened, then cancelled or turned into the charge of one handler, within the
reserve; what is paid out comes out of a charge. Settlement and Broadcast both
implement it, with different mappings.

**Settlement** – `_broker_send_get` with `Broker.hold/settle/refund/
calculate_and_settle/record_outcome/_maybe_request_survey`. Each wallet operation
is one step, which `Wallet` justifies. `pc` follows the handler through hold,
dispatch, debit, one credit per share, the reputation read and write, and the
survey; `Undo` is the `except Exception` branch that refunds and returns the
answer anyway. At every await a command may fail, with or without effect, and
the handler may be cancelled or die (`Stop`). Server, leaf, estimated hold and
possible bills belong to the handler, because each handler looks them up afresh;
the caller and the hold id belong to the message. A bill is any record that has
the facts `settle_payment` guarantees (`BillsAssumption`).

**Broadcast** – `_broker_cast_get` for the broadcasts of one caller: the loop of
holds that drops targets the caller cannot afford, the dispatch, the loop that
settles each answer against its target's hold, the refunds of failed settlements
and of silent targets. A message that is sent again shares hold ids and the reply
channel. What `Broker.settle` does after the debit is Settlement's matter and
one step here. Whether a target's organisation has a server is chosen when it is
looked up.

**Surveys** – `SurveyQueue`, command by command: `enqueue` (SET NX, then ZADD),
`list_pending` and `fire_due` (a bounded window of the queue, then GET, tidying
or `_abandon`, SISMEMBER, send, SADD), `submit_response` with `_pay_and_score`
(SET NX, index, queue, marker, GET, and the hold, debit and credit of the
reward), and the voter of `cmd_vote`, who votes on what he was shown or sent.
Time is a phase per survey (early, due, expired) that passes in dispatch order;
a sweep fixes its notion of "now" when it begins, as the code does. A sweep that
is given no bus ends after looking. `PayElsewhere` is the commons paying other
surveys, so that it can run dry.

**Registry / AgentRegistry / ComputeRegistry / Registries** – each method of a
registry is the list of Redis commands it issues (`todo`), and a client that is
inside a method issues the next one at each step; loops over what a command
returned extend the list. A call may raise or die between two commands (`Raise`)
and a liveness key may expire at any moment (`Expire`). `AgentRegistry` has the
WATCH loop of `update_reputation` and the policy that guards each method;
`ComputeRegistry` the sentinels, the sweep `check_compute_outages` with the debit
of a provider's reputation, and the index of leaves with the repair that
`list_leaves` makes.

**Pricing / Reputation / Menu / Routing** – the formulas of the economy in
fixed-point integers (percents, and steps of 0.005 of reputation), rounded down at
every factor; `Routing` is `Router.resolve` followed by `calculate_and_settle`.
`Discover` is one EXISTS and `Rate` one GET, each for one server, and between two of
them servers die, menus change and records move; the menus are read in one step
(`PickLeaf`), for the commands of `list_leaves` are in `ComputeRegistry`. A call
that is answered is priced with the record of its server (`PriceAnswer`) and billed
(`BillAnswer`): a price above the hold is refused and nothing else happens,
otherwise `record_outcome` loads the record, which may have moved, and writes it
back (`CountOutcome`), over what was written meanwhile. The credits themselves move
in `Settlement`, so the debit has no step of its own here. The normalised scores of
leaves are fractions over one common denominator, so that they are compared exactly.
A soft filter that would leave nobody is forgiven (`Narrow`). The visibility coin is
an arbitrary subset of the candidates whose chance is neither nothing nor certain.
Globs are the sets of names they match.

**Addressing** – addresses, patterns, messages and formats as records with the
validation of their constructors; `Matches`, the tables of codes and the tiers
they require, `is_allowed`, `Permits` and the cache key. Strings are atoms:
parsing and formatting are left out.

**Transport** – `RedisBus` and `ProtocolCache`. A PUBLISH goes to those
subscribed at that moment; the confirmation of a subscription may come after the
50 ms that are spent on it (`Confirmation` stays in front of the frames).

**Engine** – `ProtocolEngine.handle` without a broker, one step per await: the
three checks, the cache, liveness, the resolution of a broadcast agent by agent,
subscribe – append – publish – tap, the wait that ends with the limit, an empty
read or the deadline, the put, the scan of an invalidation, the observer of a
CAST-SUB, and the audit of the outcome (`Finish`). `Fail` is an exception at any
of these.

**AgentBase / Messaging** – an agent that registers, listens, handles what it
reads, answers, and beats; it may be stopped or its process may die between any
two steps and be started again. `Messaging` composes it with the engine.

**Formats / Conversation** – every format of `formats.py` and `game_modes.py` as
data: roles, turns, permissions, rhythms, recipes and their slots.
`Conversation` builds one `FormatAgent` per role (with the contract check of its
constructor), plays the mode's graph under its rhythm (`HandleTurn`), lets agents
send turns out of rhythm or under another format, and has a `ThreadManager` beside
it (`JoinThread`, `LeaveThread`). `ConversationSpec` is that component alone, as are
`SessionSpec` and `ClassroomSpec` for the two below.

**SessionRunner** – `run_debate`: setting up servers and leaves, inviting the
panel, up to three rounds of broadcasts or probes with the recipes of the format,
snapshot and teardown. A prompt is reduced to the context slots it reads: what
the driver does not put into the context is `starved`. `Recipes` are a format's
prompts with the slots each reads. Failures of models, of
agents and of teardown steps are `Mishap`s.

**Relay** – gateways that translate for a caller or forward what they translated,
and a person behind a callback, with failures and timeouts. Each agent handles
one message at a time. A client, too, waits only as long as the timeout of its own
SEND-GET, which may be shorter than a gateway's thirty seconds (`Desert`): a reply
that is published later is not heard.

**Classroom** – two teachers that judge, survey and observe into one or two
in-memory graphs, a judgement or an observation at a time (the in-memory writes do
not yield), while other teachers write, nodes are deleted and graphs are closed. An
observation beside a judgement is `RecordObservation`.

**Banker / Community** – `fund_agent` and `drain_agent`, one wallet operation a
step, for any number of tasks; `books` records what a transfer that stopped has
lost or minted. `Community` is the factory: `materialize_async` with what is alive
reused, `spawn`, and `invite` with its slate, its retries and the fundings, which
are the banker's steps. `CommunitySpec` is a banker with particular tasks. The
combinations of a pattern are numbers read digit by digit: `Turns` is a recursive
function that gives each crossed field the combinations of the fields after it
(`Width` of each), and `_combine` divides by it.

**Sink** – the batching sink (buffer under a lock, sending without it, what failed
put in front again, in the order of time if the failure came after the sort, the
cap) and the plain sinks. A failing batch may have been accepted, its reply lost;
a cancelled flush (`Cancelled`) puts nothing back, whether its thread gets the batch
through or not. The sink does not look at what the service says of single events of
a batch it accepted, and neither does the model.

**MC*** modules give constants their values; where components share no state
(`MCRegistries`, `MCConversations`, `MCCommunity`) a variable `focus` picks the one
that a behaviour follows, so that their state spaces add instead of multiplying.

## Runs

| run | what it asks | kind |
|---|---|---|
| `wallet` | Two coroutines on one wallet, all interleavings, lost races, lost replies: are the transactions atomic (`ImplementsAtomicWallet`), are the books sound, do mirrors name holds? | safety, refinement |
| `settlement_faults` | Three handlers, two of the same message at different prices, one failure, cancellation or crash anywhere: conservation, nothing minted, escrow. | safety, refinement |
| `settlement_calm` | The same without failures: holds close, callers pay whole prices of answered calls or nothing (`CallersPayWhatTheyOwe`), answers are paid for, calls return. | safety and liveness |
| `broadcast` | Two broadcasts to two targets from a wallet that cannot fund both, any answers, prices within and above the holds, one failure: delivered targets are backed, holds close, an answer is billed once, escrow, broadcasts return. | safety, refinement, liveness |
| `surveys` | One survey enqueued and voted on twice while a firing sweep (twice) and a listing overlap it, one failure: its reward is paid once, it stays queued until it is answered and leaves the queue then, a recorded vote is counted and paid, unless the commons lacked the reward when asked or the survey expired and was abandoned under the vote, it is fired once. | safety |
| `registries` | Two clients and a watchdog on a server, an agent, or a provider with a leaf, expiring keys and a call that dies half-way: one outage is reported once (`OutagesReportedOnce`), the index of leaves names no leaf that is gone (`IndexNamesLeaves`), a stored nudge builds on the reputation it replaces and brings no agent back (`NudgesBuildOnEachOther`; nudges that lose their race are dropped). | safety, action property |
| `routing` | Two resolutions while servers, leaves and scores change, and their settlements: the pipeline picks the lexicographic best (`ChosenIsBest`), its leaf is not dominated (`LeafIsNotDominated`), a price exceeds its hold only for what a record earned or for a leaf of a dearer tier, and then within 65 percent of the hold at that tier (`HoldsAreConservative`). | safety |
| `messaging` | Two or three calls of all six verbs, two agents that stop, expire, deregister and come back, one fault: a history has questions before answers, a call returns answers to its own question, nothing is delivered past policy or compatibility, an invalidation leaves nothing it should remove, every call ends. | safety and liveness |
| `conversations` | 24 game modes, a thread, thirteen session formats, gateways in a circle, two teachers: no turn meets a missing hook, sessions hear everybody, judgements are whole, modes play out, relays return though a client stops waiting. | safety and liveness |
| `community` | Overlapping spawns of five patterns that agree, overlapping invitations with a departure, transfers with a cancellation, the batching sink with a lost reply and a cancelled flush: every place is filled by an agent of its own, live agents are funded, credits are traced, an event is lost or doubled only as the findings say. | safety |
| `session_silent`, `drain` | Each states one sentence of the documents or comments, and TLC finds the behaviour of the code that contradicts it. See the findings. | violations |

The deadlock check is off in all runs but `wallet`: the others model calls that
end, and a finished system stops. In `wallet`, clients call for ever, and the
check is on.

Each property of a passing run has a mutant: an operator next to the original
with a plausible bug (a dropped guard, a retry after a lost reply, a missing
reset, a swapped order) under which TLC finds that property violated.

## Bounds and why they are enough

* *Two coroutines, one wallet of 2 credits, two hold ids, 2 rounds* (`wallet`).
  Every wallet call touches one key, so wallets do not interact; a race needs two
  parties; two holds are what it takes for an admission test against the wrong
  figure to overcommit; two rounds suffice to lose, retry, and give up. The proofs
  have no such bound. The run is of the module itself, without symmetry, and visits
  about three million states.
* *Three handlers, two messages, one caller* (`settlement_*`): two handlers of one
  message, which find leaves of different prices and so hold different amounts, and
  one of another message, on a fund of 6
  against holds of 4 and 3, so that the second hold is refused, succeeds after a
  refund, or meets its twin. Bills are below, at and above the hold.
* *Two broadcasts, two targets, fund 6 against holds of 3 and 2 each*: the second
  broadcast loses a target, and may regain it after a refund.
* *One survey, two enqueues, two votes, a sweep that fires twice and one listing*:
  the processes of different surveys meet only in the commons (`PayElsewhere`
  stands for the rest) and in the window of a sweep, which one survey never fills
  (a finding says what happens when it is full).
* *Two clients with two and one calls and a watchdog with two sweeps* (`registries`).
  The three registries share no keys, so a behaviour keeps to one server, one
  agent, or one provider with one leaf. Every race here is between two commands of
  one call and one other call; a reputation of 3 steps is clamped at both ends.
  There is one watchdog, because two count an outage twice (a finding).
* *Three servers, three leaves, four kinds of request* (`routing`): one request for
  each ranking, with blocked and required names, soft preferences that can and that
  cannot be met, cost and score limits; records that are new, excellent, or at the
  floor; a server that is bound to leaves of two tiers, so that a small request may
  run on a big leaf and cost more than was held; answers within and above their
  budget. The two resolvers are interchangeable (symmetry). Two decisions
  (`MaxCalls`), at once or one after the settlement of the other; one change of the
  world at any point (`MaxChanges`).
* *Fifteen envelopes in eight workloads of two or three calls* (`messaging`):
  pairs that meet in the cache, on an agent, in a broadcast, on a tap, or in an
  access rule, and three calls of which one invalidates what two put. In the
  workload of three, the second question is asked when the first has ended and the
  agent nobody asks rests (`InTurn`). Each agent is started once more
  (`Restarts`); one frame, key, tap or agent goes missing (`MaxFaults`).
* *One agent per role, one stray turn, four calls on a thread* (`conversations`):
  a mode has at most a handful of turns and its graph depends on nothing else;
  two panelists, three rounds as in the driver, one mishap; two gateways and a
  person make the shortest circle, with a question in each direction, and the client
  of one of these may stop waiting (`Impatient`); two teachers
  with two writings share, or do not share, a graph, and one node is deleted.
  The constant-level assumption `FormatsAreSound` checks every format's record
  against the validation of its constructor. Of the 16 session formats,
  `deliberate` and `estimate` are in `session_silent` and `interview-eachother` is
  a finding.
* *Three calls of the factory by two tasks, one departure, slates of two, one
  retry; three more banking tasks, one call of an agent, one cancellation; four events
  in batches of two and a buffer of three, one lost reply and one cancelled flush*
  (`community`): a shortfall, two spawns
  of which one counts on agents that the other is still registering, an overlap
  of two fundings of one agent, a drain under an open call, and a buffer that
  overflows while two batches are out all happen. A behaviour follows spawns or
  invitations; agents depart only from the latter, for what spawns promise is said
  of times when nobody leaves. The theorems have no such bound, and let the two mix.
  The assumption `ClubsAgree` has TLC check that the run's patterns satisfy what the
  theorem about spawns asks of patterns.
* *`MaxFaults` = 1*: one failed command, lost reply, cancellation or crash per
  behaviour, at any await of any process. The theorems hold for any number.
* `BalanceCap`, `MaxSweeps`, `MaxOthers` bound top-ups, sweeps and other payouts.

## Fairness

* `settlement_calm` and `broadcast` assume weak fairness of each handler as a
  whole: asyncio resumes a coroutine whose await is over, Redis answers or the
  client raises, and `send_get` and `cast_get` wait with a timeout. `ExpireMirror`
  is weakly fair because Redis expires keys.
* `messaging` assumes weak fairness of the steps of calls taken together, not of
  the agents: agents may stay silent for ever, and the wait of
  `_collect_replies` has a deadline.
* `conversations` assumes that a turn is taken when a mode's graph offers one
  (`PlayOn`) and that gateways go on (`RelayOn`): their loops run and their wait
  for a target has a timeout of thirty seconds. People are not assumed to answer.

Nothing makes a failure, a cancellation or an answer happen, and no fairness is
assumed of a choice between outcomes. The other runs state no liveness: that
anybody sweeps, votes or heartbeats is not promised by the code.

## What is proved

For every value of the constants that satisfies the modules' assumptions, in
particular for any number of coroutines, messages, targets, agents and failures:

* **Wallet** (`WalletProofs`): `TypeOK`, `WalletsSound`, `FreshIsCurrent`,
  `MirrorsNameHolds`, and that `Wallet` implements `AtomicWallet`. The inductive
  invariant is `TypeOK ∧ CallsHaveOperations ∧ WalletsSound ∧ FreshIsCurrent`.
  Soundness alone is not inductive: `Exec` writes a wallet computed earlier, so
  the invariant has to say that a client whose watched key is untouched computed
  it from the wallet that is still there. The refinement uses it in the same
  place: only then is EXEC the operation applied to the *current* wallet.
* **Settlement** (`SettlementProofs`): `TypeOK`, `WalletsSound`, `CreditsConserved`,
  `ChargedOnlyIfAnswered` and `RewardsFollowPayment` (nudges and survey requests
  only for an answered call that was charged in full and whose every positive share
  was credited) unconditionally; `NoCreditsMinted` and `ImplementsEscrow` under
  `Solvent`, that no leaf costs more than its call earns. (Without it credits
  appear, see the findings.) The inductive invariant adds `Stages`, which says for
  each `pc` what has been billed, charged and paid by then. Conservation follows
  from a classification lemma, `StepMoves`: every step is quiet or one of a few
  moves of credits, and each move changes one wallet and one history entry by one
  amount. Three further results follow the single call: `CallersPayWhatTheyOwe` (a
  caller without shares is down by the whole prices of some of its calls: of none
  that ended without an answer, and, if nothing failed, of every answered one but
  the free ones, whose price is above the hold or whose hold a twin may have closed),
  `HoldsCloseWithHandlers` (an open hold has a handler that is still coming to it,
  unless something failed) and, under `Solvent`, `AnswersArePaidFor` (nobody else
  settles the hold of a handler that is alone on its message).
* **Broadcast** (`BroadcastProofs`): `TypeOK`, `WalletSound`, `BalanceIsSpent`
  and `ImplementsEscrow`, by the invariant `TypeOK ∧ AnswerAtHand ∧ WalletSound ∧
  BalanceIsSpent ∧ ChargedAfterAnswer`. `ChargedAfterAnswer` is what makes a
  charge the *first* one for its target, which the escrow demands; it rests on the
  code's set of responders, and fails without it. `DeliveredTargetsAreBacked`
  and `AnswersAreBilledOnce` hold of any broadcasts, failures included in the
  former; `HoldsCloseWithBroadcasts` assumes that copies of one message reserve the
  same amounts (`Consistent`), and its invariant gives each open hold a broadcast
  that is responsible for closing it.
* **Surveys** (`SurveysProofs`): `TypeOK`, `CommonsSound` and `RewardPaidOnce`, by
  the invariant `TypeOK ∧ SurveyAtHand ∧ CommonsSound ∧ Stages`. `Stages` says for
  each place of `submit_response` whose response is on file and what has been
  debited and credited by then: that a reward is paid once rests on the response
  being written only while there is none, and on nobody else passing that write.
  Of the queue: `OpenSurveysStayQueued`, `AnsweredSurveysLeaveQueue` and
  `RecordedVotesArePaid` for any number of overlapping enqueues, sweeps and votes
  (the last if nothing failed; its excuses are what the commons had when it was asked,
  kept in `available`, and a request that was abandoned under the vote),
  and `FiredOnceUntilAnswered` when one sweep fires at a time (two that overlap
  send a survey twice, as in the code).
* **Registries** (`RegistriesProofs`): `OutagesReportedOnce` when one sweep looks
  for outages at a time, `IndexNamesLeaves` and `NudgesBuildOnEachOther` without
  conditions. The invariant of the first says that a sentinel in place, or a sweep
  that has passed it, leaves a sign of life that is not reported yet; that of the
  last is the optimistic client's, as for the wallet: whoever finds its watched key
  untouched read the reputation that is still there.
* **Banker** (`CommunityProofs`): `BankerTypeOK`, `PursesSound` and
  `CreditsAreTraced`, by the invariant `BankerTypeOK ∧ PursesSound`. Tracing is
  not a matter of one wallet: each step is classified by what the wallets gain,
  what goes under way or arrives, and what the books record, and in each class
  these cancel out. The lemmas on `Total` carry each single change over to the
  sums; soundness of the wallets gives that a settlement takes what the hold of
  the transfer reserved.
* **Community** (`CommunityProofs`): `LiveAgentsAreFunded`, that `CommunitySpec`
  implements `BankerSpec`, and through it `CreditsAreTraced` of the whole
  community. The invariant adds `JobsOrderly`: while an invitation funds its
  agents, each of them is paid or still to be paid, the first of the latter by the
  transfer that is under way. Without the last part, the end of some transfer
  would not be the payment of the agent that is then ticked off.
* **Audit sinks** (`CommunityProofs`): `LogsAreKept`. The invariant says that the
  buffer, the batches that are out, the trimmed and the dropped events have no event
  in common and none twice, that an event in none of them was delivered, and that
  deliveries beyond the first number no more than the lost replies; that a trim
  means more than `max_buffer` events is then a matter of counting.
* **Messages** (`MessagingProofs`): `DeliveredWithinPolicy`,
  `AnswersFollowQuestions`, `AnswersFitTheQuestion` and `InvalidationHolds`. A
  message that is under way belongs to a call that has written its question and
  whose targets do not change any more (`Sent`); what may be in a connection's
  inbox (`Inbox`), in an agent's hands (`Sending`), among a call's results
  (`Results`) and in the cache (`Entries`) is said in terms of that, and carried
  over every step by one lemma, that what `Sent` rests on is never taken back
  (`StepIsLater`). An invalidation is complete because the call whose answer is
  deleted has returned, so it is not put again.
* **Routing** (`SettlementProofs`): `ChosenIsBest`, `LeafIsNotDominated` and
  `HoldsAreConservative`, for any servers, leaves, records, rates and preferences.
  The world moves between the router's reads, so the invariant (`RoutesInv`) says
  nothing about the world: at each stage it describes a resolution by what that
  resolution has read. The first theorem is that the code's folds of narrowing
  filters and orderings leave a server that the definition puts first; the second
  that a leaf which is at least as good in all and better in one of cost, latency
  and load has the better weighted score, a matter of products over one common
  denominator; the third bounds each rounded factor of a price by that of its hold,
  scaled to the tiers of the two.
* **Conversations** (`MessagingProofs`): `TurnsMeetTheirHooks`, for any modes and
  classes. The invariant says that whoever was built passed the contract check of its
  constructor, and that what is in an inbox passed the engine's format check; a turn
  that passed both checks is one whose hook the check demanded.
* **Classroom** (`MessagingProofs`): `JudgementsAreWhole`. The invariant says of
  each graph that it has the edges of the judgements it owes and both ends of every
  edge it has, and is carried through each write and each deletion, whichever
  teacher shares the graph.
* **Sessions** (`MessagingProofs`): `SessionsAreHeard` for any panel, under the
  condition that no session is one of `Silent`: the two formats that nobody hears, as
  `session_silent` shows, and `interview-eachother`, whose closing prompt starves.
  The invariant (`OnTime`) follows the rounds: as long as nothing went wrong, the
  rounds before this one are heard, and in this one everybody has spoken or has a
  question to answer; the recipes of each format are gone through one by one.
* **Spawns** (`CommunityProofs`): `SpawnsFillTheirPlaces`, for any patterns that
  satisfy `SpecsAgree` (an address that two patterns share is in the same place of
  both) and `GuestsHaveNames` (an agent that was alive before, or is invited, has
  none of the addresses a pattern makes up). Without the former it fails: after a
  spawn of two by one crossed fields, one of two by two reuses the agent at its own
  third place and takes the third place as fresh (see the findings). The argument:
  `materialize` gives each place an address of its own, because its digits determine
  a number. An agent at the k-th place of a pattern is alive only when at least k
  agents that fit the pattern are (`InOrder`). So a spawn that finds n of them finds
  nobody at the places after the n-th, which are those it takes as fresh. It
  registers these in their order, and what it has still to register comes late
  enough (`Ranked`) for `InOrder` to stay true, whoever else brings agents to life
  meanwhile or raises half way. The invariant is that order, with what each spawn
  under way has reused, built and still to do.
* **Lemmas**: `WalletStateProofs` (how `Total` changes with one entry; each
  `apply_*` keeps a wallet sound; a finite set of numbers has a least and a greatest
  member). What takes an induction over numbers or along a sequence is proved by
  descent: a set of counterexamples would have a least one (`LeastOf`, from the
  well-foundedness of the naturals), and the one before it (`StepByStep`) already
  is one. So the recursive functions of `Community` can be reasoned about; the
  library's induction theorems, which take an operator, are not used.

The proofs rest on the named assumptions of the modules (`WalletAssumption`,
`SettlementAssumption`, `BillsAssumption`, `BroadcastAssumption`,
`SurveysAssumption`, `RegistriesAssumption`, `RoutingAssumption`, `MessagingAssumption`,
`ConversationAssumption`, `SessionAssumption`,
`BankerAssumption`, `CommunityAssumption`, `FundAssumption`, `SinkAssumption`,
all evaluated by TLC in the runs) and on the library's theorems on finite sets and
sequences. The type invariants, `FreshIsCurrent`, `ChargedOnlyIfAnswered`,
`RewardsFollowPayment`, `BalanceIsSpent` and the soundness of the wallets of
`Settlement`, `Broadcast`, `Surveys` and `Banker` are proved and in no run.

All safety invariants of the passing runs are stated by these theorems. Only
model-checked: liveness (`CallsReturn`, `BroadcastsReturn`, `CallsEnd`,
`ModesPlayOut`, `RelaysReturn`), because fairness and ENABLED are out of the
prover's reach. What the theorems assume beyond the modules' assumptions is a
condition that the code does not enforce. For `Solvent`, for one sweep at a time, for
the sessions outside `Silent` and for `SpecsAgree` a finding says what the code does
without it. `Consistent` fails when a server's base rate changes between two copies
of a message, and `GuestsHaveNames` when people or slates name agents the way the
default namer does. The modules declare no RECURSIVE operator.

## What the code does that its documents do not say

Two are runs that TLC refutes; the others were met while modelling and are on file
without a run. The quotes and lines are in `PROJECT.json`.

* `session_silent` – the `deliberate` and `estimate` sessions use a code that only
  agents of tier j take, and invite agents of tier s: nobody is asked in any round.
* `drain` – a drain of an agent with an open call credits its host and then fails
  to debit the agent: credits appear.

Settlement and wallets. The four-way settlement is not one transaction, and after a
failure some recipients are paid and others never. Holds do not clean themselves up:
the TTL is on the mirror key alone. A price above the hold is not debited, the call
is free. A negative server share is skipped while the others are credited. Two
settlements of a server can lose an accepted call. An exception other than
`InsufficientFundsError` in the hold loop of a broadcast leaves the earlier holds
open. Two overlapping fundings of one agent share a hold, and the second fails.

Surveys. Fired, unanswered surveys fill the window a sweep reads. A sweep that
abandons an expired survey while it is voted on leaves a vote on file that is neither
paid nor counted. A vote's refusal
of `csat_routing` does not keep its score out of the reputation.

Registries and router. Of two concurrent nudges of a reputation the one that loses
the race leaves with WatchError and is dropped, not tried again. Two overlapping
sweeps report one outage twice. A listing's
repair can drop a leaf that was just registered again from the index. The router
may choose a big leaf for a small request, may fall back on servers of visibility
zero, and lists as dropped some candidates that were not, and leaves out some that
were.

Messages and threads. A late confirmation of a subscription is read as the end of
the replies. The cache key has the body in it, which one sentence of the README
omits. `append` writes to the thread of the message rather than the one it was
given, closed or not.

Agents and sessions. The closing recipe of `interview-eachother` shows questions
that the driver put into another round only. The driver's teardown drains nobody
and is skipped after an exception. The contract check of a format agent overlooks
turns tagged with a session format. Two places of a spawn fall on one address when
an agent of the pattern has left, or when a pattern that spreads its counts in
another way was spawned before. Fields that should always be fresh are reused by `spawn`.
A judgement overwrites the rubric node it refers to; a missing criterion does not
lower a composite. A failing batch of old audit events can push out fresher ones; a
batch whose flush is cancelled is lost, and one whose reply is lost is sent twice.
`close_all` drops a resource that is constructed while it waits, without cleanup.

Smaller things: `wallet.py:10` speaks of WATCH on the hold key too, only the wallet
key is watched; `settle_four_way`, which `wallet.py:202` names, does not exist; a
survey whose enqueue fails between SET NX and ZADD can not be enqueued again; a
marker written by a sweep after the vote removed it stays in the fired set.

## What is not modelled

* Of the modelled components: wallet histories, log and audit wording, consent
  flags and corpus export of surveys, float rounding (the formulas are in
  fixed-point integers, rounded down at every factor), the text of prompts and of
  translations, parsing and formatting of addresses and URIs, `create_thread` and
  `get_history`, the tables of capabilities behind `profile_for`, similarity search
  and the Neo4j driver of the knowledge graph, external endpoints that the session
  driver probes, cryptographic signatures of claims.
* Two firing sweeps at once, and two watchdogs at once: what they promise is not
  documented, or is refuted (see the findings).
* Wrappers of language models and external stores: their state is an external
  system's, and the protocol treats an agent as whatever answers a message.
* The in-process tool, skill, resource and information-source registries:
  dictionaries without interleaving whose matching is `AddressPattern.matches`.
* The command line, the scaffolders and the demos: drivers of the components above,
  file generation and printing. Of `cli.py` only `cmd_vote` is modelled.
