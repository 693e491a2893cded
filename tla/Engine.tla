------------------------------- MODULE Engine -------------------------------
(***************************************************************************)
(* ProtocolEngine.handle without a broker (Settlement and Broadcast have   *)
(* it with one): each call dispatches one message and returns once.  An    *)
(* await is a step, and the calls of the process interleave there.         *)
(***************************************************************************)
EXTENDS Transport

CONSTANTS Calls,      \* the calls of handle; a call's name is its message's id
          Envelope,   \* [Calls -> messages]
          Agents, AddressOf,
          Rules,      \* the scope policy
          Formats,    \* [names -> formats]
          MaxAnswers  \* [Calls -> Nat]: max_responses, 0 for None

VARIABLES registered, alive,  \* the agent registry, as the engine sees it
          pc,         \* where each call of this behaviour is
          ahead,      \* agents it has still to examine, then to publish to
          targets,    \* agents it resolved to
          scan,       \* cache keys an INVALIDATE has still to look at
          got,        \* the answers it collected
          audit,      \* events emitted: <<call, success>>
          doomed,     \* the entry it is about to delete
          before      \* entries it found when it began (history)

registry_vars == <<registered, alive>>
to_vars == <<ahead, targets>>
cache_vars == <<cache, scan, doomed, before>>
call_vars == <<to_vars, got, cache_vars>>

M(c) == Envelope[c]
At(a) == AddressOf[a]
Named(c) == {a \in Agents : At(a) = M(c).target}
Gets == {"SEND-GET", "CAST-GET"}
Request(c) == [id |-> c, by |-> "caller", thread |-> M(c).thread, error |-> FALSE]

Goto(c, label) == pc' = [pc EXCEPT ![c] = label]

(* An event for every outcome of a dispatch. *)
Finish(c, success) ==
    /\ Goto(c, IF success THEN "returned" ELSE "raised")
    /\ audit' = audit \cup {<<c, success>>}
Step(c, label) == Goto(c, label) /\ UNCHANGED audit

-----------------------------------------------------------------------------
(* handle: the format is checked before the dispatch it audits begins. *)
EntryOf(verb) ==
    CASE verb = "SEND" -> "check"
      [] verb = "SEND-GET" -> "cached"
      [] verb \in {"CAST", "CAST-GET"} -> "resolve"
      [] verb = "CAST-SUB" -> "tap_subscribe"
      [] verb = "INVALIDATE" -> "scan"

Handle(c) ==
    /\ pc[c] = "new"
    /\ Step(c, IF _check_format(Formats, M(c)) THEN EntryOf(M(c).verb) ELSE "raised")
    /\ UNCHANGED <<registry_vars, call_vars, bus_vars>>

(* The two checks of a point-to-point verb raise. *)
Checked(c) ==
    IF Permits(Rules, M(c).source, M(c).target, M(c).code)
    THEN Step(c, "alive") ELSE Finish(c, FALSE)

Check(c) == pc[c] = "check" /\ Checked(c) /\ UNCHANGED <<registry_vars, call_vars, bus_vars>>

(* SEND-GET looks in the cache before it checks anything. *)
CacheGet(c) ==
    /\ pc[c] = "cached"
    /\ IF Cached(M(c))
       THEN Finish(c, TRUE) /\ got' = [got EXCEPT ![c] = <<cache[cache_key(M(c))]>>]
       ELSE Checked(c) /\ UNCHANGED got
    /\ UNCHANGED <<registry_vars, to_vars, cache_vars, bus_vars>>

Dispatch(c) == Step(c, IF M(c).verb \in Gets THEN "subscribe" ELSE "append")

IsAlive(c) ==
    /\ pc[c] = "alive"
    /\ targets' = [targets EXCEPT ![c] = Named(c) \cap alive]
    /\ ahead' = [ahead EXCEPT ![c] = Named(c) \cap alive]
    /\ IF Named(c) \cap alive = {} THEN Finish(c, TRUE) ELSE Dispatch(c)
    /\ UNCHANGED <<registry_vars, got, cache_vars, bus_vars>>

(* A broadcast: HGETALL of the registry, or the one agent that is named,   *)
Candidates(c) == IF IsPattern(M(c).target) THEN registered ELSE Named(c)
Addressed(c, a) == IsPattern(M(c).target) => Matches(M(c).target, At(a))
Resolve(c) ==
    /\ pc[c] = "resolve"
    /\ ahead' = [ahead EXCEPT ![c] = Candidates(c)]
    /\ Step(c, "examine")
    /\ UNCHANGED <<registry_vars, targets, got, cache_vars, bus_vars>>

(* Mutant: a broadcast does not filter its targets by scope. *)
EligibleAnyScope(c, a) ==
    a \in alive /\ Addressed(c, a) /\ can_route(M(c).source, At(a), M(c).code)

(* and of these the ones that are alive, compatible and in scope. *)
Eligible(c, a) == a \in alive /\ Addressed(c, a) /\ Permits(Rules, M(c).source, At(a), M(c).code)

Examine(c) ==
    /\ pc[c] = "examine" /\ ahead[c] # {}
    /\ \E a \in ahead[c] :
         /\ ahead' = [ahead EXCEPT ![c] = @ \ {a}]
         /\ targets' = IF Eligible(c, a) THEN [targets EXCEPT ![c] = @ \cup {a}] ELSE targets
    /\ UNCHANGED <<registry_vars, pc, audit, got, cache_vars, bus_vars>>

Examined(c) ==
    /\ pc[c] = "examine" /\ ahead[c] = {}
    /\ ahead' = [ahead EXCEPT ![c] = targets[c]]
    /\ IF targets[c] = {} THEN Finish(c, TRUE) ELSE Dispatch(c)
    /\ UNCHANGED <<registry_vars, targets, got, cache_vars, bus_vars>>

-----------------------------------------------------------------------------
(* The bus: listen for answers first, then the thread, then the targets. *)
SubscribeReplies(c) ==
    /\ pc[c] = "subscribe"
    /\ Subscribe(c, reply_channel(c))
    /\ Step(c, "append")
    /\ UNCHANGED <<registry_vars, call_vars>>

(* Mutant: a call that waits for answers does not write its question down. *)
AppendUnlessGet(c) ==
    /\ pc[c] = "append"
    /\ IF M(c).verb \in Gets THEN UNCHANGED stream ELSE append_thread(Request(c))
    /\ Step(c, "publish")
    /\ UNCHANGED <<channel, frames, faults, registry_vars, call_vars>>

AppendRequest(c) ==
    /\ pc[c] = "append"
    /\ append_thread(Request(c))
    /\ Step(c, "publish")
    /\ UNCHANGED <<channel, frames, faults, registry_vars, call_vars>>

PublishRequest(c) ==
    /\ pc[c] = "publish"
    /\ \E a \in ahead[c] :
         /\ Publish(agent_channel(a), Request(c))
         /\ ahead' = [ahead EXCEPT ![c] = @ \ {a}]
    /\ Step(c, "tap")
    /\ UNCHANGED <<stream, channel, faults, registry_vars, targets, got, cache_vars>>

TapRequest(c) ==
    /\ pc[c] = "tap"
    /\ Tap(Request(c))
    /\ IF ahead[c] # {} THEN Step(c, "publish")
       ELSE IF M(c).verb \in Gets THEN Step(c, "wait") ELSE Finish(c, TRUE)
    /\ UNCHANGED <<stream, channel, registry_vars, call_vars>>

(* How many answers a call waits for. *)
Limit(c) ==
    IF M(c).verb = "CAST-GET" /\ MaxAnswers[c] > 0 THEN MaxAnswers[c] ELSE Cardinality(targets[c])

(* _collect_replies: an empty read (a late confirmation) ends the wait. *)
Collect(c) ==
    /\ pc[c] = "wait" /\ Len(got[c]) < Limit(c)
    /\ \E m \in Range(frames[c]) :
         /\ Read(c, m)
         /\ IF m = Confirmation
            THEN Step(c, "leave") /\ UNCHANGED got
            ELSE got' = [got EXCEPT ![c] = Append(@, m)] /\ UNCHANGED <<pc, audit>>
    /\ UNCHANGED <<stream, channel, faults, registry_vars, to_vars, cache_vars>>

(* Mutant: there is no deadline. *)
StopWhenComplete(c) ==
    /\ pc[c] = "wait" /\ Len(got[c]) = Limit(c)
    /\ Step(c, "leave")
    /\ UNCHANGED <<bus_vars, registry_vars, call_vars>>

(* Enough answers, or the deadline. *)
StopWaiting(c) ==
    /\ pc[c] = "wait"
    /\ Step(c, "leave")
    /\ UNCHANGED <<bus_vars, registry_vars, call_vars>>

Leave(c) ==
    /\ pc[c] = "leave"
    /\ Unsubscribe(c)
    /\ IF M(c).verb = "SEND-GET" /\ got[c] # <<>> THEN Step(c, "put") ELSE Finish(c, TRUE)
    /\ UNCHANGED <<stream, faults, registry_vars, call_vars>>

(* Whatever the answer is, an error of the agent's handler included. *)
Put(c) ==
    /\ pc[c] = "put"
    /\ CachePut(M(c), Head(got[c]))
    /\ Finish(c, TRUE)
    /\ UNCHANGED <<bus_vars, registry_vars, to_vars, scan, doomed, got, before>>

-----------------------------------------------------------------------------
(* CAST-SUB returns a subscription to the tap, with the filter below. *)
TapSubscribe(c) ==
    /\ pc[c] = "tap_subscribe"
    /\ Subscribe(c, tap_channel)
    /\ Finish(c, TRUE)
    /\ UNCHANGED <<registry_vars, call_vars>>

(* By target when the message has one, else by its source. *)
Wanted(c, m) ==
    LET target == IF m.by = "caller" THEN M(m.id).target ELSE M(m.id).source
        source == IF m.by = "caller" THEN M(m.id).source ELSE At(m.by)
        code == IF m.error THEN <<"error", "internal">> ELSE M(m.id).code
    IN /\ CodeMatches(code, M(c).code)
       /\ IF IsPattern(M(c).target)
          THEN Matches(M(c).target, IF IsPattern(target) THEN source ELSE target)
          ELSE target = M(c).target

(* The owner of the subscription reads: get_one, or the next of messages(). *)
Observe(c) ==
    /\ pc[c] = "returned" /\ M(c).verb = "CAST-SUB"
    /\ \E m \in Range(frames[c]) :
         /\ Read(c, m)
         /\ got' = IF m # Confirmation /\ Wanted(c, m) THEN [got EXCEPT ![c] = Append(@, m)] ELSE got
    /\ UNCHANGED <<stream, channel, faults, registry_vars, pc, audit, to_vars, cache_vars>>

-----------------------------------------------------------------------------
(* INVALIDATE: SCAN, and for each key GET, a comparison and DEL. *)
Scan(c) ==
    /\ pc[c] = "scan"
    /\ IF IsPattern(M(c).target)
       THEN /\ scan' = [scan EXCEPT ![c] = DOMAIN cache]
            /\ before' = [before EXCEPT ![c] = {<<k, cache[k]>> : k \in DOMAIN cache}]
            /\ Step(c, "get")
       ELSE Finish(c, FALSE) /\ UNCHANGED <<scan, before>>
    /\ UNCHANGED <<bus_vars, registry_vars, to_vars, got, cache, doomed>>

Stale(c, key) == EntryMatches(M(c).target, M(c).params, key)

GetEntry(c) ==
    /\ pc[c] = "get"
    /\ \E k \in scan[c] :
         /\ scan' = [scan EXCEPT ![c] = @ \ {k}]
         /\ IF k \in DOMAIN cache /\ Stale(c, k)
            THEN Step(c, "delete") /\ doomed' = [doomed EXCEPT ![c] = {k}]
            ELSE UNCHANGED <<pc, audit, doomed>>
    /\ UNCHANGED <<bus_vars, registry_vars, to_vars, got, before, cache>>

(* Mutant: one entry is deleted, and no more. *)
DeleteAndReturn(c) ==
    /\ pc[c] = "delete"
    /\ cache' = [k \in DOMAIN cache \ doomed[c] |-> cache[k]]
    /\ Finish(c, TRUE)
    /\ UNCHANGED <<bus_vars, registry_vars, to_vars, got, scan, doomed, before>>

(* DEL of the key, whatever it holds by now. *)
DeleteEntry(c) ==
    /\ pc[c] = "delete"
    /\ cache' = [k \in DOMAIN cache \ doomed[c] |-> cache[k]]
    /\ Step(c, "get")
    /\ UNCHANGED <<bus_vars, registry_vars, to_vars, got, scan, doomed, before>>

Invalidated(c) ==
    /\ pc[c] = "get" /\ scan[c] = {}
    /\ Finish(c, TRUE)
    /\ UNCHANGED <<bus_vars, registry_vars, call_vars>>

-----------------------------------------------------------------------------
(* Redis fails in the middle: the subscription is closed, the failure is   *)
(* audited and raised.                                                     *)
Awaiting == {"cached", "alive", "resolve", "examine", "subscribe", "append", "publish", "wait",
             "put", "tap_subscribe", "scan", "get", "delete"}
Fail(c) ==
    /\ pc[c] \in Awaiting /\ faults < MaxFaults
    /\ faults' = faults + 1
    /\ Unsubscribe(c)
    /\ Finish(c, FALSE)
    /\ UNCHANGED <<stream, registry_vars, call_vars>>

CallStep(c) ==
    \/ Handle(c) \/ Check(c) \/ CacheGet(c) \/ IsAlive(c) \/ Resolve(c) \/ Examine(c) \/ Examined(c)
    \/ SubscribeReplies(c) \/ AppendRequest(c) \/ PublishRequest(c) \/ TapRequest(c)
    \/ Collect(c) \/ StopWaiting(c) \/ Leave(c) \/ Put(c) \/ TapSubscribe(c)
    \/ Scan(c) \/ GetEntry(c) \/ DeleteEntry(c) \/ Invalidated(c)
=============================================================================
