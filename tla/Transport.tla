------------------------------ MODULE Transport ------------------------------
(***************************************************************************)
(* RedisBus: a stream of messages per thread and pub/sub channels.  A      *)
(* PUBLISH reaches whoever is subscribed at that moment and nobody else; a *)
(* tap mirrors every message, best effort.  Beside it ProtocolCache keeps  *)
(* the answer to a question as long as the lifecycle of the agent that     *)
(* gave it says.                                                           *)
(***************************************************************************)
EXTENDS Addressing, Naturals, FiniteSets

CONSTANT MaxFaults    \* bound of the model: frames, keys and agents that go missing

VARIABLES stream,     \* [threads -> what was appended, in order]
          channel,    \* the channel of each connection: inboxes, requesters, observers
          frames,     \* what it has still to read
          cache,      \* ProtocolCache's entries: [cache keys -> answers]
          faults

bus_vars == <<stream, channel, frames, faults>>

NoChannel == <<"none">>
agent_channel(a) == <<"agent", a>>
reply_channel(id) == <<"reply", id>>
tap_channel == <<"tap">>

(* The confirmation of a subscription is drained before anything else is   *)
(* read, unless it takes longer than the 50 ms that are spent on it.       *)
Confirmation == [id |-> "subscribed"]
Subscribe(l, ch) ==
    /\ channel' = [channel EXCEPT ![l] = ch]
    /\ \/ /\ frames' = [frames EXCEPT ![l] = <<>>]
          /\ UNCHANGED faults
       \/ /\ faults < MaxFaults /\ faults' = faults + 1
          /\ frames' = [frames EXCEPT ![l] = <<Confirmation>>]
    /\ UNCHANGED stream

Unsubscribe(l) ==
    /\ channel' = [channel EXCEPT ![l] = NoChannel]
    /\ frames' = [frames EXCEPT ![l] = <<>>]

append_thread(m) == stream' = [stream EXCEPT ![m.thread] = Append(@, m)]

Publish(ch, m) ==
    frames' = [l \in DOMAIN frames |->
                 IF channel[l] = ch THEN Append(frames[l], m) ELSE frames[l]]

(* The second PUBLISH of a message; a failure of it is swallowed. *)
Tap(m) ==
    \/ Publish(tap_channel, m) /\ UNCHANGED faults
    \/ faults < MaxFaults /\ faults' = faults + 1 /\ UNCHANGED frames

(* get_message: the next frame is taken. *)
Read(l, m) ==
    /\ frames[l] # <<>> /\ m = Head(frames[l])
    /\ frames' = [frames EXCEPT ![l] = Tail(@)]

(***************************************************************************)
(* ProtocolCache.                                                          *)
(***************************************************************************)
ttl_for(target) == LIFECYCLE_TTL[target.lifecycle]
Cached(m) == cache_key(m) \in DOMAIN cache
Without(key) == [k \in DOMAIN cache \ {key} |-> cache[k]]

CachePut(m, answer) ==
    cache' = IF ttl_for(m.target) > 0
             THEN [k \in {cache_key(m)} \cup DOMAIN cache |->
                     IF k = cache_key(m) THEN answer ELSE cache[k]]
             ELSE cache

EntryMatches(pattern, params, key) == Matches(pattern, key[1]) /\ params \subseteq key[1].params

(* A key runs out. *)
ExpireKey ==
    \E k \in DOMAIN cache :
      /\ faults < MaxFaults /\ faults' = faults + 1
      /\ cache' = Without(k)
      /\ UNCHANGED <<stream, channel, frames>>
=============================================================================
