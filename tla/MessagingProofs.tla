--------------------------- MODULE MessagingProofs ---------------------------
(***************************************************************************)
(* For any calls, agents, addresses, policies and failures: what was       *)
(* delivered was allowed, what is returned was asked for, the thread has   *)
(* the question before the answer, and an invalidation is complete.        *)
(*                                                                         *)
(* A message, once it is on its way, belongs to a call that has written    *)
(* its question and will not change its targets any more; frames, answers, *)
(* results and cached entries are all described in terms of that.          *)
(*                                                                         *)
(* What is said over the bus: a session hears its whole panel, a mode      *)
(* meets the hooks it needs, a judgement stays whole in its graph.         *)
(***************************************************************************)
EXTENDS Messaging, Conversation, SessionRunner, Classroom, SequenceTheorems, FiniteSetTheorems, TLAPS

Wire == [id : Calls, by : Agents \cup {"caller"}, thread : Threads, error : BOOLEAN]

(* Where a call of each verb can be. *)
Ends == {"new", "returned", "raised"}
Places(verb) ==
    CASE verb = "SEND" -> Ends \cup {"check", "alive", "append", "publish", "tap"}
      [] verb = "SEND-GET" ->
           Ends \cup {"cached", "alive", "subscribe", "append", "publish", "tap", "wait",
                      "leave", "put"}
      [] verb = "CAST" -> Ends \cup {"resolve", "examine", "append", "publish", "tap"}
      [] verb = "CAST-GET" ->
           Ends \cup {"resolve", "examine", "subscribe", "append", "publish", "tap", "wait",
                      "leave"}
      [] verb = "CAST-SUB" -> Ends \cup {"tap_subscribe"}
      [] verb = "INVALIDATE" -> Ends \cup {"scan", "get", "delete"}

Unresolved == {"new", "check", "cached", "alive", "resolve"}
Unasked == Unresolved \cup {"examine", "subscribe", "append"}
Late == {"publish", "tap", "wait", "leave", "put", "returned", "raised"}

Domains ==
    /\ Made \subseteq Calls /\ registered \subseteq Agents
    /\ DOMAIN channel = Agents \cup Made /\ DOMAIN frames = Agents \cup Made
    /\ DOMAIN ahead = Made /\ DOMAIN targets = Made /\ DOMAIN got = Made
    /\ DOMAIN scan = Made /\ DOMAIN doomed = Made /\ DOMAIN before = Made
    /\ DOMAIN doing = Agents /\ DOMAIN answer = Agents
    /\ DOMAIN stream = Threads /\ \A t \in Threads : stream[t] \in Seq(Wire)

Asked(c) ==
    \E j \in 1..Len(stream[M(c).thread]) : stream[M(c).thread][j] = Request(c)

(* An agent that may be handed a call's request. *)
Cleared(c, a) ==
    /\ Permits(Rules, M(c).source, At(a), M(c).code)
    /\ IsPattern(M(c).target) => Matches(M(c).target, At(a))

(* How far a call has come, and what it has resolved and written by then. *)
Route(c) ==
    /\ pc[c] \in Places(M(c).verb)
    /\ pc[c] = "alive" => Permits(Rules, M(c).source, M(c).target, M(c).code)
    /\ pc[c] \in Unresolved => targets[c] = {}
    /\ pc[c] \in {"subscribe", "append", "publish", "tap"} => ahead[c] \subseteq targets[c]
    /\ pc[c] \in {"publish", "tap"} => Asked(c)
    /\ pc[c] = "examine" => ahead[c] \subseteq Agents
    /\ targets[c] \subseteq {a \in Agents : Cleared(c, a)}

Routes == \A c \in Made : Route(c)

Channels ==
    /\ \A a \in Agents : channel[a] \in {agent_channel(a), NoChannel}
    /\ \A c \in Made :
         \/ channel[c] \in {reply_channel(c), NoChannel}
         \/ channel[c] = tap_channel /\ M(c).verb = "CAST-SUB"

(* A message on its way, *)
Sent(m) ==
    /\ m \in Wire /\ m.id \in Made /\ m.thread = M(m.id).thread
    /\ pc[m.id] \in Late /\ Asked(m.id)

(* the answers of a call's own targets, *)
Own(c) == {m \in Wire : m.id = c /\ m.by \in targets[c]}

(* and what can come in over a connection. *)
Inbox(l) ==
    {m \in Wire \cup {Confirmation} :
       m # Confirmation =>
         /\ Sent(m)
         /\ l \in Agents => m = Request(m.id) /\ l \in targets[m.id]
         /\ l \in Made /\ M(l).verb \in Gets => m \in Own(l)}

Inboxes == \A l \in Agents \cup Made : frames[l] \in Seq(Inbox(l))

Sending ==
    \A a \in Agents : doing[a] \in {"append", "publish", "tap"} =>
      Sent(answer[a]) /\ answer[a].by = a /\ answer[a] \in Own(answer[a].id)

-----------------------------------------------------------------------------
(* Sequences whose elements are in a set. *)
LEMMA SeqWiden ==
  ASSUME NEW S, NEW T, S \subseteq T, NEW s \in Seq(S)
  PROVE  s \in Seq(T)
<1>1. \A i \in 1..Len(s) : s[i] \in T
  BY ElementOfSeq
<1>2. s = [i \in 1..Len(s) |-> s[i]] /\ Len(s) \in Nat
  OBVIOUS
<1> QED
  BY <1>1, <1>2, IsASeq

LEMMA SeqRead ==
  ASSUME NEW T, NEW s \in Seq(T), s # <<>>
  PROVE  Head(s) \in T /\ Tail(s) \in Seq(T)
  BY HeadTailProperties

(* The confirmation of a subscription is not a message. *)
LEMMA ConfirmationIsNoMessage == Confirmation \notin Wire
<1>1. DOMAIN Confirmation = {"id"}
  BY DEF Confirmation
<1>2. \A m \in Wire : "by" \in DOMAIN m
  BY DEF Wire
<1> QED
  BY <1>1, <1>2

LEMMA ChannelsDiffer ==
  /\ \A a, b : agent_channel(a) = agent_channel(b) => a = b
  /\ \A a, b : reply_channel(a) = reply_channel(b) => a = b
  /\ \A a, c : agent_channel(a) # reply_channel(c)
  /\ \A a : agent_channel(a) # tap_channel /\ agent_channel(a) # NoChannel
  /\ \A c : reply_channel(c) # tap_channel /\ reply_channel(c) # NoChannel
  /\ tap_channel # NoChannel
  BY DEF agent_channel, reply_channel, tap_channel, NoChannel

LEMMA RequestIsWire ==
  ASSUME NEW c \in Calls
  PROVE  Request(c) \in Wire /\ Request(c).id = c /\ Request(c).by = "caller"
         /\ Request(c).thread = M(c).thread /\ M(c).thread \in Threads
  BY DEF Request, Wire, Threads

LEMMA VerbsOfCalls ==
  ASSUME NEW c \in Calls
  PROVE  M(c).verb \in Verbs /\ (M(c).verb \in PointToPoint => ~IsPattern(M(c).target))
  BY MessagingAssumption DEF ValidMessage

-----------------------------------------------------------------------------
(* A step writes at most one message down. *)
LEMMA Appended ==
  ASSUME Domains, NEW m \in Wire, append_thread(m)
  PROVE  /\ DOMAIN stream' = Threads /\ \A t \in Threads : stream'[t] \in Seq(Wire)
         /\ \A c \in Calls : Asked(c) => Asked(c)'
         /\ \A c \in Calls : m = Request(c) => Asked(c)'
<1>1. m.thread \in Threads /\ stream[m.thread] \in Seq(Wire)
  BY DEF Wire, Domains
<1>2. stream'[m.thread] = Append(stream[m.thread], m)
      /\ \A t \in Threads \ {m.thread} : stream'[t] = stream[t]
  BY <1>1 DEF append_thread, Domains
<1>3. /\ stream'[m.thread] \in Seq(Wire)
      /\ Len(stream'[m.thread]) = Len(stream[m.thread]) + 1
      /\ Len(stream[m.thread]) \in Nat
      /\ stream'[m.thread][Len(stream[m.thread]) + 1] = m
      /\ \A j \in 1..Len(stream[m.thread]) : stream'[m.thread][j] = stream[m.thread][j]
  BY <1>1, <1>2, AppendProperties
<1>4. DOMAIN stream' = Threads /\ \A t \in Threads : stream'[t] \in Seq(Wire)
  BY <1>2, <1>3 DEF append_thread, Domains
<1>5. ASSUME NEW c \in Calls, Asked(c) PROVE Asked(c)'
  <2>1. PICK j \in 1..Len(stream[M(c).thread]) : stream[M(c).thread][j] = Request(c)
    BY <1>5 DEF Asked
  <2>2. M(c).thread \in Threads
    BY RequestIsWire
  <2>3. j \in 1..Len(stream'[M(c).thread]) /\ stream'[M(c).thread][j] = Request(c)
    BY <2>1, <2>2, <1>2, <1>3
  <2> QED
    BY <2>3 DEF Asked, Request, M
<1>6. ASSUME NEW c \in Calls, m = Request(c) PROVE Asked(c)'
  <2>1. m.thread = M(c).thread
    BY <1>6, RequestIsWire
  <2>2. Len(stream[m.thread]) + 1 \in 1..Len(stream'[m.thread])
    BY <1>3
  <2> QED
    BY <1>3, <1>6, <2>1, <2>2 DEF Asked, Request, M
<1> QED
  BY <1>4, <1>5, <1>6

(* The steps of calls that leave the streams alone. *)
Quiet(c) ==
    \/ Handle(c) \/ Check(c) \/ CacheGet(c) \/ IsAlive(c) \/ Resolve(c) \/ Examine(c) \/ Examined(c)
    \/ SubscribeReplies(c) \/ PublishRequest(c) \/ TapRequest(c)
    \/ Collect(c) \/ StopWaiting(c) \/ Leave(c) \/ Put(c) \/ TapSubscribe(c)
    \/ Scan(c) \/ GetEntry(c) \/ DeleteEntry(c) \/ Invalidated(c) \/ Observe(c) \/ Fail(c)

LEMMA QuietStep ==
  ASSUME Domains, NEW c \in Made, Quiet(c), UNCHANGED agent_vars
  PROVE  Domains' /\ UNCHANGED stream /\ Made' = Made
<1> USE DEF vars, bus_vars, registry_vars, call_vars, to_vars, cache_vars, agent_vars
<1>1. UNCHANGED stream
  BY DEF Quiet, Handle, Check, Checked, CacheGet, IsAlive, Resolve, Examine, Examined,
         SubscribeReplies, PublishRequest, TapRequest, Collect, StopWaiting, Leave, Put,
         TapSubscribe, Scan, GetEntry, DeleteEntry, Invalidated, Observe, Fail, Subscribe
<1>2. Made' = Made
  BY DEF Made, Quiet, Handle, Check, Checked, CacheGet, IsAlive, Resolve, Examine, Examined,
         SubscribeReplies, PublishRequest, TapRequest, Collect, StopWaiting, Leave, Put,
         TapSubscribe, Scan, GetEntry, DeleteEntry, Invalidated, Observe, Fail,
         Dispatch, Step, Goto, Finish
<1>3. DOMAIN channel' = DOMAIN channel /\ DOMAIN frames' = DOMAIN frames
      /\ registered' = registered
  BY DEF Quiet, Handle, Check, Checked, CacheGet, IsAlive, Resolve, Examine, Examined,
         SubscribeReplies, PublishRequest, TapRequest, Collect, StopWaiting, Leave, Put,
         TapSubscribe, Scan, GetEntry, DeleteEntry, Invalidated, Observe, Fail,
         Subscribe, Unsubscribe, Publish, Tap, Read
<1>4. /\ DOMAIN ahead' = DOMAIN ahead /\ DOMAIN targets' = DOMAIN targets
      /\ DOMAIN got' = DOMAIN got /\ DOMAIN scan' = DOMAIN scan
      /\ DOMAIN doomed' = DOMAIN doomed /\ DOMAIN before' = DOMAIN before
  BY DEF Quiet, Handle, Check, Checked, CacheGet, IsAlive, Resolve, Examine, Examined,
         SubscribeReplies, PublishRequest, TapRequest, Collect, StopWaiting, Leave, Put,
         TapSubscribe, Scan, GetEntry, DeleteEntry, Invalidated, Observe, Fail
<1> QED
  BY <1>1, <1>2, <1>3, <1>4 DEF Domains, Made

LEMMA AgentStep ==
  ASSUME Domains, Sending, NEW a \in Agents, Consume(a) \/ Live(a)
  PROVE  /\ Domains' /\ Made' = Made /\ UNCHANGED <<pc, audit, call_vars>>
         /\ \A c \in Calls : Asked(c) => Asked(c)'
<1> USE DEF vars, bus_vars, registry_vars, call_vars, to_vars, cache_vars, agent_vars
<1>1. UNCHANGED <<pc, audit, call_vars>> /\ Made' = Made
  BY DEF Consume, Live, Receive, AppendAnswer, PublishAnswer, TapAnswer, Register, Start, Stop,
         Deregister, Expire, Heartbeat, ReplyFails, EngineIdle, Made
<1>2. /\ DOMAIN channel' = DOMAIN channel /\ DOMAIN frames' = DOMAIN frames
      /\ DOMAIN doing' = DOMAIN doing /\ DOMAIN answer' = DOMAIN answer
      /\ registered' \subseteq registered \cup {a}
  BY DEF Consume, Live, Receive, AppendAnswer, PublishAnswer, TapAnswer, Register, Start, Stop,
         Deregister, Expire, Heartbeat, ReplyFails, Become, Subscribe, Unsubscribe, Publish,
         Tap, Read
<1>3. CASE AppendAnswer(a)
  <2>1. answer[a] \in Wire /\ append_thread(answer[a])
    BY <1>3 DEF AppendAnswer, Sending, Sent
  <2> QED
    BY <1>1, <1>2, <2>1, Appended DEF Domains
<1>4. CASE ~AppendAnswer(a)
  <2>1. UNCHANGED stream
    BY <1>4 DEF Consume, Live, Receive, PublishAnswer, TapAnswer, Register, Start, Stop,
           Deregister, Expire, Heartbeat, ReplyFails, Subscribe
  <2> QED
    BY <1>1, <1>2, <2>1 DEF Domains, Asked, Request, M
<1> QED
  BY <1>3, <1>4

(* A call's step is its own. *)
LEMMA OneCall ==
  ASSUME Domains, NEW c \in Made, Quiet(c) \/ AppendRequest(c), NEW d \in Made, d # c
  PROVE  /\ pc'[d] = pc[d] /\ targets'[d] = targets[d] /\ ahead'[d] = ahead[d]
         /\ got'[d] = got[d] /\ scan'[d] = scan[d] /\ doomed'[d] = doomed[d]
         /\ before'[d] = before[d]
<1> USE DEF bus_vars, registry_vars, call_vars, to_vars, cache_vars
<1>1. pc'[d] = pc[d]
  BY DEF Domains, Made, Quiet, Handle, Check, Checked, CacheGet, IsAlive, Resolve, Examine, Examined,
         SubscribeReplies, AppendRequest, PublishRequest, TapRequest, Collect, StopWaiting, Leave,
         Put, TapSubscribe, Scan, GetEntry, DeleteEntry, Invalidated, Observe, Fail,
         Dispatch, Step, Goto, Finish
<1>2. /\ targets'[d] = targets[d] /\ ahead'[d] = ahead[d]
      /\ got'[d] = got[d] /\ scan'[d] = scan[d] /\ doomed'[d] = doomed[d]
      /\ before'[d] = before[d]
  BY DEF Domains, Made, Quiet, Handle, Check, Checked, CacheGet, IsAlive, Resolve, Examine, Examined,
         SubscribeReplies, AppendRequest, PublishRequest, TapRequest, Collect, StopWaiting, Leave,
         Put, TapSubscribe, Scan, GetEntry, DeleteEntry, Invalidated, Observe, Fail
<1> QED
  BY <1>1, <1>2

LEMMA RouteKept ==
  ASSUME NEW c \in Made, Route(c), pc'[c] = pc[c], targets'[c] = targets[c], ahead'[c] = ahead[c],
         Asked(c) => Asked(c)'
  PROVE  Route(c)'
  BY DEF Route, Cleared, M, At

LEMMA RouteStep ==
  ASSUME Domains, NEW c \in Made, Quiet(c) \/ (AppendRequest(c) /\ Asked(c)'), Route(c),
         Asked(c) => Asked(c)'
  PROVE  Route(c)'
<1> USE DEF bus_vars, registry_vars, call_vars, to_vars, cache_vars, Step, Goto, Finish
<1> c \in Calls
  BY DEF Domains
<1>0. M(c).verb \in Verbs /\ (M(c).verb \in PointToPoint => ~IsPattern(M(c).target))
  BY VerbsOfCalls
<1> DEFINE P == Places(M(c).verb)
<1>p. /\ P \subseteq UNION {Ends, {"check", "alive", "append", "publish", "tap", "cached",
             "subscribe", "wait", "leave", "put", "resolve", "examine", "tap_subscribe", "scan",
             "get", "delete"}}
      /\ Ends \subseteq P
  BY <1>0 DEF Places, Ends, Verbs, PointToPoint
<1>1. CASE Handle(c)
  <2>1. /\ pc[c] = "new" /\ targets'[c] = targets[c] /\ ahead'[c] = ahead[c]
        /\ pc'[c] \in {EntryOf(M(c).verb), "raised"}
    BY <1>1 DEF Handle, Domains, Made
  <2>2. EntryOf(M(c).verb) \in P
        /\ EntryOf(M(c).verb) \in {"check", "cached", "resolve", "tap_subscribe", "scan"}
    BY <1>0 DEF EntryOf, Places, Verbs, PointToPoint
  <2>3. "raised" \in P
    BY <1>p DEF Ends
  <2> QED
    BY <2>1, <2>2, <2>3 DEF Route, Unresolved, Cleared, M, At
<1>2. CASE Check(c) \/ CacheGet(c)
  <2>1. /\ pc[c] \in {"check", "cached"} /\ targets'[c] = targets[c] /\ ahead'[c] = ahead[c]
        /\ \/ pc'[c] = "alive" /\ Permits(Rules, M(c).source, M(c).target, M(c).code)
           \/ pc'[c] \in {"returned", "raised"}
    BY <1>2 DEF Check, CacheGet, Checked, Domains, Made
  <2>2. {"returned", "raised", "alive"} \subseteq P
    BY <1>0, <2>1 DEF Route, Places, Ends, Verbs, PointToPoint
  <2> QED
    BY <2>1, <2>2 DEF Route, Unresolved, Cleared, M, At
<1>3. CASE IsAlive(c)
  <2>1. /\ pc[c] = "alive" /\ targets'[c] = Named(c) \cap alive /\ ahead'[c] = Named(c) \cap alive
        /\ pc'[c] \in {"returned", IF M(c).verb \in Gets THEN "subscribe" ELSE "append"}
    BY <1>3 DEF IsAlive, Dispatch, Domains, Made
  <2>2. pc'[c] \in P /\ M(c).verb \in PointToPoint
    BY <1>0, <2>1 DEF Route, Places, Ends, Verbs, PointToPoint, Gets
  <2>3. Named(c) \subseteq {a \in Agents : Cleared(c, a)}
    BY <2>1, <2>2, <1>0 DEF Named, Cleared, Route
  <2> QED
    BY <2>1, <2>2, <2>3 DEF Route, Unresolved, Cleared, M, At
<1>4. CASE Resolve(c)
  <2>1. pc[c] = "resolve" /\ pc'[c] = "examine" /\ targets'[c] = targets[c]
        /\ ahead'[c] = Candidates(c)
    BY <1>4 DEF Resolve, Domains, Made
  <2>3. Candidates(c) \subseteq Agents
    BY DEF Candidates, Named, Domains
  <2>2. "examine" \in P
    BY <1>0, <2>1 DEF Route, Places, Ends, Verbs, PointToPoint
  <2> QED
    BY <2>1, <2>2, <2>3 DEF Route, Unresolved, Cleared, M, At
<1>5. CASE Examine(c)
  <2>1. /\ pc[c] = "examine" /\ pc'[c] = pc[c] /\ ahead'[c] \subseteq ahead[c]
        /\ \E a \in ahead[c] : targets'[c] = targets[c]
                               \/ (targets'[c] = targets[c] \cup {a} /\ Eligible(c, a))
    BY <1>5 DEF Examine, Domains, Made
  <2>2. targets'[c] \subseteq {a \in Agents : Cleared(c, a)}
    BY <2>1 DEF Route, Eligible, Addressed, Cleared
  <2> QED
    BY <2>1, <2>2 DEF Route, Unresolved, Cleared, M, At
<1>6. CASE Examined(c)
  <2>1. /\ pc[c] = "examine" /\ targets'[c] = targets[c] /\ ahead'[c] = targets[c]
        /\ pc'[c] \in {"returned", IF M(c).verb \in Gets THEN "subscribe" ELSE "append"}
    BY <1>6 DEF Examined, Dispatch, Domains, Made
  <2>2. pc'[c] \in P
    BY <1>0, <2>1 DEF Route, Places, Ends, Verbs, PointToPoint, Gets
  <2> QED
    BY <2>1, <2>2 DEF Route, Unresolved, Cleared, M, At
<1>7. CASE SubscribeReplies(c) \/ (AppendRequest(c) /\ Asked(c)')
  <2>1. /\ targets'[c] = targets[c] /\ ahead'[c] = ahead[c]
        /\ \/ pc[c] = "subscribe" /\ pc'[c] = "append"
           \/ pc[c] = "append" /\ pc'[c] = "publish" /\ Asked(c)'
    BY <1>7 DEF SubscribeReplies, AppendRequest, Domains, Made
  <2>2. pc'[c] \in P
    BY <1>0, <2>1 DEF Route, Places, Ends, Verbs, PointToPoint, Gets
  <2> QED
    BY <2>1, <2>2 DEF Route, Unresolved, Cleared, M, At
<1>8. CASE PublishRequest(c) \/ TapRequest(c)
  <2>1. /\ targets'[c] = targets[c] /\ ahead'[c] \subseteq ahead[c]
        /\ pc[c] \in {"publish", "tap"}
        /\ pc'[c] \in {"publish", "tap", "returned", IF M(c).verb \in Gets THEN "wait" ELSE "tap"}
    BY <1>8 DEF PublishRequest, TapRequest, Domains, Made
  <2>2. pc'[c] \in P
    BY <1>0, <2>1 DEF Route, Places, Ends, Verbs, PointToPoint, Gets
  <2> QED
    BY <2>1, <2>2 DEF Route, Unresolved, Cleared, M, At
<1>9. CASE Collect(c) \/ StopWaiting(c) \/ Leave(c) \/ Put(c) \/ TapSubscribe(c) \/ Observe(c)
  <2>1. /\ targets'[c] = targets[c] /\ ahead'[c] = ahead[c]
        /\ pc[c] \in {"wait", "leave", "put", "tap_subscribe", "returned"}
        /\ \/ pc'[c] = pc[c]
           \/ pc[c] = "wait" /\ pc'[c] = "leave"
           \/ pc[c] = "leave" /\ pc'[c] = "put" /\ M(c).verb = "SEND-GET"
           \/ pc'[c] = "returned"
    BY <1>9 DEF Collect, StopWaiting, Leave, Put, TapSubscribe, Observe, Domains, Made
  <2>2. pc'[c] \in P
    BY <1>0, <2>1 DEF Route, Places, Ends, Verbs, PointToPoint, Gets
  <2> QED
    BY <2>1, <2>2 DEF Route, Unresolved, Cleared, M, At
<1>10. CASE Scan(c) \/ GetEntry(c) \/ DeleteEntry(c) \/ Invalidated(c) \/ Fail(c)
  <2>1. /\ targets'[c] = targets[c] /\ ahead'[c] = ahead[c]
        /\ \/ pc[c] \in {"scan", "get", "delete"} /\ pc'[c] \in {"get", "delete", "returned"}
           \/ pc'[c] = "raised"
    BY <1>10 DEF Scan, GetEntry, DeleteEntry, Invalidated, Fail, Domains, Made
  <2>2. pc'[c] \in P
    BY <1>0, <1>p, <2>1 DEF Route, Places, Ends, Verbs, PointToPoint, Gets
  <2> QED
    BY <2>1, <2>2 DEF Route, Unresolved, Cleared, M, At
<1> QED
  BY <1>1, <1>2, <1>3, <1>4, <1>5, <1>6, <1>7, <1>8, <1>9, <1>10 DEF Quiet

(* What a step does not take back: a question that is written, the targets *)
(* of a call that has begun to send, and its return.                       *)
Later(c) ==
    /\ Asked(c) => Asked(c)'
    /\ pc[c] \in Late => pc'[c] \in Late /\ targets'[c] = targets[c]
    /\ pc[c] = "returned" => pc'[c] = "returned"

LEMMA CallIsLater ==
  ASSUME Domains, NEW c \in Made, Quiet(c) \/ AppendRequest(c)
  PROVE  /\ pc[c] \in Late => pc'[c] \in Late /\ targets'[c] = targets[c]
         /\ pc[c] = "returned" => pc'[c] = "returned"
<1> USE DEF bus_vars, registry_vars, call_vars, to_vars, cache_vars, Domains, Made
<1>1. CASE pc[c] = "returned"
  <2>1. Observe(c)
    BY <1>1 DEF Quiet, Handle, Check, CacheGet, IsAlive, Resolve, Examine, Examined,
         SubscribeReplies, AppendRequest, PublishRequest, TapRequest, Collect, StopWaiting, Leave,
         Put, TapSubscribe, Scan, GetEntry, DeleteEntry, Invalidated, Fail, Awaiting
  <2> QED
    BY <1>1, <2>1 DEF Observe
<1>2. CASE pc[c] \in Late \ {"returned"}
  <2>1. \/ PublishRequest(c) \/ TapRequest(c) \/ Collect(c) \/ StopWaiting(c) \/ Leave(c) \/ Put(c)
        \/ Fail(c)
    BY <1>2 DEF Late, Quiet, Handle, Check, CacheGet, IsAlive, Resolve, Examine, Examined,
         SubscribeReplies, AppendRequest, TapSubscribe, Scan, GetEntry, DeleteEntry, Invalidated,
         Observe
  <2> QED
    BY <1>2, <2>1 DEF Late, PublishRequest, TapRequest, Collect, StopWaiting, Leave, Put, Fail,
         Step, Goto, Finish
<1> QED
  BY <1>1, <1>2 DEF Late

Settled == Domains /\ Routes /\ Sending

LEMMA StepIsLater ==
  ASSUME Settled, [Next]_vars
  PROVE  Domains' /\ Routes' /\ Made' = Made /\ \A c \in Made : Later(c)
<1> USE DEF Settled
<1>1. ASSUME NEW c \in Made, Quiet(c), UNCHANGED agent_vars
      PROVE  Domains' /\ Routes' /\ Made' = Made /\ \A d \in Made : Later(d)
  <2>1. Domains' /\ UNCHANGED stream /\ Made' = Made
    BY <1>1, QuietStep
  <2>2. ASSUME NEW d \in Made PROVE Asked(d) => Asked(d)'
    BY <2>1 DEF Asked, Request, M
  <2> QED
    BY <1>1, <2>1, <2>2, OneCall, CallIsLater, RouteKept, RouteStep DEF Routes, Later
<1>2. ASSUME NEW c \in Made, AppendRequest(c), UNCHANGED agent_vars
      PROVE  Domains' /\ Routes' /\ Made' = Made /\ \A d \in Made : Later(d)
  <2>1. c \in Calls /\ Request(c) \in Wire
    BY RequestIsWire DEF Domains
  <2>2. /\ DOMAIN stream' = Threads /\ \A t \in Threads : stream'[t] \in Seq(Wire)
        /\ \A d \in Calls : Asked(d) => Asked(d)'
        /\ Asked(c)'
    BY <1>2, <2>1, Appended DEF AppendRequest
  <2>3. Made' = Made /\ Domains'
    BY <1>2, <2>2 DEF AppendRequest, Step, Goto, Domains, Made, agent_vars, call_vars, to_vars,
           cache_vars, registry_vars
  <2>4. Made \subseteq Calls
    BY DEF Domains
  <2> QED
    BY <1>2, <2>2, <2>3, <2>4, OneCall, CallIsLater, RouteKept, RouteStep DEF Routes, Later
<1>3. ASSUME NEW a \in Agents, Consume(a) \/ Live(a)
      PROVE  Domains' /\ Routes' /\ Made' = Made /\ \A d \in Made : Later(d)
  <2>1. /\ Domains' /\ Made' = Made /\ UNCHANGED <<pc, audit, call_vars>>
        /\ \A d \in Calls : Asked(d) => Asked(d)'
    BY <1>3, AgentStep
  <2>2. Made \subseteq Calls
    BY DEF Domains
  <2>3. UNCHANGED <<targets, ahead>>
    BY <2>1 DEF call_vars, to_vars
  <2> QED
    BY <2>1, <2>2, <2>3, RouteKept DEF Routes, Later
<1>4. ASSUME \/ /\ ExpireKey
                /\ UNCHANGED <<registry_vars, pc, audit, to_vars, got, scan, doomed, before,
                               agent_vars>>
             \/ UNCHANGED vars
      PROVE  Domains' /\ Routes' /\ Made' = Made /\ \A d \in Made : Later(d)
  <2>1. UNCHANGED <<stream, channel, frames, registered, pc, targets, ahead, got, scan, doomed,
                    before, doing, answer>>
    BY <1>4 DEF ExpireKey, vars, bus_vars, registry_vars, to_vars, agent_vars, call_vars,
           cache_vars
  <2>2. Domains' /\ Made' = Made
    BY <2>1 DEF Domains, Made
  <2>3. \A d \in Made : Asked(d) => Asked(d)'
    BY <2>1 DEF Asked, Request, M
  <2> QED
    BY <2>1, <2>2, <2>3, RouteKept DEF Routes, Later
<1> QED
  BY <1>1, <1>2, <1>3, <1>4 DEF Next, CallStep, Quiet

-----------------------------------------------------------------------------
LEMMA SentStays ==
  ASSUME NEW m, Sent(m), Made' = Made, \A c \in Made : Later(c)
  PROVE  Sent(m)'
  BY DEF Sent, Later, M

LEMMA InboxGrows ==
  ASSUME NEW l, Made' = Made, \A c \in Made : Later(c)
  PROVE  Inbox(l) \subseteq Inbox(l)'
<1> SUFFICES ASSUME NEW m \in Inbox(l) PROVE m \in Inbox(l)'
  OBVIOUS
<1>1. CASE m = Confirmation
  BY <1>1 DEF Inbox
<1>2. CASE m # Confirmation
  <2>1. m \in Wire /\ Sent(m) /\ Sent(m)' /\ targets'[m.id] = targets[m.id]
    BY <1>2, SentStays DEF Inbox, Later, Sent
  <2> QED
    BY <1>2, <2>1 DEF Inbox, Own, Request, M
<1> QED
  BY <1>1, <1>2

(* What can become of what a connection has still to read. *)
Delivered(l) ==
    \/ frames'[l] = frames[l] \/ frames'[l] = <<>> \/ frames'[l] = <<Confirmation>>
    \/ frames[l] # <<>> /\ frames'[l] = Tail(frames[l])
    \/ \E m \in Inbox(l)' : frames'[l] = Append(frames[l], m)

LEMMA Delivery ==
  ASSUME Domains, Inboxes, Made' = Made, \A c \in Made : Later(c),
         \A l \in Agents \cup Made : Delivered(l)
  PROVE  Inboxes'
<1> SUFFICES ASSUME NEW l \in Agents \cup Made PROVE frames'[l] \in Seq(Inbox(l)')
  BY DEF Inboxes
<1>1. frames[l] \in Seq(Inbox(l)) /\ frames[l] \in Seq(Inbox(l)')
  BY InboxGrows, SeqWiden DEF Inboxes
<1>2. <<>> \in Seq(Inbox(l)') /\ <<Confirmation>> \in Seq(Inbox(l)')
  <2>1. Confirmation \in Inbox(l)'
    BY DEF Inbox
  <2> QED
    BY <2>1
<1>3. frames[l] # <<>> => Tail(frames[l]) \in Seq(Inbox(l)')
  BY <1>1, SeqRead
<1>4. \A m \in Inbox(l)' : Append(frames[l], m) \in Seq(Inbox(l)')
  BY <1>1, AppendProperties
<1> QED
  BY <1>1, <1>2, <1>3, <1>4 DEF Delivered

LEMMA ChannelsKept ==
  ASSUME Settled, Channels, [Next]_vars
  PROVE  Channels'
<1> USE DEF Settled
<1>0. Made' = Made /\ Made \subseteq Calls /\ DOMAIN channel = Agents \cup Made
  BY StepIsLater DEF Domains
<1>1. ASSUME NEW c \in Made, CallStep(c) \/ Observe(c) \/ Fail(c) PROVE Channels'
  <2>1. \A l \in (Agents \cup Made) \ {c} : channel'[l] = channel[l]
    BY <1>1, <1>0 DEF CallStep, Handle, Check, Checked, CacheGet, IsAlive, Resolve, Examine, Examined,
         SubscribeReplies, AppendRequest, PublishRequest, TapRequest, Collect, StopWaiting, Leave,
         Put, TapSubscribe, Scan, GetEntry, DeleteEntry, Invalidated, Observe, Fail,
         Subscribe, Unsubscribe, bus_vars
  <2>2. \/ channel'[c] \in {channel[c], NoChannel, reply_channel(c)}
        \/ channel'[c] = tap_channel /\ pc[c] = "tap_subscribe"
    BY <1>1, <1>0 DEF CallStep, Handle, Check, Checked, CacheGet, IsAlive, Resolve, Examine, Examined,
         SubscribeReplies, AppendRequest, PublishRequest, TapRequest, Collect, StopWaiting, Leave,
         Put, TapSubscribe, Scan, GetEntry, DeleteEntry, Invalidated, Observe, Fail,
         Subscribe, Unsubscribe, bus_vars
  <2>3. pc[c] = "tap_subscribe" => M(c).verb = "CAST-SUB"
    BY <1>0, VerbsOfCalls DEF Routes, Route, Places, Ends, Verbs, PointToPoint
  <2>4. c \notin Agents
    BY <1>0, MessagingAssumption
  <2> QED
    BY <2>1, <2>2, <2>3, <2>4, <1>0 DEF Channels, M, agent_channel, reply_channel, tap_channel,
       NoChannel
<1>2. ASSUME NEW a \in Agents, Consume(a) \/ Live(a) PROVE Channels'
  <2>1. \A l \in (Agents \cup Made) \ {a} : channel'[l] = channel[l]
    BY <1>2, <1>0 DEF Consume, Live, Receive, AppendAnswer, PublishAnswer, TapAnswer, Register, Start,
         Stop, Deregister, Expire, Heartbeat, ReplyFails, Subscribe, Unsubscribe, bus_vars
  <2>2. channel'[a] \in {channel[a], NoChannel, agent_channel(a)}
    BY <1>2, <1>0 DEF Consume, Live, Receive, AppendAnswer, PublishAnswer, TapAnswer, Register, Start,
         Stop, Deregister, Expire, Heartbeat, ReplyFails, Subscribe, Unsubscribe, bus_vars
  <2>3. a \notin Made
    BY <1>0, MessagingAssumption
  <2> QED
    BY <2>1, <2>2, <2>3, <1>0 DEF Channels, M, agent_channel, reply_channel, tap_channel,
       NoChannel
<1>3. ASSUME ExpireKey \/ UNCHANGED vars PROVE Channels'
  BY <1>0, <1>3 DEF ExpireKey, vars, bus_vars, Channels, M, agent_channel, reply_channel,
     tap_channel, NoChannel
<1> QED
  BY <1>1, <1>2, <1>3 DEF Next

(* A message published on a channel reaches inboxes that it fits. *)
LEMMA Published ==
  ASSUME Domains, NEW ch, NEW m, Publish(ch, m),
         \A l \in Agents \cup Made : channel[l] = ch => m \in Inbox(l)'
  PROVE  \A l \in Agents \cup Made : Delivered(l)
  BY DEF Publish, Domains, Delivered

LEMMA InboxesKept ==
  ASSUME Settled, Channels, Inboxes, [Next]_vars
  PROVE  Inboxes'
<1> USE DEF Settled
<1>0. /\ Domains /\ Made' = Made /\ Made \subseteq Calls /\ Agents \cap Made = {}
      /\ DOMAIN frames = Agents \cup Made /\ \A c \in Made : Later(c)
  BY StepIsLater, MessagingAssumption DEF Domains
<1>t. ASSUME NEW m, Sent(m)', NEW l \in Agents \cup Made, channel[l] = tap_channel
      PROVE  m \in Inbox(l)'
  <2>1. l \in Made /\ M(l).verb = "CAST-SUB" /\ l \notin Agents
    BY <1>0, <1>t, ChannelsDiffer DEF Channels
  <2>2. M(l).verb \notin Gets
    BY <2>1 DEF Gets
  <2> QED
    BY <1>0, <1>t, <2>1, <2>2 DEF Inbox, Sent, M, Gets
<1>q. ASSUME NEW c \in Made, pc[c] \in {"publish", "tap"}, pc'[c] \in Late
      PROVE  Sent(Request(c))' /\ Sent(Request(c))
  BY <1>0, <1>q, RequestIsWire DEF Sent, Later, Routes, Route, M, Request, Late
<1>1. ASSUME NEW c \in Made, CallStep(c) \/ Observe(c) \/ Fail(c)
      PROVE  \A l \in Agents \cup Made : Delivered(l)
  <2>1. CASE PublishRequest(c)
    <3>1. PICK a \in ahead[c] : Publish(agent_channel(a), Request(c))
      BY <2>1 DEF PublishRequest
    <3>2. pc[c] = "publish" /\ pc'[c] = "tap"
      BY <2>1 DEF PublishRequest, Step, Goto, Made
    <3>3. a \in targets[c] /\ a \in targets'[c] /\ a \in Agents
      BY <1>0, <3>1, <3>2 DEF Routes, Route, Later, Late
    <3>4. Sent(Request(c))' /\ Request(c).id = c
      BY <1>q, <3>2, RequestIsWire, <1>0 DEF Late
    <3>5. ASSUME NEW l \in Agents \cup Made, channel[l] = agent_channel(a)
          PROVE  Request(c) \in Inbox(l)'
      <4>1. l = a /\ l \notin Made
        BY <1>0, <3>3, <3>5, ChannelsDiffer DEF Channels
      <4> QED
        BY <1>0, <3>3, <3>4, <4>1 DEF Inbox, Sent, Request, M
    <3> QED
      BY <1>0, <3>1, <3>5, Published
  <2>2. CASE TapRequest(c)
    <3>1. Sent(Request(c))'
      BY <1>q, <2>2, <1>0 DEF TapRequest, Later, Late
    <3>2. CASE Publish(tap_channel, Request(c))
      BY <1>0, <1>t, <3>1, <3>2, Published
    <3> QED
      BY <2>2, <3>2 DEF TapRequest, Tap, Delivered
  <2>3. CASE ~PublishRequest(c) /\ ~TapRequest(c)
    <3>1. \/ frames' = frames
          \/ frames' = [frames EXCEPT ![c] = <<>>]
          \/ frames' = [frames EXCEPT ![c] = <<Confirmation>>]
          \/ frames[c] # <<>> /\ frames' = [frames EXCEPT ![c] = Tail(@)]
      BY <1>1, <2>3 DEF CallStep, Handle, Check, Checked, CacheGet, IsAlive, Resolve, Examine, Examined,
         SubscribeReplies, AppendRequest, Collect, StopWaiting, Leave,
         Put, TapSubscribe, Scan, GetEntry, DeleteEntry, Invalidated, Observe, Fail,
         Subscribe, Unsubscribe, Read, bus_vars
    <3> QED
      BY <1>0, <3>1 DEF Delivered
  <2> QED
    BY <2>1, <2>2, <2>3
<1>2. ASSUME NEW a \in Agents, Consume(a) \/ Live(a)
      PROVE  \A l \in Agents \cup Made : Delivered(l)
  <2>1. CASE PublishAnswer(a)
    <3> DEFINE m == answer[a]
    <3>1. Sent(m) /\ m \in Own(m.id) /\ Publish(reply_channel(m.id), m)
      BY <2>1 DEF PublishAnswer, Sending
    <3>2. Sent(m)' /\ m \in Own(m.id)'
      <4>1. answer'[a] = answer[a]
        BY <2>1 DEF PublishAnswer
      <4> HIDE DEF m
      <4>2. \A n : Sent(n) /\ n \in Own(n.id) =>
              /\ n \in Wire /\ n.id \in Made /\ n.thread = M(n.id).thread
              /\ pc'[n.id] \in Late /\ Asked(n.id)'
              /\ n.by \in targets'[n.id]
        BY <1>0 DEF Sent, Own, Later
      <4> QED
        BY <1>0, <3>1, <4>1, <4>2 DEF Sent, Own, m, M
    <3>3. ASSUME NEW l \in Agents \cup Made, channel[l] = reply_channel(m.id)
          PROVE  m \in Inbox(l)'
      <4>1. l = m.id /\ l \in Made /\ l \notin Agents
        BY <1>0, <3>3, ChannelsDiffer DEF Channels
      <4>2. answer'[a] = answer[a]
        BY <2>1 DEF PublishAnswer
      <4> QED
        BY <1>0, <3>2, <4>1, <4>2 DEF Inbox, Sent, Own, M
    <3> QED
      BY <1>0, <3>1, <3>3, Published
  <2>2. CASE TapAnswer(a)
    <3>1. Sent(answer[a])
      BY <2>2 DEF TapAnswer, Sending
    <3>2. ASSUME NEW l \in Agents \cup Made, channel[l] = tap_channel
          PROVE  answer[a] \in Inbox(l)'
      <4>1. \A n : Sent(n) => Sent(n)'
        BY <1>0, SentStays
      <4>2. \A n : Sent(n) => n \in Inbox(l)'
        BY <4>1, <1>t, <3>2
      <4> QED
        BY <3>1, <4>2
    <3>3. CASE Publish(tap_channel, answer[a])
      BY <1>0, <3>2, <3>3, Published
    <3> QED
      BY <2>2, <3>3 DEF TapAnswer, Tap, Delivered
  <2>3. CASE ~PublishAnswer(a) /\ ~TapAnswer(a)
    <3>1. \/ frames' = frames
          \/ frames' = [frames EXCEPT ![a] = <<>>]
          \/ frames' = [frames EXCEPT ![a] = <<Confirmation>>]
          \/ frames[a] # <<>> /\ frames' = [frames EXCEPT ![a] = Tail(@)]
      BY <1>2, <2>3 DEF Consume, Live, Receive, AppendAnswer, Register, Start,
         Stop, Deregister, Expire, Heartbeat, ReplyFails, Subscribe, Unsubscribe, Read, bus_vars
    <3> QED
      BY <1>0, <3>1 DEF Delivered
  <2> QED
    BY <2>1, <2>2, <2>3
<1>3. ASSUME ExpireKey \/ UNCHANGED vars
      PROVE  \A l \in Agents \cup Made : Delivered(l)
  BY <1>3 DEF ExpireKey, vars, bus_vars, Delivered
<1> QED
  BY <1>0, <1>1, <1>2, <1>3, Delivery DEF Next

(* An agent answers what it was handed. *)
LEMMA SendingKept ==
  ASSUME Settled, Inboxes, [Next]_vars
  PROVE  Sending'
<1> USE DEF Settled
<1>0. /\ Domains /\ Made' = Made /\ Made \subseteq Calls /\ Agents \cap Made = {}
      /\ \A c \in Made : Later(c)
  BY StepIsLater, MessagingAssumption DEF Domains
<1> DEFINE Prepared(a, m) == Sent(m) /\ m.by = a /\ m \in Own(m.id)
<1>1. \A a, m : Prepared(a, m) => Prepared(a, m)'
  <2> TAKE a, m
  <2>1. Sent(m) => Sent(m)'
    BY <1>0, SentStays
  <2> QED
    BY <1>0, <2>1 DEF Own, Sent, Later
<1>2. ASSUME NEW a \in Agents, doing'[a] \in {"append", "publish", "tap"},
             doing[a] \in {"append", "publish", "tap"}, answer'[a] = answer[a]
      PROVE  Sent(answer[a])' /\ answer'[a].by = a /\ (answer[a] \in Own(answer[a].id))'
  <2>1. Prepared(a, answer[a])
    BY <1>2 DEF Sending
  <2>2. ASSUME NEW m, m = answer[a], Prepared(a, m)
        PROVE  Sent(answer[a])' /\ answer'[a].by = a /\ (answer[a] \in Own(answer[a].id))'
    <3>1. Prepared(a, m)' /\ m = answer'[a]
      BY <1>1, <1>2, <2>2
    <3> QED
      BY <3>1 DEF Sent, Own, Asked, Request, M
  <2> QED
    BY <2>1, <2>2
<1>3. ASSUME NEW a \in Agents, Receive(a), doing'[a] \in {"append", "publish", "tap"}
      PROVE  Sent(answer[a])' /\ answer'[a].by = a /\ (answer[a] \in Own(answer[a].id))'
  <2>1. PICK m \in Range(frames[a]) :
          /\ Read(a, m) /\ m # Confirmation
          /\ \E r \in Answers(a, m) : answer' = [answer EXCEPT ![a] = r]
    BY <1>3 DEF Receive
  <2>2. m = Head(frames[a]) /\ frames[a] # <<>>
    BY <2>1 DEF Read
  <2>3. m \in Inbox(a)
    BY <2>2, SeqRead DEF Inboxes
  <2>4. Sent(m) /\ a \in targets[m.id]
    BY <2>1, <2>3 DEF Inbox
  <2>5. PICK r \in Answers(a, m) : answer' = [answer EXCEPT ![a] = r]
    BY <2>1
  <2>6. r \in Wire /\ r.id = m.id /\ r.by = a /\ r.thread = m.thread
    BY <2>4 DEF Answers, Wire, Sent
  <2>7. Prepared(a, r)'
    <3>1. Prepared(a, r)
      BY <2>4, <2>6 DEF Sent, Own
    <3> QED
      BY <3>1, <1>1
  <2>8. answer'[a] = r
    BY <2>5 DEF Domains
  <2> QED
    BY <2>7, <2>8 DEF Sent, Own, Asked, Request, M
<1>4. ASSUME NEW a \in Agents, doing'[a] \in {"append", "publish", "tap"}
      PROVE  \/ doing[a] \in {"append", "publish", "tap"} /\ answer'[a] = answer[a]
             \/ Receive(a)
  <2>1. ASSUME NEW b \in Agents, Consume(b) \/ Live(b)
        PROVE  \/ doing[a] \in {"append", "publish", "tap"} /\ answer'[a] = answer[a]
               \/ Receive(a)
    <3>1. CASE b # a
      BY <1>4, <2>1, <3>1 DEF Domains, Consume, Live, Receive, AppendAnswer, PublishAnswer, TapAnswer,
         Register, Start, Stop, Deregister, Expire, Heartbeat, ReplyFails, Become, agent_vars
    <3>2. CASE b = a
      BY <1>4, <2>1, <3>2 DEF Domains, Consume, Live, Receive, AppendAnswer, PublishAnswer, TapAnswer,
         Register, Start, Stop, Deregister, Expire, Heartbeat, ReplyFails, Become, agent_vars
    <3> QED
      BY <3>1, <3>2
  <2>2. ASSUME UNCHANGED agent_vars
        PROVE  doing[a] \in {"append", "publish", "tap"} /\ answer'[a] = answer[a]
    BY <1>4, <2>2 DEF agent_vars
  <2> QED
    BY <2>1, <2>2 DEF Next, vars
<1> QED
  BY <1>2, <1>3, <1>4 DEF Sending

-----------------------------------------------------------------------------
MessagesInv == Settled /\ Channels /\ Inboxes

LEMMA MessagesInit == Init => MessagesInv
<1> SUFFICES ASSUME Init PROVE MessagesInv
  OBVIOUS
<1>1. PICK w \in Workloads : InitOf(w)
  BY DEF Init
<1>2. w \subseteq Calls /\ w \cap Agents = {} /\ Made = w
  BY <1>1, MessagingAssumption DEF InitOf, Made
<1>3. Domains
  BY <1>1, <1>2 DEF Init, InitOf, Domains
<1>4. Routes
  <2> SUFFICES ASSUME NEW c \in Made PROVE Route(c)
    BY DEF Routes
  <2>1. pc[c] = "new" /\ targets[c] = {}
    BY <1>1, <1>2 DEF InitOf
  <2>2. "new" \in Places(M(c).verb)
    BY <1>2, VerbsOfCalls DEF Places, Ends, Verbs, PointToPoint
  <2> QED
    BY <2>1, <2>2 DEF Route
<1>5. Sending /\ Channels /\ Inboxes
  BY <1>1, <1>2 DEF Init, InitOf, Sending, Channels, Inboxes
<1> QED
  BY <1>3, <1>4, <1>5 DEF MessagesInv, Settled

LEMMA MessagesKept ==
  ASSUME MessagesInv, [Next]_vars
  PROVE  MessagesInv' /\ Made' = Made /\ \A c \in Made : Later(c)
  BY StepIsLater, ChannelsKept, InboxesKept, SendingKept DEF MessagesInv, Settled

(* Whatever agent an inbox belongs to, what comes into it was sent to that *)
(* agent by a call that found it compatible and in scope.                  *)
THEOREM MessagesStayWithinPolicy == Spec => []DeliveredWithinPolicy
<1>1. Init => MessagesInv
  BY MessagesInit
<1>2. MessagesInv /\ [Next]_vars => MessagesInv'
  BY MessagesKept
<1>3. MessagesInv => DeliveredWithinPolicy
  <2> SUFFICES ASSUME MessagesInv, NEW a \in Agents, NEW i \in DOMAIN frames[a],
                      frames[a][i] # Confirmation
               PROVE  Cleared(frames[a][i].id, a)
    BY DEF DeliveredWithinPolicy, Cleared
  <2>1. frames[a][i] \in Inbox(a)
    BY DEF MessagesInv, Inboxes
  <2>2. frames[a][i].id \in Made /\ a \in targets[frames[a][i].id]
    BY <2>1 DEF Inbox, Sent
  <2> QED
    BY <2>2 DEF MessagesInv, Settled, Routes, Route
<1> QED
  BY <1>1, <1>2, <1>3, PTL DEF Spec

(* An answer is written down by an agent that was handed the question, and *)
(* the question is in the thread before it is handed to anyone.            *)
THEOREM QuestionsComeFirst == Spec => []AnswersFollowQuestions
<1>1. Init => MessagesInv /\ AnswersFollowQuestions
  <2> SUFFICES ASSUME Init PROVE AnswersFollowQuestions
    BY MessagesInit
  <2> QED
    BY DEF Init, AnswersFollowQuestions
<1>2. MessagesInv /\ AnswersFollowQuestions /\ [Next]_vars => AnswersFollowQuestions'
  <2> SUFFICES ASSUME MessagesInv, AnswersFollowQuestions, [Next]_vars
               PROVE  AnswersFollowQuestions'
    OBVIOUS
  <2>1. CASE UNCHANGED stream
    BY <2>1 DEF AnswersFollowQuestions, Request, M
  <2>2. ASSUME NEW m \in Wire, append_thread(m),
               m.by # "caller" => m.id \in Calls /\ m.thread = M(m.id).thread /\ Asked(m.id)
        PROVE  AnswersFollowQuestions'
    <3> SUFFICES ASSUME NEW t \in Threads, NEW i \in DOMAIN stream'[t],
                        stream'[t][i].by # "caller"
                 PROVE  \E j \in 1..(i - 1) : stream'[t][j] = Request(stream'[t][i].id)
      BY DEF AnswersFollowQuestions, Request, M
    <3>1. stream[t] \in Seq(Wire) /\ DOMAIN stream = Threads
      BY DEF MessagesInv, Settled, Domains
    <3>2. CASE t # m.thread
      <4>1. stream'[t] = stream[t]
        BY <2>2, <3>1, <3>2 DEF append_thread
      <4> QED
        BY <4>1 DEF AnswersFollowQuestions
    <3>3. CASE t = m.thread
      <4>1. stream'[t] = Append(stream[t], m)
        BY <2>2, <3>1, <3>3 DEF append_thread
      <4>2. /\ DOMAIN stream'[t] = 1..(Len(stream[t]) + 1) /\ Len(stream[t]) \in Nat
            /\ DOMAIN stream[t] = 1..Len(stream[t])
            /\ stream'[t][Len(stream[t]) + 1] = m
            /\ \A j \in 1..Len(stream[t]) : stream'[t][j] = stream[t][j]
        BY <3>1, <4>1, AppendProperties
      <4>3. CASE i = Len(stream[t]) + 1
        <5>1. PICK j \in 1..Len(stream[t]) : stream[t][j] = Request(m.id)
          BY <2>2, <3>3, <4>2, <4>3 DEF Asked
        <5>2. j \in 1..(i - 1) /\ stream'[t][j] = Request(m.id)
          BY <4>2, <4>3, <5>1
        <5> QED
          BY <5>2, <4>2, <4>3
      <4>4. CASE i # Len(stream[t]) + 1
        <5>1. i \in DOMAIN stream[t] /\ stream'[t][i] = stream[t][i]
          BY <4>2, <4>4
        <5>2. PICK j \in 1..(i - 1) : stream[t][j] = Request(stream[t][i].id)
          BY <5>1 DEF AnswersFollowQuestions
        <5>3. j \in 1..Len(stream[t])
          BY <5>1, <4>2
        <5> QED
          BY <5>1, <5>2, <5>3, <4>2
      <4> QED
        BY <4>3, <4>4
    <3> QED
      BY <3>2, <3>3
  <2>3. ASSUME NEW c \in Made, AppendRequest(c) PROVE AnswersFollowQuestions'
    <3>1. c \in Calls
      BY DEF MessagesInv, Settled, Domains
    <3>2. Request(c) \in Wire /\ Request(c).by = "caller" /\ append_thread(Request(c))
      BY <2>3, <3>1, RequestIsWire DEF AppendRequest
    <3>3. \A m : m = Request(c) => m \in Wire /\ m.by = "caller" /\ append_thread(m)
      BY <3>2
    <3> QED
      BY <3>3, <2>2
  <2>4. ASSUME NEW a \in Agents, AppendAnswer(a) PROVE AnswersFollowQuestions'
    <3>1. Sent(answer[a]) /\ append_thread(answer[a])
      BY <2>4 DEF AppendAnswer, MessagesInv, Settled, Sending
    <3>2. Made \subseteq Calls
      BY DEF MessagesInv, Settled, Domains
    <3>3. \A m : m = answer[a] =>
            /\ m \in Wire /\ append_thread(m)
            /\ m.id \in Calls /\ m.thread = M(m.id).thread /\ Asked(m.id)
      BY <3>1, <3>2 DEF Sent
    <3> QED
      BY <3>3, <2>2
  <2>5. ASSUME NEW c \in Made, Quiet(c) PROVE UNCHANGED stream
    BY <2>5 DEF bus_vars, Quiet, Handle, Check, Checked, CacheGet, IsAlive, Resolve, Examine, Examined,
         SubscribeReplies, PublishRequest, TapRequest, Collect, StopWaiting, Leave, Put,
         TapSubscribe, Scan, GetEntry, DeleteEntry, Invalidated, Observe, Fail, Subscribe
  <2>6. ASSUME NEW a \in Agents, Consume(a) \/ Live(a), ~AppendAnswer(a) PROVE UNCHANGED stream
    BY <2>6 DEF bus_vars, Consume, Live, Receive, PublishAnswer, TapAnswer, Register, Start, Stop,
         Deregister, Expire, Heartbeat, ReplyFails, Subscribe
  <2>7. ASSUME ExpireKey \/ UNCHANGED vars PROVE UNCHANGED stream
    BY <2>7 DEF ExpireKey, vars, bus_vars
  <2> QED
    BY <2>1, <2>3, <2>4, <2>5, <2>6, <2>7 DEF Next, CallStep, Quiet
<1>3. MessagesInv /\ [Next]_vars => MessagesInv'
  BY MessagesKept
<1> QED
  BY <1>1, <1>2, <1>3, PTL DEF Spec

-----------------------------------------------------------------------------
(* What a call has collected: answers of its own targets, or one that was  *)
(* cached for the same question.                                           *)
Collected(c) ==
    /\ got[c] \in Seq(Own(c)) /\ Len(got[c]) <= Limit(c)
    /\ pc[c] \in Unasked \cup {"publish", "tap"} => got[c] = <<>>
    /\ pc[c] = "put" => got[c] # <<>>

SameQuestion(c, m) == cache_key(M(m.id)) = cache_key(M(c))
FromCache(c) ==
    /\ pc[c] = "returned" /\ M(c).verb = "SEND-GET" /\ targets[c] = {}
    /\ \E m : got[c] = <<m>> /\ SameQuestion(c, m)

Results == \A c \in Made : M(c).verb \in Gets => Collected(c) \/ FromCache(c)

(* What is cached was put there by a call that has returned since. *)
Entries ==
    \A k \in DOMAIN cache :
      /\ cache[k].id \in Made /\ pc[cache[k].id] = "returned"
      /\ k = cache_key(M(cache[k].id))

LEMMA LimitIsNat ==
  ASSUME NEW c \in Calls, targets[c] \subseteq Agents
  PROVE  Limit(c) \in Nat
<1>1. IsFiniteSet(targets[c])
  BY MessagingAssumption, FS_Subset
<1>2. Cardinality(targets[c]) \in Nat /\ MaxAnswers[c] \in Nat
  BY <1>1, FS_CardinalityType, MessagingAssumption
<1> QED
  BY <1>2 DEF Limit

(* Most steps leave what a call has collected alone. *)
LEMMA ResultKept ==
  ASSUME NEW c \in Made, Collected(c) \/ FromCache(c), got'[c] = got[c],
         targets'[c] = targets[c], pc[c] = "returned" => pc'[c] = "returned",
         pc'[c] \in Unasked \cup {"publish", "tap"} => pc[c] \in Unasked \cup {"publish", "tap"},
         pc'[c] = "put" => got[c] # <<>>
  PROVE  (Collected(c) \/ FromCache(c))'
  BY DEF Collected, FromCache, Own, Limit, SameQuestion, M

LEMMA ResultsKept ==
  ASSUME MessagesInv, Results, Entries, [Next]_vars
  PROVE  Results'
<1>0. /\ MessagesInv' /\ Made' = Made /\ \A c \in Made : Later(c)
      /\ Domains /\ Routes /\ Routes' /\ Inboxes /\ Made \subseteq Calls
  BY MessagesKept DEF MessagesInv, Settled, Domains
<1>n. \A d \in Made : Limit(d) \in Nat /\ Limit(d)' \in Nat
  <2> TAKE d \in Made
  <2>1. targets[d] \subseteq Agents /\ targets'[d] \subseteq Agents /\ d \in Calls
    BY <1>0 DEF Routes, Route
  <2>2. IsFiniteSet(targets'[d])
    BY <2>1, MessagingAssumption, FS_Subset
  <2>3. Cardinality(targets'[d]) \in Nat /\ MaxAnswers[d] \in Nat
    BY <2>1, <2>2, FS_CardinalityType, MessagingAssumption
  <2> QED
    BY <2>1, <2>3, LimitIsNat DEF Limit
<1>1. ASSUME NEW c \in Made, Quiet(c) \/ AppendRequest(c), M(c).verb \in Gets
      PROVE  (Collected(c) \/ FromCache(c))'
  <2> USE DEF bus_vars, registry_vars, call_vars, to_vars, cache_vars, Step, Goto, Finish
  <2>d. /\ DOMAIN pc = Made /\ DOMAIN got = Made /\ DOMAIN targets = Made /\ c \in Agents \cup Made
    BY <1>0 DEF Domains, Made
  <2>r. pc[c] \in Places(M(c).verb) /\ (Collected(c) \/ FromCache(c))
    BY <1>0, <1>1 DEF Routes, Route, Results
  <2>v. M(c).verb \in {"SEND-GET", "CAST-GET"}
    BY <1>1 DEF Gets
  <2>1. CASE IsAlive(c) \/ Examine(c)
    <3>1. got'[c] = got[c] /\ pc[c] \in {"alive", "examine"} /\ pc'[c] # "put"
      BY <2>1, <2>d DEF IsAlive, Examine, Dispatch
    <3>2. got'[c] = <<>>
      BY <3>1, <2>r DEF Collected, FromCache, Unasked, Unresolved
    <3> QED
      BY <1>n, <3>1, <3>2 DEF Collected
  <2>2. CASE CacheGet(c)
    <3>1. CASE Cached(M(c))
      <4>1. /\ pc[c] = "cached" /\ pc'[c] = "returned" /\ targets'[c] = targets[c]
            /\ got'[c] = <<cache[cache_key(M(c))]>>
        BY <2>2, <2>d, <3>1 DEF CacheGet
      <4>2. cache_key(M(c)) \in DOMAIN cache
        BY <3>1 DEF Cached
      <4>3. M(c).verb = "SEND-GET" /\ targets[c] = {}
        BY <4>1, <2>r, <2>v, <1>0 DEF Places, Ends, Routes, Route, Unresolved
      <4>4. SameQuestion(c, cache[cache_key(M(c))])
        BY <4>2 DEF Entries, SameQuestion
      <4> QED
        BY <4>1, <4>3, <4>4 DEF FromCache, SameQuestion, M
    <3>2. CASE ~Cached(M(c))
      BY <2>2, <2>d, <2>r, <3>2, ResultKept DEF CacheGet, Checked, Unasked, Unresolved
    <3> QED
      BY <3>1, <3>2
  <2>3. CASE Collect(c)
    <3>1. PICK m \in Range(frames[c]) :
            /\ Read(c, m)
            /\ IF m = Confirmation
               THEN Step(c, "leave") /\ UNCHANGED got
               ELSE got' = [got EXCEPT ![c] = Append(@, m)] /\ UNCHANGED <<pc, audit>>
      BY <2>3 DEF Collect
    <3>2. CASE m = Confirmation
      <4>1. pc[c] = "wait" /\ pc'[c] = "leave" /\ got'[c] = got[c] /\ targets'[c] = targets[c]
        BY <2>3, <2>d, <3>1, <3>2 DEF Collect
      <4> QED
        BY <4>1, <2>r, ResultKept DEF Unasked, Unresolved
    <3>3. CASE m # Confirmation
      <4>1. /\ pc[c] = "wait" /\ pc'[c] = "wait" /\ Len(got[c]) < Limit(c)
            /\ got'[c] = Append(got[c], m) /\ targets'[c] = targets[c]
        BY <2>3, <2>d, <3>1, <3>3 DEF Collect
      <4>2. m = Head(frames[c]) /\ frames[c] # <<>>
        BY <3>1 DEF Read
      <4>3. m \in Inbox(c)
        BY <2>d, <4>2, <1>0, SeqRead DEF Inboxes
      <4>4. m \in Own(c)
        BY <1>1, <3>3, <4>3 DEF Inbox
      <4>5. got[c] \in Seq(Own(c))
        BY <2>r, <4>1 DEF Collected, FromCache
      <4>6. /\ got'[c] \in Seq(Own(c)) /\ Len(got'[c]) = Len(got[c]) + 1
            /\ Len(got[c]) \in Nat
        BY <4>1, <4>4, <4>5, AppendProperties
      <4>7. Limit(c)' = Limit(c) /\ Own(c)' = Own(c)
        BY <4>1 DEF Limit, Own, M
      <4>8. Len(got'[c]) <= Limit(c)'
        BY <1>n, <4>1, <4>6, <4>7
      <4> QED
        BY <4>1, <4>6, <4>7, <4>8 DEF Collected, Unasked, Unresolved
    <3> QED
      BY <3>2, <3>3
  <2>4. CASE Observe(c) \/ TapSubscribe(c)
    <3>1. M(c).verb = "CAST-SUB"
      BY <2>4, <2>r, <2>v DEF Observe, TapSubscribe, Places, Ends
    <3> QED
      BY <3>1, <2>v
  <2>5. CASE /\ ~IsAlive(c) /\ ~Examine(c) /\ ~CacheGet(c) /\ ~Collect(c)
             /\ ~Observe(c) /\ ~TapSubscribe(c)
    <3>1. /\ got'[c] = got[c] /\ targets'[c] = targets[c]
      BY <1>1, <2>5, <2>d DEF Quiet, Handle, Check, Resolve, Examined,
         SubscribeReplies, AppendRequest, PublishRequest, TapRequest, StopWaiting, Leave,
         Put, Scan, GetEntry, DeleteEntry, Invalidated, Fail
    <3>2. pc[c] = "returned" => pc'[c] = "returned"
      BY <1>0 DEF Later
    <3>3. pc'[c] \in Unasked \cup {"publish", "tap"} => pc[c] \in Unasked \cup {"publish", "tap"}
      BY <1>1, <2>5, <2>d, <2>r, <2>v DEF Quiet, Handle, Check, Checked, Resolve, Examined,
         SubscribeReplies, AppendRequest, PublishRequest, TapRequest, StopWaiting, Leave,
         Put, Scan, GetEntry, DeleteEntry, Invalidated, Fail, Dispatch, Unasked, Unresolved,
         Places, Ends
    <3>4. pc'[c] = "put" => got[c] # <<>>
      BY <1>1, <2>5, <2>d, <2>r, <2>v DEF Quiet, Handle, Check, Checked, Resolve, Examined,
         SubscribeReplies, AppendRequest, PublishRequest, TapRequest, StopWaiting, Leave,
         Put, Scan, GetEntry, DeleteEntry, Invalidated, Fail, Dispatch, EntryOf, Collected,
         FromCache
    <3> QED
      BY <2>r, <3>1, <3>2, <3>3, <3>4, ResultKept
  <2> QED
    BY <2>1, <2>2, <2>3, <2>4, <2>5
<1>2. ASSUME NEW c \in Made, Quiet(c) \/ AppendRequest(c), NEW d \in Made, d # c, M(d).verb \in Gets
      PROVE  (Collected(d) \/ FromCache(d))'
  BY <1>0, <1>2, OneCall, ResultKept DEF Results, Collected, FromCache
<1>3. ASSUME UNCHANGED <<pc, targets, got>>, NEW d \in Made, M(d).verb \in Gets
      PROVE  (Collected(d) \/ FromCache(d))'
  BY <1>3, ResultKept DEF Results, Collected, FromCache
<1>4. ASSUME NEW a \in Agents, Consume(a) \/ Live(a) PROVE UNCHANGED <<pc, targets, got>>
  BY <1>4 DEF call_vars, to_vars, Consume, Live, Receive, AppendAnswer, PublishAnswer, TapAnswer,
     Register, Start, Stop, Deregister, Expire, Heartbeat, ReplyFails, EngineIdle
<1>5. ASSUME \/ ExpireKey /\ UNCHANGED <<pc, to_vars, got>>
             \/ UNCHANGED vars
      PROVE  UNCHANGED <<pc, targets, got>>
  BY <1>5 DEF vars, call_vars, to_vars
<1>6. \A c : M(c)' = M(c)
  BY DEF M
<1>7. \/ \E c \in Made : Quiet(c) \/ AppendRequest(c)
      \/ UNCHANGED <<pc, targets, got>>
  BY <1>4, <1>5 DEF Next, CallStep, Quiet
<1>8. \A d \in Made : M(d).verb \in Gets => (Collected(d) \/ FromCache(d))'
  <2>1. ASSUME NEW c \in Made, Quiet(c) \/ AppendRequest(c)
        PROVE  \A d \in Made : M(d).verb \in Gets => (Collected(d) \/ FromCache(d))'
    BY <1>1, <1>2, <2>1
  <2> QED
    BY <1>3, <1>7, <2>1
<1> QED
  BY <1>0, <1>6, <1>8 DEF Results

(* What a step can do to the cache. *)
Stored(c) ==
    /\ pc[c] = "put" /\ pc'[c] = "returned"
    /\ CachePut(M(c), Head(got[c]))
Dropped == DOMAIN cache' \subseteq DOMAIN cache /\ \A k \in DOMAIN cache' : cache'[k] = cache[k]

LEMMA CacheMoves ==
  ASSUME Domains, [Next]_vars
  PROVE  Dropped \/ \E c \in Made : Stored(c)
<1> USE DEF bus_vars, registry_vars, call_vars, to_vars, cache_vars
<1>1. ASSUME NEW c \in Made, CallStep(c) \/ Observe(c) \/ Fail(c) PROVE Dropped \/ Stored(c)
  <2>1. CASE Put(c)
    BY <2>1 DEF Put, Stored, Finish, Goto, Made
  <2>2. CASE DeleteEntry(c)
    BY <2>2 DEF DeleteEntry, Dropped
  <2>3. CASE ~Put(c) /\ ~DeleteEntry(c)
    <3>1. UNCHANGED cache
      BY <1>1, <2>3 DEF CallStep, Handle, Check, CacheGet, IsAlive, Resolve, Examine, Examined,
         SubscribeReplies, AppendRequest, PublishRequest, TapRequest, Collect, StopWaiting, Leave,
         TapSubscribe, Scan, GetEntry, Invalidated, Observe, Fail
    <3> QED
      BY <3>1 DEF Dropped
  <2> QED
    BY <2>1, <2>2, <2>3
<1>2. ASSUME NEW a \in Agents, Consume(a) \/ Live(a) PROVE Dropped
  BY <1>2 DEF Dropped, Consume, Live, Receive, AppendAnswer, PublishAnswer, TapAnswer,
     Register, Start, Stop, Deregister, Expire, Heartbeat, ReplyFails, EngineIdle
<1>3. ASSUME ExpireKey \/ UNCHANGED vars PROVE Dropped
  BY <1>3 DEF Dropped, ExpireKey, Without, vars
<1> QED
  BY <1>1, <1>2, <1>3 DEF Next

(* The entry a call stores answers that call. *)
LEMMA StoredIsOwn ==
  ASSUME MessagesInv, Results, NEW c \in Made, Stored(c)
  PROVE  /\ Head(got[c]).id = c
         /\ \A k \in DOMAIN cache' :
              \/ k = cache_key(M(c)) /\ cache'[k].id = c
              \/ k \in DOMAIN cache /\ cache'[k] = cache[k]
<1>1. c \in Calls /\ pc[c] \in Places(M(c).verb)
  BY DEF MessagesInv, Settled, Domains, Routes, Route
<1>2. M(c).verb \in Gets
  BY <1>1, VerbsOfCalls DEF Stored, Places, Ends, Verbs, PointToPoint, Gets
<1>3. got[c] \in Seq(Own(c)) /\ got[c] # <<>>
  BY <1>2 DEF Results, Collected, FromCache, Stored
<1>4. Head(got[c]) \in Own(c)
  BY <1>3, SeqRead
<1> QED
  BY <1>4 DEF Own, Stored, CachePut

LEMMA EntriesKept ==
  ASSUME MessagesInv, Results, Entries, [Next]_vars
  PROVE  Entries'
<1>0. Made' = Made /\ (\A c \in Made : Later(c)) /\ Domains
  BY MessagesKept DEF MessagesInv, Settled
<1>1. CASE Dropped
  BY <1>0, <1>1 DEF Dropped, Entries, Later, M, cache_key
<1>2. ASSUME NEW c \in Made, Stored(c) PROVE Entries'
  <2> SUFFICES ASSUME NEW k \in DOMAIN cache'
               PROVE  /\ cache'[k].id \in Made /\ pc'[cache'[k].id] = "returned"
                      /\ k = cache_key(M(cache'[k].id))
    BY <1>0 DEF Entries, M, cache_key
  <2>1. CASE k = cache_key(M(c)) /\ cache'[k].id = c
    BY <1>2, <2>1 DEF Stored
  <2>2. CASE k \in DOMAIN cache /\ cache'[k] = cache[k]
    BY <1>0, <2>2 DEF Entries, Later
  <2> QED
    BY <1>2, <2>1, <2>2, StoredIsOwn
<1> QED
  BY <1>0, <1>1, <1>2, CacheMoves

ResultsInv == MessagesInv /\ Results /\ Entries

LEMMA ResultsInit == Init => ResultsInv
<1> SUFFICES ASSUME Init PROVE Results /\ Entries
  BY MessagesInit DEF ResultsInv
<1>1. MessagesInv
  BY MessagesInit
<1>2. PICK w \in Workloads : InitOf(w)
  BY DEF Init
<1>3. Entries
  BY DEF Init, Entries
<1>4. ASSUME NEW c \in Made PROVE Collected(c)
  <2>1. got[c] = <<>> /\ pc[c] = "new" /\ c \in Calls /\ targets[c] = {}
    BY <1>1, <1>2 DEF InitOf, Made, MessagesInv, Settled, Domains
  <2>2. Limit(c) \in Nat
    BY <2>1, LimitIsNat
  <2> QED
    BY <2>1, <2>2 DEF Collected
<1> QED
  BY <1>3, <1>4 DEF Results

LEMMA ResultsInvKept == ResultsInv /\ [Next]_vars => ResultsInv'
  BY MessagesKept, ResultsKept, EntriesKept DEF ResultsInv

(* A call returns replies to its own message, of agents it was sent to and *)
(* no more of them than it asked for, or a cached reply to the same        *)
(* question: whatever was late, lost or published beside it.               *)
THEOREM ReturnsFitTheirCalls == Spec => []AnswersFitTheQuestion
<1>1. ResultsInv => AnswersFitTheQuestion
  <2> SUFFICES ASSUME ResultsInv, NEW c \in Made, M(c).verb \in Gets
               PROVE  /\ Len(got[c]) <= IF targets[c] = {} THEN 1 ELSE Limit(c)
                      /\ \A i \in DOMAIN got[c] :
                           \/ got[c][i].id = c /\ got[c][i].by \in targets[c]
                           \/ /\ M(c).verb = "SEND-GET"
                              /\ M(got[c][i].id).target = M(c).target
                              /\ M(got[c][i].id).code = M(c).code
                              /\ M(got[c][i].id).body = M(c).body
    BY DEF AnswersFitTheQuestion
  <2>1. CASE Collected(c)
    <3>1. \A i \in DOMAIN got[c] : got[c][i] \in Own(c)
      BY <2>1 DEF Collected
    <3>2. targets[c] = {} => Len(got[c]) <= 1
      <4>1. targets[c] = {} => Own(c) = {}
        BY DEF Own
      <4>2. got[c] \in Seq(Own(c)) /\ Len(got[c]) \in Nat /\ DOMAIN got[c] = 1..Len(got[c])
        BY <2>1 DEF Collected
      <4> QED
        BY <3>1, <4>1, <4>2
    <3> QED
      BY <2>1, <3>1, <3>2 DEF Collected, Own
  <2>2. CASE FromCache(c)
    BY <2>2 DEF FromCache, SameQuestion, cache_key
  <2> QED
    BY <2>1, <2>2 DEF ResultsInv, Results
<1> QED
  BY <1>1, ResultsInit, ResultsInvKept, PTL DEF Spec

-----------------------------------------------------------------------------
(* What an INVALIDATE found is to be looked at, about to be deleted, or    *)
(* gone: its call has returned, so it is not put again.                    *)
Present(e) == e[1] \in DOMAIN cache /\ cache[e[1]] = e[2]
Purged(c) ==
    /\ \A e \in before[c] : e[2].id \in Made /\ pc[e[2].id] = "returned"
    /\ pc[c] = "returned" => scan[c] = {}
    /\ pc[c] \in {"get", "delete", "returned"} =>
         \A e \in before[c] : Stale(c, e[1]) =>
           \/ e[1] \in scan[c] \/ ~Present(e)
           \/ pc[c] = "delete" /\ e[1] \in doomed[c]

Invalidations == \A c \in Made : M(c).verb = "INVALIDATE" => Purged(c)

LEMMA InvalidationsKept ==
  ASSUME ResultsInv, Invalidations, [Next]_vars
  PROVE  Invalidations'
<1>0. /\ Made' = Made /\ (\A c \in Made : Later(c)) /\ Domains /\ Routes
      /\ MessagesInv /\ Results /\ Entries /\ Made \subseteq Calls
  BY MessagesKept DEF ResultsInv, MessagesInv, Settled, Domains
(* No step brings an entry back. *)
<1>1. ASSUME NEW e, e[2].id \in Made, pc[e[2].id] = "returned", ~Present(e)
      PROVE  ~Present(e)'
  <2>1. CASE Dropped
    BY <1>1, <2>1 DEF Dropped, Present
  <2>2. ASSUME NEW d \in Made, Stored(d) PROVE ~Present(e)'
    <3>1. e[2].id # d
      BY <1>1, <2>2 DEF Stored
    <3> QED
      BY <1>0, <1>1, <2>2, <3>1, StoredIsOwn DEF Present
  <2> QED
    BY <1>0, <2>1, <2>2, CacheMoves
<1>2. ASSUME NEW c \in Made, Purged(c), pc'[c] = pc[c], before'[c] = before[c],
             scan'[c] = scan[c], doomed'[c] = doomed[c]
      PROVE  Purged(c)'
  <2>1. \A e \in before[c] : e[2].id \in Made' /\ pc'[e[2].id] = "returned"
    BY <1>0, <1>2 DEF Purged, Later
  <2>2. \A e \in before[c] : ~Present(e) => ~Present(e)'
    BY <1>1, <1>2 DEF Purged
  <2> QED
    BY <1>2, <2>1, <2>2 DEF Purged, Stale, M
<1>3. ASSUME NEW c \in Made, Quiet(c) \/ AppendRequest(c), M(c).verb = "INVALIDATE", Purged(c)
      PROVE  Purged(c)'
  <2> USE DEF bus_vars, registry_vars, call_vars, to_vars, cache_vars, Step, Goto, Finish
  <2>d. /\ DOMAIN pc = Made /\ DOMAIN scan = Made /\ DOMAIN before = Made /\ DOMAIN doomed = Made
    BY <1>0 DEF Domains, Made
  <2>p. pc[c] \in Ends \cup {"scan", "get", "delete"}
    BY <1>0, <1>3 DEF Routes, Route, Places
  <2>e. \A e \in before[c] : e[2].id \in Made' /\ pc'[e[2].id] = "returned"
    BY <1>0, <1>3 DEF Purged, Later
  <2>g. \A e \in before[c] : ~Present(e) => ~Present(e)'
    BY <1>1, <1>3 DEF Purged
  <2>1. CASE Scan(c)
    <3>1. CASE IsPattern(M(c).target)
      <4>1. /\ pc'[c] = "get" /\ scan'[c] = DOMAIN cache /\ cache' = cache
            /\ before'[c] = {<<k, cache[k]>> : k \in DOMAIN cache}
        BY <2>1, <2>d, <3>1 DEF Scan
      <4>2. \A e \in before'[c] : e[1] \in DOMAIN cache /\ e[2] = cache[e[1]]
        BY <4>1
      <4>3. \A e \in before'[c] : e[2].id \in Made' /\ pc'[e[2].id] = "returned"
        BY <1>0, <4>2 DEF Entries, Later
      <4> QED
        BY <4>1, <4>2, <4>3 DEF Purged
    <3>2. CASE ~IsPattern(M(c).target)
      <4>1. pc'[c] = "raised" /\ before'[c] = before[c]
        BY <2>1, <2>d, <3>2 DEF Scan
      <4> QED
        BY <2>e, <4>1 DEF Purged
    <3> QED
      BY <3>1, <3>2
  <2>2. CASE GetEntry(c)
    <3>1. PICK k \in scan[c] :
            /\ scan' = [scan EXCEPT ![c] = @ \ {k}]
            /\ IF k \in DOMAIN cache /\ Stale(c, k)
               THEN Step(c, "delete") /\ doomed' = [doomed EXCEPT ![c] = {k}]
               ELSE UNCHANGED <<pc, audit, doomed>>
      BY <2>2 DEF GetEntry
    <3>2. /\ pc[c] = "get" /\ before'[c] = before[c] /\ scan'[c] = scan[c] \ {k} /\ cache' = cache
          /\ \/ pc'[c] = "delete" /\ doomed'[c] = {k}
             \/ pc'[c] = "get" /\ (k \notin DOMAIN cache \/ ~Stale(c, k))
      BY <2>2, <2>d, <3>1 DEF GetEntry
    <3>3. ASSUME NEW e \in before[c], Stale(c, e[1])
          PROVE  \/ e[1] \in scan'[c] \/ ~Present(e)'
                 \/ pc'[c] = "delete" /\ e[1] \in doomed'[c]
      BY <1>3, <3>2, <3>3 DEF Purged, Present
    <3> QED
      BY <2>e, <3>2, <3>3 DEF Purged, Stale, M
  <2>3. CASE DeleteEntry(c)
    <3>1. /\ pc[c] = "delete" /\ pc'[c] = "get" /\ before'[c] = before[c] /\ scan'[c] = scan[c]
          /\ cache' = [k \in DOMAIN cache \ doomed[c] |-> cache[k]]
      BY <2>3, <2>d DEF DeleteEntry
    <3>2. ASSUME NEW e \in before[c], Stale(c, e[1])
          PROVE  e[1] \in scan'[c] \/ ~Present(e)'
      BY <1>3, <2>g, <3>1, <3>2 DEF Purged, Present
    <3> QED
      BY <2>e, <3>1, <3>2 DEF Purged, Stale, M
  <2>4. CASE Invalidated(c)
    <3>1. /\ pc[c] = "get" /\ scan[c] = {} /\ pc'[c] = "returned" /\ before'[c] = before[c]
          /\ scan'[c] = scan[c]
      BY <2>4, <2>d DEF Invalidated
    <3> QED
      BY <1>3, <2>e, <2>g, <3>1 DEF Purged, Stale, M
  <2>5. CASE Fail(c) \/ Handle(c)
    <3>1. before'[c] = before[c] /\ pc'[c] \in {"raised", "scan"}
      BY <1>3, <2>5, <2>d DEF Fail, Handle, EntryOf
    <3> QED
      BY <2>e, <3>1 DEF Purged
  <2>6. Scan(c) \/ GetEntry(c) \/ DeleteEntry(c) \/ Invalidated(c) \/ Fail(c) \/ Handle(c)
    BY <1>3, <2>p DEF Ends, Quiet, Check, CacheGet, IsAlive, Resolve, Examine, Examined,
         SubscribeReplies, AppendRequest, PublishRequest, TapRequest, Collect, StopWaiting, Leave,
         Put, TapSubscribe, Observe
  <2> QED
    BY <2>1, <2>2, <2>3, <2>4, <2>5, <2>6
<1>4. ASSUME NEW a \in Agents, Consume(a) \/ Live(a)
      PROVE  UNCHANGED <<pc, before, scan, doomed>>
  BY <1>4 DEF call_vars, cache_vars, Consume, Live, Receive, AppendAnswer, PublishAnswer, TapAnswer,
     Register, Start, Stop, Deregister, Expire, Heartbeat, ReplyFails, EngineIdle
<1>5. ASSUME \/ ExpireKey /\ UNCHANGED <<pc, scan, doomed, before>>
             \/ UNCHANGED vars
      PROVE  UNCHANGED <<pc, before, scan, doomed>>
  BY <1>5 DEF vars, call_vars, cache_vars
<1>6. \/ \E c \in Made : Quiet(c) \/ AppendRequest(c)
      \/ UNCHANGED <<pc, before, scan, doomed>>
  BY <1>4, <1>5 DEF Next, CallStep, Quiet
<1>7. ASSUME NEW d \in Made, M(d).verb = "INVALIDATE" PROVE Purged(d)'
  <2>1. ASSUME NEW c \in Made, Quiet(c) \/ AppendRequest(c) PROVE Purged(d)'
    <3>1. CASE c = d
      BY <1>3, <1>7, <2>1, <3>1 DEF Invalidations
    <3>2. CASE c # d
      BY <1>0, <1>2, <1>7, <2>1, <3>2, OneCall DEF Invalidations
    <3> QED
      BY <3>1, <3>2
  <2>2. CASE UNCHANGED <<pc, before, scan, doomed>>
    BY <1>2, <1>7, <2>2 DEF Invalidations
  <2> QED
    BY <1>6, <2>1, <2>2
<1> QED
  BY <1>0, <1>7 DEF Invalidations, M

(* When an INVALIDATE has returned, none of the matching answers that it   *)
(* found is cached, however gets, puts, expiries and other invalidations   *)
(* fall between its own reads and deletions.                               *)
THEOREM InvalidationsAreComplete == Spec => []InvalidationHolds
<1>1. Init => ResultsInv /\ Invalidations
  <2> SUFFICES ASSUME Init PROVE Invalidations
    BY ResultsInit
  <2>1. PICK w \in Workloads : InitOf(w)
    BY DEF Init
  <2> QED
    BY <2>1 DEF InitOf, Made, Invalidations, Purged
<1>2. ResultsInv /\ Invalidations /\ [Next]_vars => ResultsInv' /\ Invalidations'
  BY ResultsInvKept, InvalidationsKept
<1>3. Invalidations => InvalidationHolds
  BY DEF Invalidations, Purged, InvalidationHolds, Stale, EntryMatches, Present
<1> QED
  BY <1>1, <1>2, <1>3, PTL DEF Spec

-----------------------------------------------------------------------------
(* Sessions. *)

(* What a table says of a mode it lists once. *)
LEMMA ListedRecipe ==
    ASSUME NEW table, NEW m, NEW reads, <<m, reads>> \in table,
           \A e \in table : e[1] = m => e = <<m, reads>>
    PROVE  m \in DOMAIN Recipes(table) /\ Recipes(table)[m] = reads
<1>1. m \in {e[1] : e \in table}
  OBVIOUS
<1>2. (CHOOSE e \in table : e[1] = m) = <<m, reads>>
  OBVIOUS
<1> QED
  BY <1>1, <1>2 DEF Recipes

ContextAt(n, k) ==
    {"topic", "question"}
    \cup (IF n = 2 /\ k = "broadcast"
          THEN {"others", "transcript", "attacks_on_me", "questions_for_me"} ELSE {})
    \cup (IF n = 3 THEN {"others", "transcript"} ELSE {})
    \cup (IF k = "sequential_probes" THEN {"prior", "follow_up"} ELSE {})

(* A recipe that is there, and is given all it reads. *)
Served(rec, n, k) == HasRecipe(rec) /\ Reads(rec) \subseteq ContextAt(n, k)

(* The tables agree on a format: its code can be taken, its probes have    *)
(* one agent, and every round it holds has a recipe that is served.        *)
Agreeing(f) ==
    /\ required_tiers(f.code) \cap {"s"} # {}
    /\ \A n \in 1 .. 3 :
         /\ f.kinds[n] \in {"broadcast", "skip", "sequential_probes"}
         /\ f.kinds[n] = "sequential_probes" => f.force_one
         /\ f.kinds[n] # "skip" => Served(f.recipes[n], n, f.kinds[n])

LEMMA TiersOfSessions ==
    \A code \in {<<"adversarial", "debate">>, <<"human", "query">>, <<"collaborative", "reason">>,
                 <<"human", "explain">>, <<"adversarial", "challenge">>} :
      required_tiers(code) = {"s"}
BY DEF required_tiers, VectorCodes, JsonCodes, TextOrJsonCodes

LEMMA SessionAgrees ==
    ASSUME NEW name, NEW code, NEW role, NEW opening, NEW middle, NEW closing, NEW k,
           required_tiers(code) = {"s"}, k \in {"broadcast", "sequential_probes"},
           Served(<<role, opening>>, 1, "broadcast"),
           middle # NoRecipe => Served(<<role, middle>>, 2, k),
           Served(<<role, closing>>, 3, k)
    PROVE  Agreeing(Session(name, code, role, opening, middle, closing, k))
<1> DEFINE f == Session(name, code, role, opening, middle, closing, k)
<1>1. /\ f.code = code /\ f.force_one = (k = "sequential_probes")
      /\ f.kinds = <<"broadcast", IF middle = NoRecipe THEN "skip" ELSE k, k>>
      /\ f.recipes = <<<<role, opening>>, <<role, middle>>, <<role, closing>>>>
  BY DEF Session
<1> HIDE DEF f
<1>2. /\ f.kinds[1] = "broadcast" /\ f.kinds[2] = IF middle = NoRecipe THEN "skip" ELSE k
      /\ f.kinds[3] = k /\ f.recipes[1] = <<role, opening>> 
      /\ f.recipes[2] = <<role, middle>> /\ f.recipes[3] = <<role, closing>>
  BY <1>1
<1>3. \A n \in 1 .. 3 : n \in {1, 2, 3}
  OBVIOUS
<1>4. Agreeing(f)
  <2> SUFFICES ASSUME NEW n \in 1 .. 3
               PROVE  /\ f.kinds[n] \in {"broadcast", "skip", "sequential_probes"}
                      /\ f.kinds[n] = "sequential_probes" => f.force_one
                      /\ f.kinds[n] # "skip" => Served(f.recipes[n], n, f.kinds[n])
    BY <1>1 DEF Agreeing
  <2>1. CASE n = 1  BY <1>2, <2>1
  <2>2. CASE n = 2  BY <1>1, <1>2, <2>2
  <2>3. CASE n = 3  BY <1>1, <1>2, <2>3
  <2> QED  BY <1>3, <2>1, <2>2, <2>3
<1> QED
  BY <1>4 DEF f

-----------------------------------------------------------------------------
(* A table that lists a mode once serves it wherever its reads are given.  *)
Listed(table) == \A e, d \in table : e[1] = d[1] => e = d

LEMMA ServedByTable ==
    ASSUME NEW role \in DOMAIN RECIPES, NEW table, RECIPES[role] = Recipes(table), Listed(table)
    PROVE  \A m, reads : <<m, reads>> \in table =>
             \A n, k : reads \subseteq ContextAt(n, k) => Served(<<role, m>>, n, k)
<1> SUFFICES ASSUME NEW m, NEW reads, <<m, reads>> \in table,
                    NEW n, NEW k, reads \subseteq ContextAt(n, k)
             PROVE  Served(<<role, m>>, n, k)
  OBVIOUS
<1>1. \A e \in table : e[1] = m => e = <<m, reads>>
  BY DEF Listed
<1> QED
  BY <1>1, ListedRecipe DEF Served, HasRecipe, Reads

LEMMA WhatReadsAreServed ==
    /\ \A n, k : \A w \in {"topic", "question"} : On(w) \subseteq ContextAt(n, k)
    /\ \A w \in {"topic", "question"} :
         /\ AmongPeers(w) \subseteq ContextAt(2, "broadcast")
         /\ LookingBack(w) \subseteq ContextAt(2, "broadcast")
         /\ Probed(w) \subseteq ContextAt(2, "sequential_probes")
         /\ \A k : AmongPeers(w) \subseteq ContextAt(3, k) /\ LookingBack(w) \subseteq ContextAt(3, k)
    /\ {"transcript"} \subseteq ContextAt(2, "broadcast")
    /\ \A k : {"transcript"} \subseteq ContextAt(3, k)
BY DEF On, AmongPeers, LookingBack, Probed, ContextAt

LEMMA DebateServed ==
    /\ Served(<<"adversarial", "debate-me">>, 1, "broadcast")
    /\ Served(<<"adversarial", "debate-others">>, 2, "broadcast")
    /\ Served(<<"adversarial", "closing">>, 3, "broadcast")
<1> DEFINE table == DebateRecipes
<1>1. "adversarial" \in DOMAIN RECIPES /\ RECIPES["adversarial"] = Recipes(table)
  BY DEF RECIPES
<1>2. Listed(table)
  BY DEF Listed, DebateRecipes
<1>3. /\ <<"debate-me", On("question")>> \in table
      /\ <<"debate-others", AmongPeers("question")>> \in table
      /\ <<"closing", On("question")>> \in table
  BY DEF DebateRecipes
<1> HIDE DEF table
<1> QED
  BY <1>1, <1>2, <1>3, ServedByTable, WhatReadsAreServed

LEMMA InterviewServed ==
    /\ Served(<<"interview", "me">>, 1, "broadcast")
    /\ Served(<<"interview", "me-probe">>, 2, "sequential_probes")
    /\ Served(<<"interview", "me-summary">>, 3, "sequential_probes")
    /\ Served(<<"interview", "yall">>, 1, "broadcast")
    /\ Served(<<"interview", "yall-synthesize">>, 3, "broadcast")
<1> DEFINE table == InterviewRecipes \cup LegacyRecipes.interview
<1>1. "interview" \in DOMAIN RECIPES /\ RECIPES["interview"] = Recipes(table)
  BY DEF RECIPES
<1>2. Listed(table)
  BY DEF Listed, InterviewRecipes, LegacyRecipes
<1>3. /\ <<"me", On("topic")>> \in table
      /\ <<"me-probe", Probed("topic")>> \in table
      /\ <<"me-summary", LookingBack("topic")>> \in table
      /\ <<"yall", On("topic")>> \in table
      /\ <<"yall-synthesize", AmongPeers("topic")>> \in table
  BY DEF InterviewRecipes, LegacyRecipes
<1> HIDE DEF table
<1> QED
  BY <1>1, <1>2, <1>3, ServedByTable, WhatReadsAreServed

LEMMA CollaborateServed ==
    /\ Served(<<"collaborate", "joint-propose">>, 1, "broadcast")
    /\ Served(<<"collaborate", "joint-build-on">>, 2, "broadcast")
    /\ Served(<<"collaborate", "joint-synthesize">>, 3, "broadcast")
    /\ Served(<<"collaborate", "role-plan">>, 1, "broadcast")
    /\ Served(<<"collaborate", "role-conflicts">>, 2, "broadcast")
    /\ Served(<<"collaborate", "role-consolidate">>, 3, "broadcast")
    /\ Served(<<"collaborate", "brainstorm-diverge">>, 1, "broadcast")
    /\ Served(<<"collaborate", "brainstorm-cluster">>, 2, "broadcast")
    /\ Served(<<"collaborate", "brainstorm-top3">>, 3, "broadcast")
<1> DEFINE table == CollaborateRecipes
<1>1. "collaborate" \in DOMAIN RECIPES /\ RECIPES["collaborate"] = Recipes(table)
  BY DEF RECIPES
<1>2. Listed(table)
  BY DEF Listed, CollaborateRecipes
<1>3. /\ <<"joint-propose", On("question")>> \in table
      /\ <<"joint-build-on", AmongPeers("question")>> \in table
      /\ <<"joint-synthesize", LookingBack("question")>> \in table
      /\ <<"role-plan", On("question")>> \in table
      /\ <<"role-conflicts", AmongPeers("question")>> \in table
      /\ <<"role-consolidate", LookingBack("question")>> \in table
      /\ <<"brainstorm-diverge", On("question")>> \in table
      /\ <<"brainstorm-cluster", AmongPeers("question")>> \in table
      /\ <<"brainstorm-top3", LookingBack("question")>> \in table
  BY DEF CollaborateRecipes
<1> HIDE DEF table
<1> QED
  BY <1>1, <1>2, <1>3, ServedByTable, WhatReadsAreServed

LEMMA ConverseServed ==
    /\ Served(<<"converse", "free-open">>, 1, "broadcast")
    /\ Served(<<"converse", "free-respond">>, 2, "broadcast")
    /\ Served(<<"converse", "free-reflect">>, 3, "broadcast")
    /\ Served(<<"converse", "socratic-question">>, 1, "broadcast")
    /\ Served(<<"converse", "socratic-answer">>, 2, "broadcast")
    /\ Served(<<"converse", "socratic-unanswered">>, 3, "broadcast")
    /\ Served(<<"converse", "devils-position">>, 1, "broadcast")
    /\ Served(<<"converse", "devils-flip">>, 2, "broadcast")
    /\ Served(<<"converse", "devils-final">>, 3, "broadcast")
<1> DEFINE table == ConverseRecipes
<1>1. "converse" \in DOMAIN RECIPES /\ RECIPES["converse"] = Recipes(table)
  BY DEF RECIPES
<1>2. Listed(table)
  BY DEF Listed, ConverseRecipes
<1>3. /\ <<"free-open", On("question")>> \in table
      /\ <<"free-respond", LookingBack("question")>> \in table
      /\ <<"free-reflect", LookingBack("question")>> \in table
      /\ <<"socratic-question", On("question")>> \in table
      /\ <<"socratic-answer", AmongPeers("question")>> \in table
      /\ <<"socratic-unanswered", LookingBack("question")>> \in table
      /\ <<"devils-position", On("question")>> \in table
      /\ <<"devils-flip", AmongPeers("question")>> \in table
      /\ <<"devils-final", LookingBack("question")>> \in table
  BY DEF ConverseRecipes
<1> HIDE DEF table
<1> QED
  BY <1>1, <1>2, <1>3, ServedByTable, WhatReadsAreServed

LEMMA FictionServed ==
    /\ Served(<<"fiction", "theatre-enter">>, 1, "broadcast")
    /\ Served(<<"fiction", "theatre-respond">>, 2, "broadcast")
    /\ Served(<<"fiction", "theatre-final">>, 3, "broadcast")
    /\ Served(<<"fiction", "authors-setup">>, 1, "broadcast")
    /\ Served(<<"fiction", "authors-complication">>, 2, "broadcast")
    /\ Served(<<"fiction", "authors-resolution">>, 3, "broadcast")
<1> DEFINE table == FictionRecipes
<1>1. "fiction" \in DOMAIN RECIPES /\ RECIPES["fiction"] = Recipes(table)
  BY DEF RECIPES
<1>2. Listed(table)
  BY DEF Listed, FictionRecipes
<1>3. /\ <<"theatre-enter", On("question")>> \in table
      /\ <<"theatre-respond", {"transcript"}>> \in table
      /\ <<"theatre-final", {"transcript"}>> \in table
      /\ <<"authors-setup", On("question")>> \in table
      /\ <<"authors-complication", LookingBack("question")>> \in table
      /\ <<"authors-resolution", LookingBack("question")>> \in table
  BY DEF FictionRecipes
<1> HIDE DEF table
<1> QED
  BY <1>1, <1>2, <1>3, ServedByTable, WhatReadsAreServed

LEMMA TeachServed ==
    /\ Served(<<"teach", "explain">>, 1, "broadcast")
    /\ Served(<<"teach", "misconception">>, 2, "sequential_probes")
    /\ Served(<<"teach", "remember">>, 3, "sequential_probes")
<1> DEFINE table == TeachRecipes
<1>1. "teach" \in DOMAIN RECIPES /\ RECIPES["teach"] = Recipes(table)
  BY DEF RECIPES
<1>2. Listed(table)
  BY DEF Listed, TeachRecipes
<1>3. /\ <<"explain", On("topic")>> \in table
      /\ <<"misconception", Probed("topic")>> \in table
      /\ <<"remember", LookingBack("topic")>> \in table
  BY DEF TeachRecipes
<1> HIDE DEF table
<1> QED
  BY <1>1, <1>2, <1>3, ServedByTable, WhatReadsAreServed

LEMMA InterrogateServed ==
    /\ Served(<<"interrogate", "open">>, 1, "broadcast")
    /\ Served(<<"interrogate", "cross">>, 2, "sequential_probes")
    /\ Served(<<"interrogate", "hold">>, 3, "sequential_probes")
<1> DEFINE table == InterrogateRecipes
<1>1. "interrogate" \in DOMAIN RECIPES /\ RECIPES["interrogate"] = Recipes(table)
  BY DEF RECIPES
<1>2. Listed(table)
  BY DEF Listed, InterrogateRecipes
<1>3. /\ <<"open", On("topic")>> \in table
      /\ <<"cross", Probed("topic")>> \in table
      /\ <<"hold", LookingBack("topic")>> \in table
  BY DEF InterrogateRecipes
<1> HIDE DEF table
<1> QED
  BY <1>1, <1>2, <1>3, ServedByTable, WhatReadsAreServed

-----------------------------------------------------------------------------
(* The names of the game modes and of the session formats, which differ. *)
ModeNames ==
    {"information-exchange", "persuasion", "negotiation", "rogerian", "deliberative",
     "narrative", "phatic", "motivational", "invitational", "dialectical",
     "hermeneutic", "deconstructive", "rhizomatic", "polyphonic", "coordinative",
     "socratic", "pragmatist", "agonistic", "levinasian", "toulmin", "directive",
     "co-creative", "pedagogical", "mediation"}
SessionNames ==
    {"debate", "interview-me", "interview-yall", "interview-eachother",
     "collaborate-joint", "collaborate-role", "collaborate-brainstorm",
     "converse-free", "converse-socratic", "converse-devils", "fiction-theatre",
     "fiction-authors", "deliberate", "teach", "estimate", "interrogate"}

LEMMA NamesOfModes == \A f \in GAME_MODE_FORMATS : f.name \in ModeNames
<1> SUFFICES ASSUME NEW f \in GAME_MODE_FORMATS
             PROVE  f.name \in ModeNames
  OBVIOUS
<1> USE DEF Mode, Joint, ModeNames
<1>1. CASE f \in {INFORMATION_EXCHANGE, PERSUASION, NEGOTIATION,
        ROGERIAN, DELIBERATIVE, NARRATIVE}
  BY <1>1 DEF INFORMATION_EXCHANGE, PERSUASION, NEGOTIATION,
        ROGERIAN, DELIBERATIVE, NARRATIVE
<1>2. CASE f \in {PHATIC, MOTIVATIONAL, INVITATIONAL,
        DIALECTICAL, HERMENEUTIC, DECONSTRUCTIVE}
  BY <1>2 DEF PHATIC, MOTIVATIONAL, INVITATIONAL,
        DIALECTICAL, HERMENEUTIC, DECONSTRUCTIVE
<1>3. CASE f \in {RHIZOMATIC, POLYPHONIC, COORDINATIVE,
        SOCRATIC, PRAGMATIST, AGONISTIC}
  BY <1>3 DEF RHIZOMATIC, POLYPHONIC, COORDINATIVE,
        SOCRATIC, PRAGMATIST, AGONISTIC
<1>4. CASE f \in {LEVINASIAN, TOULMIN, DIRECTIVE,
        CO_CREATIVE, PEDAGOGICAL, MEDIATION}
  BY <1>4 DEF LEVINASIAN, TOULMIN, DIRECTIVE,
        CO_CREATIVE, PEDAGOGICAL, MEDIATION
<1> QED
  BY <1>1, <1>2, <1>3, <1>4 DEF GAME_MODE_FORMATS

LEMMA NamesOfSessions == \A f \in LegacyFormats : f.name \in SessionNames
BY DEF LegacyFormats, Panel, Reasoning, Witness, Session, SessionNames

LEMMA NamesDiffer == ModeNames \cap SessionNames = {} /\ "none" \notin ModeNames
BY DEF ModeNames, SessionNames

(* Every registered format goes by the name it is registered under. *)
LEMMA FormatNames ==
    ASSUME NEW n \in DOMAIN FORMATS
    PROVE  FORMATS[n] \in AllFormats /\ FORMATS[n].name = n
<1>1. PICK f \in AllFormats : f.name = n
  BY DEF FORMATS
<1>2. FORMATS[n] = CHOOSE g \in AllFormats : g.name = n
  BY DEF FORMATS
<1>3. QED
  BY <1>1, <1>2

(* The sessions that go silent: two carry a code the engine takes in no    *)
(* simple form, and the recipe of one reads what it is not given.          *)
Silent == {"deliberate", "estimate", "interview-eachother"}

LEMMA SessionsAgree == \A f \in LegacyFormats : f.name \notin Silent => Agreeing(f)
<1> SUFFICES ASSUME NEW f \in LegacyFormats, f.name \notin Silent
             PROVE  Agreeing(f)
  OBVIOUS
<1> USE SessionAgrees, TiersOfSessions DEF Panel, Reasoning, Witness, NoRecipe
<1>1. CASE f = Panel("debate", <<"adversarial", "debate">>, "adversarial",
                      "debate-me", "debate-others", "closing")
  BY <1>1, DebateServed
<1>2. CASE f = Session("interview-me", <<"human", "query">>, "interview", "me",
                      "me-probe", "me-summary", "sequential_probes")
  BY <1>2, InterviewServed
<1>3. CASE f = Panel("interview-yall", <<"human", "query">>, "interview", "yall",
                      NoRecipe, "yall-synthesize")
  BY <1>3, InterviewServed
<1>4. CASE f = Panel("interview-eachother", <<"human", "query">>, "interview",
                      "yall", "eachother", "eachother-answer")
  BY <1>4 DEF Silent, Session
<1>5. CASE f = Reasoning("collaborate-joint", "collaborate", "joint-propose",
                      "joint-build-on", "joint-synthesize")
  BY <1>5, CollaborateServed
<1>6. CASE f = Reasoning("collaborate-role", "collaborate", "role-plan",
                      "role-conflicts", "role-consolidate")
  BY <1>6, CollaborateServed
<1>7. CASE f = Reasoning("collaborate-brainstorm", "collaborate",
                      "brainstorm-diverge", "brainstorm-cluster", "brainstorm-top3")
  BY <1>7, CollaborateServed
<1>8. CASE f = Reasoning("converse-free", "converse", "free-open", "free-respond",
                      "free-reflect")
  BY <1>8, ConverseServed
<1>9. CASE f = Reasoning("converse-socratic", "converse", "socratic-question",
                      "socratic-answer", "socratic-unanswered")
  BY <1>9, ConverseServed
<1>10. CASE f = Reasoning("converse-devils", "converse", "devils-position",
                      "devils-flip", "devils-final")
  BY <1>10, ConverseServed
<1>11. CASE f = Reasoning("fiction-theatre", "fiction", "theatre-enter",
                      "theatre-respond", "theatre-final")
  BY <1>11, FictionServed
<1>12. CASE f = Reasoning("fiction-authors", "fiction", "authors-setup",
                      "authors-complication", "authors-resolution")
  BY <1>12, FictionServed
<1>13. CASE f = Panel("deliberate", <<"collaborative", "consensus">>, "deliberate",
                      "position", "negotiate", "vote")
  BY <1>13 DEF Silent, Session
<1>14. CASE f = Witness("teach", <<"human", "explain">>, "explain", "misconception",
                      "remember")
  BY <1>14, TeachServed
<1>15. CASE f = Panel("estimate", <<"collaborative", "consensus">>, "estimate",
                      "propose", "update", "commit")
  BY <1>15 DEF Silent, Session
<1>16. CASE f = Witness("interrogate", <<"adversarial", "challenge">>, "open",
                      "cross", "hold")
  BY <1>16, InterrogateServed
<1> QED
  BY <1>1, <1>2, <1>3, <1>4, <1>5, <1>6, <1>7, <1>8,
     <1>9, <1>10, <1>11, <1>12, <1>13, <1>14, <1>15, <1>16 DEF LegacyFormats

-----------------------------------------------------------------------------
(* While nothing has gone wrong: the rounds before this one are heard, and *)
(* in this one everybody has spoken or has a question to answer.           *)
OnTime ==
    /\ stage # "raised" /\ starved = {}
    /\ stage \in {"setup", "invite"} => round = [number |-> 1, probe |-> 0]
    /\ stage \in {"round", "probe", "gather"} => round.number \in 1 .. 3
    /\ stage \in {"snapshot", "teardown", "done"} => round.number = 4
    /\ round.number \in 1 .. 4
    /\ \A r \in 1 .. 3 : r < round.number /\ fmt.kinds[r] # "skip" => heard[r] = invited
    /\ stage = "gather" => kind # "skip" /\ heard[round.number] \cup waiting = invited

SessionTyped ==
    /\ mishaps \in Nat /\ Agreeing(fmt)
    /\ heard = [r \in 1 .. 3 |-> heard[r]] /\ \A r \in 1 .. 3 : heard[r] \subseteq invited
    /\ round = [number |-> round.number, probe |-> round.probe]
    /\ waiting \subseteq invited
    /\ stage \in {"setup", "invite", "round", "probe", "gather", "snapshot", "teardown",
                  "done", "raised"}

SessionInv == SessionTyped /\ (mishaps = 0 => OnTime)

LEMMA SessionStart ==
    ASSUME Sessions \cap Silent = {}
    PROVE  SessionInit => SessionInv
<1> SUFFICES ASSUME SessionInit PROVE SessionInv
  OBVIOUS
<1>1. PICK n \in Sessions : fmt = FORMATS[n]
  BY DEF SessionInit
<1>2. PICK f \in LegacyFormats : f.name = n
  BY SessionAssumption DEF SessionAssumption
<1>3. n \in DOMAIN FORMATS /\ n \in SessionNames /\ n \notin Silent
  BY <1>2, NamesOfSessions DEF FORMATS, AllFormats
<1>4. fmt \in LegacyFormats /\ fmt.name = n
  BY <1>1, <1>3, FormatNames, NamesOfModes, NamesDiffer DEF AllFormats
<1>5. Agreeing(fmt)
  BY <1>3, <1>4, SessionsAgree
<1>6. SessionTyped
  BY <1>5 DEF SessionInit, SessionTyped
<1>7. OnTime
  BY DEF SessionInit, OnTime
<1> QED
  BY <1>6, <1>7 DEF SessionInv

(* The only agent of a probe is the whole panel. *)
LEMMA ThePanel ==
    /\ single_target \in invited
    /\ SessionTyped /\ round.number \in 1 .. 3 /\ kind = "sequential_probes"
         => invited = {single_target}
<1>1. Len(Panelists) \in Nat /\ Len(Panelists) >= 1
  BY SessionAssumption, EmptySeq, LenProperties DEF SessionAssumption
<1>2. 1 \in 1 .. count
  BY <1>1 DEF count
<1>3. single_target \in invited
  BY <1>2 DEF invited, single_target
<1>4. ASSUME SessionTyped, round.number \in 1 .. 3, kind = "sequential_probes"
      PROVE  invited = {single_target}
  <2>1. fmt.force_one
    BY <1>4 DEF SessionTyped, Agreeing, kind
  <2>2. 1 .. count = {1}
    BY <2>1 DEF count
  <2> QED
    BY <2>2 DEF invited, single_target
<1> QED
  BY <1>3, <1>4

LEMMA ContextNow == Context = ContextAt(round.number, kind)
BY DEF Context, ContextAt

LEMMA SessionKept == SessionInv /\ [SessionNext]_session_vars => SessionInv'
<1> SUFFICES ASSUME SessionInv, [SessionNext]_session_vars PROVE SessionInv'
  OBVIOUS
<1> USE DEF SessionInv, Reached
<1>1. ASSUME UNCHANGED fmt PROVE invited' = invited /\ single_target' = single_target
  BY <1>1 DEF invited, count, single_target
<1>2. CASE SetUp
  <2>1. /\ UNCHANGED <<fmt, round, waiting, heard, starved, mishaps>>
        /\ stage = "setup" /\ stage' = "invite"
    BY <1>2 DEF SetUp
  <2> QED
    BY <1>1, <2>1 DEF SessionTyped, OnTime
<1>3. CASE Invite
  <2>1. /\ UNCHANGED <<fmt, round, waiting, heard, starved, mishaps>>
        /\ stage = "invite" /\ stage' = "round"
    BY <1>3 DEF Invite, Continue
  <2> QED
    BY <1>1, <2>1 DEF SessionTyped, OnTime
<1>4. CASE Raise
  <2>1. /\ UNCHANGED <<fmt, round, heard>> /\ waiting' = {} /\ mishaps' = mishaps + 1
        /\ stage' = "raised"
    BY <1>4 DEF Raise, Mishap
  <2> QED
    BY <1>1, <2>1 DEF SessionTyped
<1>5. CASE SkipRound
  <2>1. /\ UNCHANGED <<fmt, waiting, heard, starved, mishaps>> /\ stage = "round"
        /\ kind = "skip" /\ round' = [number |-> round.number + 1, probe |-> 0]
        /\ stage' = IF round.number = 3 THEN "snapshot" ELSE "round"
    BY <1>5 DEF SkipRound, Continue, NextRound
  <2> QED
    BY <1>1, <2>1 DEF SessionTyped, OnTime, kind
<1>6. CASE Broadcast
  <2>1. /\ UNCHANGED <<fmt, round, heard, starved>> /\ stage = "round" /\ stage' = "gather"
        /\ kind = "broadcast" /\ Paused
        /\ waiting' = {a \in invited \cap listening : Understands(a)}
    BY <1>6 DEF Broadcast
  <2>2. mishaps' \in Nat /\ (mishaps' = 0 => mishaps = 0 /\ invited \subseteq listening)
    BY <2>1 DEF Paused, Mishap, Continue, SessionTyped
  <2>3. mishaps' = 0 => waiting' = invited
    BY <2>1, <2>2 DEF SessionTyped, Agreeing, Understands
  <2>4. kind' = "broadcast"
    BY <2>1 DEF kind
  <2> QED
    BY <1>1, <2>1, <2>2, <2>3, <2>4 DEF SessionTyped, OnTime
<1>7. CASE Probe
  <2>1. /\ UNCHANGED <<fmt, heard, starved>> /\ stage \in {"round", "probe"}
        /\ stage' = (IF Understands(single_target) THEN "gather" ELSE "raised")
        /\ kind = "sequential_probes" /\ Paused
        /\ round' = [round EXCEPT !.probe = @ + 1]
        /\ waiting' = {single_target} \cap listening
    BY <1>7 DEF Probe
  <2>2. mishaps' \in Nat /\ (mishaps' = 0 => mishaps = 0 /\ invited \subseteq listening)
    BY <2>1 DEF Paused, Mishap, Continue, SessionTyped
  <2>3. stage' = "gather"
    BY <2>1 DEF SessionTyped, Agreeing, Understands
  <2>4. mishaps' = 0 => waiting' = invited
    BY <2>1, <2>2, ThePanel DEF OnTime
  <2>5. round'.number = round.number /\ round' = [number |-> round'.number, probe |-> round'.probe]
    BY <2>1 DEF SessionTyped
  <2>6. SessionTyped'
    BY <1>1, <2>1, <2>2, <2>3, <2>5, ThePanel DEF SessionTyped
  <2>7. kind' = "sequential_probes"
    BY <2>1, <2>5 DEF kind
  <2>8. ASSUME mishaps' = 0 PROVE OnTime'
    <3>1. OnTime /\ round.number \in 1 .. 3
      BY <2>1, <2>2, <2>8 DEF OnTime
    <3>2. heard[round.number] \subseteq invited
      BY <3>1 DEF SessionTyped
    <3> QED
      BY <1>1, <2>1, <2>3, <2>4, <2>5, <2>7, <2>8, <3>1, <3>2 DEF OnTime
  <2> QED
    BY <2>6, <2>8
<1>8. CASE Gathered
  <2>1. /\ UNCHANGED <<fmt, heard, starved>> /\ stage = "gather" /\ waiting' = {}
        /\ IF waiting = {} THEN Continue ELSE Mishap
    BY <1>8 DEF Gathered
  <2>2. mishaps' \in Nat /\ (mishaps' = 0 => mishaps = 0 /\ waiting = {})
    BY <2>1 DEF Mishap, Continue, SessionTyped
  <2>3. \/ stage' = "probe" /\ round' = round
        \/ /\ round' = [number |-> round.number + 1, probe |-> 0]
           /\ stage' = IF round.number = 3 THEN "snapshot" ELSE "round"
    BY <1>8 DEF Gathered, NextRound
  <2>4. SessionTyped'
    BY <1>1, <2>1, <2>2, <2>3 DEF SessionTyped
  <2>5. ASSUME mishaps' = 0 PROVE OnTime'
    <3>1. OnTime /\ round.number \in 1 .. 3 /\ heard[round.number] = invited
      BY <2>1, <2>2, <2>5 DEF OnTime
    <3>2. \A r \in 1 .. 3 : r < round.number + 1 /\ fmt.kinds[r] # "skip" => heard[r] = invited
      BY <3>1 DEF OnTime
    <3>3. CASE stage' = "probe" /\ round' = round
      BY <3>1, <3>3, <2>1, <1>1 DEF OnTime
    <3>4. CASE /\ round' = [number |-> round.number + 1, probe |-> 0]
               /\ stage' = IF round.number = 3 THEN "snapshot" ELSE "round"
      BY <3>1, <3>2, <3>4, <2>1, <1>1 DEF OnTime
    <3> QED
      BY <2>3, <3>3, <3>4
  <2> QED
    BY <2>4, <2>5
<1>9. ASSUME NEW a \in invited, Speak(a) PROVE SessionInv'
  <2>1. /\ UNCHANGED <<fmt, stage, round, mishaps>> /\ stage = "gather" /\ a \in waiting
        /\ waiting' = waiting \ {a}
        /\ heard' = [heard EXCEPT ![round.number] = @ \cup {a}]
        /\ starved' = starved \cup (Reads(recipe) \ Context)
    BY <1>9 DEF Speak, Answered
  <2>2. SessionTyped'
    BY <1>1, <2>1 DEF SessionTyped
  <2>3. ASSUME mishaps' = 0 PROVE OnTime'
    <3>1. OnTime /\ round.number \in 1 .. 3
      BY <2>1, <2>3 DEF OnTime
    <3>2. Reads(recipe) \subseteq Context
      BY <2>1, <3>1, ContextNow DEF SessionTyped, OnTime, Agreeing, Served, recipe, kind
    <3>3. starved' = {}
      BY <2>1, <3>1, <3>2 DEF OnTime
    <3>4. \A r \in 1 .. 3 : heard'[r] = IF r = round.number THEN heard[r] \cup {a} ELSE heard[r]
      BY <2>1, <3>1 DEF SessionTyped
    <3>5. kind' = kind
      BY <2>1 DEF kind
    <3> QED
      BY <1>1, <2>1, <3>1, <3>3, <3>4, <3>5 DEF OnTime
  <2> QED
    BY <2>2, <2>3
<1>10. ASSUME NEW a \in invited, Err(a) PROVE SessionInv'
  <2>1. /\ UNCHANGED <<fmt, stage, round, heard, starved>> /\ stage = "gather" /\ a \in waiting
        /\ waiting' = waiting \ {a}
        /\ (HasRecipe(recipe) => Mishap) /\ (~HasRecipe(recipe) => Continue)
    BY <1>10 DEF Err, Answered
  <2>2. mishaps' \in Nat /\ (mishaps' = 0 => mishaps = 0 /\ ~HasRecipe(recipe))
    BY <2>1 DEF Mishap, Continue, SessionTyped
  <2>3. mishaps' # 0
    BY <2>1, <2>2 DEF SessionTyped, OnTime, Agreeing, Served, recipe, kind
  <2> QED
    BY <1>1, <2>1, <2>2, <2>3 DEF SessionTyped
<1>11. CASE UNCHANGED <<fmt, stage, round, waiting, heard, starved, mishaps>>
  BY <1>1, <1>11 DEF SessionTyped, OnTime, kind
<1>12. ASSUME NEW a \in invited, Subscribed(a)
       PROVE  UNCHANGED <<fmt, stage, round, waiting, heard, starved, mishaps>>
  BY <1>12 DEF Subscribed
<1>13. CASE Snapshot
  <2>1. /\ UNCHANGED <<fmt, round, waiting, heard, starved, mishaps>>
        /\ stage = "snapshot" /\ stage' = "teardown"
    BY <1>13 DEF Snapshot
  <2> QED
    BY <1>1, <2>1 DEF SessionTyped, OnTime
<1>14. ASSUME \/ Close
              \/ \E a \in invited : TearDown(a)
       PROVE  SessionInv'
  <2>1. /\ UNCHANGED <<fmt, round, waiting, heard, starved>>
        /\ stage = "teardown" /\ stage' \in {"teardown", "done"}
        /\ Mishap \/ Continue
    BY <1>14 DEF Close, TearDown
  <2>2. mishaps' \in Nat /\ (mishaps' = 0 => mishaps = 0)
    BY <2>1 DEF Mishap, Continue, SessionTyped
  <2> QED
    BY <1>1, <2>1, <2>2 DEF SessionTyped, OnTime
<1> QED
  BY <1>2, <1>3, <1>4, <1>5, <1>6, <1>7, <1>8, <1>9, <1>10, <1>11, <1>12, <1>13, <1>14
  DEF SessionNext, RoundStep, PanelStep, session_vars

(* A session in which nothing went wrong hears every agent it invited in   *)
(* every round that is not skipped, and no recipe goes without a variable  *)
(* it reads: for any panel and any of the sessions whose code the engine   *)
(* accepts in simple form and whose recipes the runner gives what they     *)
(* read, which the three named in Silent are not.                          *)
THEOREM PanelsAreHeard ==
    ASSUME Sessions \cap Silent = {}
    PROVE  SessionSpec => []SessionsAreHeard
<1>1. SessionInv => SessionsAreHeard
  BY DEF SessionInv, OnTime, SessionsAreHeard
<1> QED
  BY SessionStart, SessionKept, <1>1, PTL DEF SessionSpec

-----------------------------------------------------------------------------
(* Modes that are played. *)

conversation_vars == <<play_vars, thread_vars>>

(* Who was built passed the check, and what is in an inbox was let through. *)
PlayersChecked == \A r \in built : _validate_format_contracts(r)
TurnsAdmitted ==
    \A m \in inbox : m.to \in built /\ m.format # "none" /\ _check_format(FORMATS, m)
PlayInv ==
    /\ mode.name # "none" /\ PlayersChecked /\ TurnsAdmitted /\ TurnsMeetTheirHooks

LEMMA PlayStart == ConversationInit => PlayInv
<1> SUFFICES ASSUME ConversationInit PROVE PlayInv
  OBVIOUS
<1>1. PICK n \in Modes : mode = FORMATS[n]
  BY DEF ConversationInit
<1>2. PICK f \in GAME_MODE_FORMATS : f.name = n
  BY ConversationAssumption DEF ConversationAssumption
<1>3. n \in DOMAIN FORMATS
  BY <1>2 DEF FORMATS, AllFormats
<1>4. mode.name # "none"
  BY <1>1, <1>2, <1>3, FormatNames, NamesOfModes, NamesDiffer
<1> QED
  BY <1>4 DEF ConversationInit, PlayInv, PlayersChecked, TurnsAdmitted, TurnsMeetTheirHooks

(* What Send lets through keeps the inbox admitted. *)
LEMMA SendsAdmitted ==
    ASSUME PlayInv, NEW r, NEW to \in built, NEW f, f # "none", NEW code, Send(r, to, f, code),
           UNCHANGED <<mode, hooks, built, unhandled>>
    PROVE  PlayInv'
<1> DEFINE m == [source |-> [role |-> r], to |-> to, format |-> f, code |-> code]
<1>1. _check_format(FORMATS, m) /\ inbox' = inbox \cup {m}
  BY DEF Send
<1>2. m.to = to /\ m.format = f
  OBVIOUS
<1> HIDE DEF m
<1>3. TurnsAdmitted'
  BY <1>1, <1>2 DEF PlayInv, TurnsAdmitted
<1>4. PlayersChecked' /\ TurnsMeetTheirHooks' /\ (mode.name # "none")'
  BY DEF PlayInv, PlayersChecked, TurnsMeetTheirHooks, _validate_format_contracts,
         supported_formats
<1> QED
  BY <1>3, <1>4 DEF PlayInv

LEMMA TurnHandled ==
    ASSUME PlayInv, NEW m \in inbox, HandleTurn(m)
    PROVE  PlayInv'
<1>1. inbox' \subseteq inbox /\ UNCHANGED <<mode, hooks, built>>
  BY DEF HandleTurn
<1>2. TurnsAdmitted' /\ PlayersChecked' /\ (mode.name # "none")'
  BY <1>1 DEF PlayInv, TurnsAdmitted, PlayersChecked, _validate_format_contracts,
              supported_formats
<1>3. TurnsMeetTheirHooks'
  <2>1. CASE m.format \in supported_formats /\ FORMATS[m.format].recipe_kind = "turn_sequence"
    <3>1. m.to \in built /\ m.format # "none" /\ _check_format(FORMATS, m)
      BY DEF PlayInv, TurnsAdmitted
    <3>2. FORMATS[m.format].turn_primitives \subseteq hooks[m.to]
      BY <2>1, <3>1 DEF PlayInv, PlayersChecked, _validate_format_contracts
    <3>3. m.code \in FORMATS[m.format].turn_primitives
      BY <2>1, <3>1 DEF _check_format, is_turn_in_format
    <3>4. unhandled' = unhandled
      BY <3>2, <3>3 DEF HandleTurn
    <3> QED
      BY <3>4 DEF PlayInv, TurnsMeetTheirHooks
  <2>2. CASE ~ (m.format \in supported_formats
                /\ FORMATS[m.format].recipe_kind = "turn_sequence")
    <3>1. \A turn \in unhandled' :
            \/ turn \in unhandled
            \/ turn[1] = m.format /\ m.format \in supported_formats
      <4>1. CASE m.format \in supported_formats /\ IsTurn(m.code)
        BY <4>1 DEF HandleTurn
      <4>2. CASE ~ (m.format \in supported_formats /\ IsTurn(m.code))
        BY <4>2 DEF HandleTurn
      <4> QED
        BY <4>1, <4>2
    <3> QED
      BY <3>1, <2>2 DEF PlayInv, TurnsMeetTheirHooks
  <2> QED
    BY <2>1, <2>2
<1> QED
  BY <1>2, <1>3 DEF PlayInv

LEMMA PlayKept == PlayInv /\ [ConversationNext]_conversation_vars => PlayInv'
<1> SUFFICES ASSUME PlayInv, [ConversationNext]_conversation_vars PROVE PlayInv'
  OBVIOUS
<1>1. ASSUME NEW r \in Roles, Construct(r) PROVE PlayInv'
  <2>1. UNCHANGED <<mode, hooks, inbox, unhandled>>
    BY <1>1, Zenon DEF Construct
  <2>2. \A q \in built' : q \in built \/ (q = r /\ _validate_format_contracts(r))
    BY <1>1 DEF Construct
  <2>3. built \subseteq built'
    BY <1>1 DEF Construct
  <2> QED
    BY <2>1, <2>2, <2>3 DEF PlayInv, PlayersChecked, TurnsAdmitted, TurnsMeetTheirHooks,
         _validate_format_contracts, supported_formats
<1>2. ASSUME NEW r \in built, NEW to \in built, Play(r, to) PROVE PlayInv'
  <2>1. Send(r, to, mode.name, played'.last_turn) /\ UNCHANGED <<mode, hooks, built, unhandled>>
    BY <1>2 DEF Play
  <2> QED
    BY <2>1, SendsAdmitted DEF PlayInv
<1>3. ASSUME NEW r \in built, NEW to \in built, Stray(r, to) PROVE PlayInv'
  <2>1. PICK stray \in OutOfRhythm : Send(r, to, stray[1], stray[2])
    BY <1>3 DEF Stray
  <2>2. stray[1] \in {mode.name, "debate", "unknown"}
    BY DEF OutOfRhythm
  <2>3. stray[1] # "none" /\ UNCHANGED <<mode, hooks, built, unhandled>>
    BY <1>3, <2>2 DEF Stray, PlayInv
  <2> QED
    BY <2>1, <2>3, SendsAdmitted
<1>4. ASSUME NEW m \in inbox, HandleTurn(m) PROVE PlayInv'
  BY <1>4, TurnHandled
<1>5. ASSUME UNCHANGED play_vars PROVE PlayInv'
  BY <1>5 DEF play_vars, PlayInv, PlayersChecked, TurnsAdmitted, TurnsMeetTheirHooks,
              _validate_format_contracts, supported_formats
<1> QED
  BY <1>1, <1>2, <1>3, <1>4, <1>5 DEF ConversationNext, AnyConstruct, AnyPlay, AnyStray,
     AnyHandle, ThreadStep, conversation_vars

(* Whichever modes are played, whatever classes forget a hook and whoever  *)
(* sends out of rhythm: no turn of a mode reaches an agent without a hook. *)
THEOREM HooksAreWritten == ConversationSpec => []TurnsMeetTheirHooks
<1>1. PlayInv => TurnsMeetTheirHooks
  BY DEF PlayInv
<1> QED
  BY PlayStart, PlayKept, <1>1, PTL DEF ConversationSpec, conversation_vars

-----------------------------------------------------------------------------
(* Teachers and their graph. *)

(* A graph is whole with regard to the edges it owes: it has them, and it  *)
(* has both ends of every edge.                                            *)
Whole(G, edges) ==
    /\ edges \subseteq G.edges
    /\ \A edge \in G.edges : KnowsEnds(G, edge)

IsGraph(G) == DOMAIN G = {"nodes", "edges"} /\ G = [nodes |-> G.nodes, edges |-> G.edges]

ClassInv ==
    /\ graph = [k \in Graphs |-> graph[k]] /\ owed = [k \in Graphs |-> owed[k]]
    /\ \A k \in Graphs : IsGraph(graph[k]) /\ Whole(graph[k], owed[k])

(* Writing a node adds it, and takes nothing away. *)
LEMMA NodeWritten ==
    ASSUME NEW G, IsGraph(G), NEW id, NEW props
    PROVE  /\ IsGraph(write_node(G, id, props))
           /\ DOMAIN write_node(G, id, props).nodes = {id} \cup DOMAIN G.nodes
           /\ write_node(G, id, props).edges = G.edges
BY DEF IsGraph, write_node

LEMMA NodeKeepsWhole ==
    ASSUME NEW G, IsGraph(G), NEW id, NEW props, NEW edges, Whole(G, edges)
    PROVE  IsGraph(write_node(G, id, props)) /\ Whole(write_node(G, id, props), edges)
BY NodeWritten DEF Whole, KnowsEnds

LEMMA DeletionKeepsWhole ==
    ASSUME NEW G, IsGraph(G), NEW id, NEW edges, Whole(G, edges)
    PROVE  /\ IsGraph(delete_node(G, id))
           /\ Whole(delete_node(G, id), {edge \in edges : ~Touches(edge, id)})
<1> DEFINE D == delete_node(G, id)
<1>1. /\ IsGraph(D)
      /\ DOMAIN D.nodes = DOMAIN G.nodes \ {id}
      /\ D.edges = {edge \in G.edges : ~Touches(edge, id)}
  BY DEF delete_node, IsGraph, Restrict
<1> HIDE DEF D
<1> QED
  BY <1>1 DEF Whole, KnowsEnds, Touches, D

LEMMA SelfNodesKeepWhole ==
    ASSUME NEW G, IsGraph(G), NEW t, NEW rubric, NEW edges, Whole(G, edges)
    PROVE  /\ IsGraph(_ensure_self_nodes(G, t, rubric))
           /\ Whole(_ensure_self_nodes(G, t, rubric), edges)
BY NodeKeepsWhole DEF _ensure_self_nodes

(* A judgement is written with all its edges or, when the teacher's own    *)
(* node is gone, with none.                                                *)
LEMMA JudgementWritten ==
    ASSUME NEW G, IsGraph(G), NEW t, NEW s, NEW r, NEW j, NEW edges, Whole(G, edges)
    PROVE  LET P == _persist_judgement(G, t, s, r, j)
           IN  /\ IsGraph(P) /\ Whole(P, edges)
               /\ node_id_for_agent(t) \in DOMAIN P.nodes
                    => Whole(P, edges \cup JudgementEdges(t, s, r, j))
<1> DEFINE A == write_node(G, node_id_for_agent(s), "bare")
           B == write_node(A, node_id_for_rubric(r), "bare")
           C == write_node(B, j, "full")
           P == _persist_judgement(G, t, s, r, j)
           new == JudgementEdges(t, s, r, j)
<1>1. IsGraph(A) /\ node_id_for_agent(s) \in DOMAIN A.nodes /\ Whole(A, edges)
  BY NodeWritten, NodeKeepsWhole
<1>2. /\ IsGraph(B) /\ Whole(B, edges)
      /\ {node_id_for_agent(s), node_id_for_rubric(r)} \subseteq DOMAIN B.nodes
  <2> HIDE DEF A
  <2> QED BY <1>1, NodeWritten, NodeKeepsWhole
<1>3. /\ IsGraph(C) /\ Whole(C, edges)
      /\ {node_id_for_agent(s), node_id_for_rubric(r), j} \subseteq DOMAIN C.nodes
  <2> HIDE DEF B
  <2> QED BY <1>2, NodeWritten, NodeKeepsWhole
<1>4. P = IF KnowsEnds(C, ISSUED(t, j)) THEN [C EXCEPT !.edges = @ \cup new] ELSE C
  BY Zenon DEF _persist_judgement
<1>5. KnowsEnds(C, ISSUED(t, j)) <=> node_id_for_agent(t) \in DOMAIN C.nodes
  BY <1>3 DEF KnowsEnds, ISSUED
<1>6. CASE node_id_for_agent(t) \in DOMAIN C.nodes
  <2>1. \A edge \in new : KnowsEnds(C, edge)
    BY <1>3, <1>6 DEF KnowsEnds, JudgementEdges, ISSUED, ABOUT, USES_RUBRIC
  <2>2. P = [C EXCEPT !.edges = @ \cup new]
    BY <1>4, <1>5, <1>6
  <2> HIDE DEF C, P, new
  <2>3. IsGraph(P) /\ P.nodes = C.nodes /\ P.edges = C.edges \cup new
    BY <2>2, <1>3 DEF IsGraph
  <2>4. Whole(P, edges \cup new) /\ Whole(P, edges)
    BY <2>1, <2>3, <1>3 DEF Whole, KnowsEnds
  <2> QED
    BY <2>3, <2>4 DEF P, new
<1>7. CASE node_id_for_agent(t) \notin DOMAIN C.nodes
  <2>1. P = C
    BY <1>4, <1>5, <1>7
  <2> HIDE DEF C, P
  <2> QED
    BY <2>1, <1>3, <1>7 DEF P
<1> QED
  BY <1>6, <1>7

LEMMA ObservationWritten ==
    ASSUME NEW G, IsGraph(G), NEW s, NEW ts, NEW edges, Whole(G, edges)
    PROVE  IsGraph(_persist_observation(G, s, ts)) /\ Whole(_persist_observation(G, s, ts), edges)
<1> DEFINE id == <<"observation", s, ts>>
           A == write_node(G, id, "full")
           B == write_node(A, node_id_for_agent(s), "bare")
           P == _persist_observation(G, s, ts)
           edge == <<node_id_for_agent(s), id, "REPORTED">>
<1>1. IsGraph(A) /\ id \in DOMAIN A.nodes /\ Whole(A, edges)
  BY NodeWritten, NodeKeepsWhole
<1>2. IsGraph(B) /\ {id, node_id_for_agent(s)} \subseteq DOMAIN B.nodes /\ Whole(B, edges)
  <2> HIDE DEF A, id
  <2> QED BY <1>1, NodeWritten, NodeKeepsWhole
<1>3. P = [B EXCEPT !.edges = @ \cup {edge}]
  BY DEF _persist_observation, write_edge
<1>4. KnowsEnds(B, edge)
  <2> HIDE DEF B, id
  <2> QED BY <1>2 DEF KnowsEnds
<1> HIDE DEF B, P, edge
<1>5. IsGraph(P) /\ P.nodes = B.nodes /\ P.edges = B.edges \cup {edge}
  BY <1>2, <1>3 DEF IsGraph
<1>6. Whole(P, edges)
  BY <1>2, <1>4, <1>5 DEF Whole, KnowsEnds
<1> QED
  BY <1>5, <1>6 DEF P

LEMMA ClassStart == ClassroomInit => ClassInv
BY DEF ClassroomInit, ClassInv, IsGraph, Whole, EmptyGraph

(* One graph is rewritten, and stays whole with regard to what it owes. *)
LEMMA Rewritten ==
    ASSUME ClassInv, NEW k, NEW G, NEW edges, IsGraph(G), Whole(G, edges),
           graph' = [graph EXCEPT ![k] = G], owed' = [owed EXCEPT ![k] = edges]
    PROVE  ClassInv'
<1>1. graph' = [g \in Graphs |-> graph'[g]] /\ owed' = [g \in Graphs |-> owed'[g]]
  BY DEF ClassInv
<1>2. ASSUME NEW g \in Graphs PROVE IsGraph(graph'[g]) /\ Whole(graph'[g], owed'[g])
  <2>1. CASE g = k
    BY <2>1 DEF ClassInv
  <2>2. CASE g # k
    BY <2>2 DEF ClassInv
  <2> QED
    BY <2>1, <2>2
<1> QED
  BY <1>1, <1>2 DEF ClassInv

LEMMA ClassKept == ClassInv /\ [ClassroomNext]_classroom_vars => ClassInv'
<1> SUFFICES ASSUME ClassInv, [ClassroomNext]_classroom_vars PROVE ClassInv'
  OBVIOUS
<1>1. ASSUME NEW t \in Teachers, BuildTeacher(t) PROVE ClassInv'
  <2>1. PICK k, rubric : 
           /\ k \in {t, Shared, Ambiguous} /\ owed' = owed
           /\ graph' = IF k = Ambiguous THEN graph
                     ELSE [graph EXCEPT ![k] = _ensure_self_nodes(@, t, rubric)]
    BY <1>1 DEF BuildTeacher
  <2>2. CASE graph' = graph
    BY <2>1, <2>2 DEF ClassInv
  <2>3. CASE graph' = [graph EXCEPT ![k] = _ensure_self_nodes(@, t, rubric)] /\ k \in Graphs
    <3>1. graph' = [graph EXCEPT ![k] = _ensure_self_nodes(graph[k], t, rubric)]
      BY <2>3
    <3>2. owed' = [owed EXCEPT ![k] = owed[k]]
      BY <2>1 DEF ClassInv
    <3> QED
      BY <2>3, <3>1, <3>2, Rewritten, SelfNodesKeepWhole DEF ClassInv
  <2> QED
    BY <2>1, <2>2, <2>3 DEF Graphs
<1>2. ASSUME NEW t \in Teachers, NEW s \in Subjects, RecordObservation(t, s) PROVE ClassInv'
  <2> DEFINE k == mount[t]
  <2>1. /\ graph' = [graph EXCEPT ![k] = _persist_observation(graph[k], s, written)]
        /\ owed' = owed /\ k \in Graphs
    BY <1>2 DEF RecordObservation, Ready
  <2>2. owed' = [owed EXCEPT ![k] = owed[k]]
    BY <2>1 DEF ClassInv
  <2> HIDE DEF k
  <2> QED
    BY <2>1, <2>2, Rewritten, ObservationWritten DEF ClassInv
<1>3. ASSUME NEW t \in Teachers, Persist(t) PROVE ClassInv'
  <2> DEFINE k == mount[t]
             s == Head(work[t])
             j == node_id_for_judgement(t, s, written)
             P(r) == _persist_judgement(graph[k], t, s, r, j)
             whole(r) == node_id_for_agent(t) \in DOMAIN P(r).nodes
  <2>1. PICK r \in Rubrics :
          /\ graph' = [graph EXCEPT ![k] = P(r)]
          /\ owed' = [owed EXCEPT ![k] =
                        IF whole(r) THEN @ \cup JudgementEdges(t, s, r, j) ELSE @]
    BY <1>3 DEF Persist
  <2>2. CASE k \in Graphs
    <3> DEFINE e == IF whole(r) THEN owed[k] \cup JudgementEdges(t, s, r, j) ELSE owed[k]
    <3>1. IsGraph(P(r)) /\ Whole(P(r), e)
      BY <2>2, JudgementWritten DEF ClassInv
    <3>2. graph' = [graph EXCEPT ![k] = P(r)] /\ owed' = [owed EXCEPT ![k] = e]
      BY <2>1
    <3> HIDE DEF P, e, k
    <3> QED
      BY <3>1, <3>2, Rewritten
  <2>3. CASE k \notin Graphs
    <3>1. graph' = graph /\ owed' = owed
      <4> HIDE DEF k, P, whole, s, j
      <4> QED BY <2>1, <2>3 DEF ClassInv
    <3> QED
      BY <3>1 DEF ClassInv
  <2> QED
    BY <2>2, <2>3
<1>4. ASSUME NEW k \in Graphs, Delete(k) PROVE ClassInv'
  <2>1. PICK id : 
          /\ graph' = [graph EXCEPT ![k] = delete_node(@, id)]
          /\ owed' = [owed EXCEPT ![k] = {edge \in @ : ~Touches(edge, id)}]
    BY <1>4 DEF Delete
  <2> DEFINE D == delete_node(graph[k], id)
             e == {edge \in owed[k] : ~Touches(edge, id)}
  <2>2. IsGraph(D) /\ Whole(D, e)
    BY DeletionKeepsWhole DEF ClassInv
  <2>3. graph' = [graph EXCEPT ![k] = D] /\ owed' = [owed EXCEPT ![k] = e]
    BY <2>1
  <2> HIDE DEF D, e
  <2> QED
    BY <2>2, <2>3, Rewritten
<1>5. ASSUME NEW k \in Graphs, CloseGraph(k) PROVE ClassInv'
  <2>1. IsGraph(EmptyGraph) /\ Whole(EmptyGraph, {})
    BY DEF EmptyGraph, IsGraph, Whole
  <2> QED
    BY <1>5, <2>1, Rewritten DEF CloseGraph
<1>6. ASSUME UNCHANGED <<graph, owed>> PROVE ClassInv'
  BY <1>6 DEF ClassInv
<1>7. ASSUME NEW t \in Teachers, NEW s \in Subjects, Judge(t, s) PROVE UNCHANGED <<graph, owed>>
  BY <1>7 DEF Judge
<1>8. ASSUME NEW t \in Teachers, Survey(t) \/ JudgeFails(t) PROVE UNCHANGED <<graph, owed>>
  BY <1>8 DEF Survey, JudgeFails
<1> QED
  BY <1>1, <1>2, <1>3, <1>4, <1>5, <1>6, <1>7, <1>8 DEF ClassroomNext, classroom_vars

(* Every judgement a teacher wrote keeps its edges to the teacher, to the  *)
(* subject and to the rubric until one of them is deleted, and no edge     *)
(* hangs in the air, however teachers that share a graph write, delete and *)
(* close it.                                                               *)
THEOREM JudgementsStayWhole == ClassroomSpec => []JudgementsAreWhole
<1>1. ClassInv => JudgementsAreWhole
  BY DEF ClassInv, JudgementsAreWhole, Whole
<1> QED
  BY ClassStart, ClassKept, <1>1, PTL DEF ClassroomSpec
=============================================================================
