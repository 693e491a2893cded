-------------------------------- MODULE Relay --------------------------------
(***************************************************************************)
(* Gateways that translate for a caller, or forward what they translated   *)
(* to another agent and wait for its answer, and humans behind a callback. *)
(* An agent handles one message of its inbox at a time, so gateways that   *)
(* forward to each other wait for each other.                              *)
(***************************************************************************)
EXTENDS SequencesExt

CONSTANTS Gateways, Humans,
          Questions, \* what clients ask: [to, relay_to, code]
          Impatient  \* those whose client may stop waiting

Agents == Gateways \cup Humans
Levels == {"L0", "L1", "L2", "L3"}

ASSUME RelayAssumption ==
    /\ Impatient \subseteq Questions
    /\ \A q \in Questions : q.to \in Agents /\ q.relay_to \in Agents \cup {"none", "garbage"}

VARIABLES asked,   \* the questions that were sent
          box,     \* the inbox of each agent
          doing,   \* the message an agent's handler is at, and where it is
          replies, \* what was published on reply channels, and whether it was heard
          gone,    \* questions whose client has stopped waiting
          level    \* how much each human wants to see

relay_vars == <<asked, box, doing, replies, gone, level>>

Idle == [at |-> "idle"]
NoOne == "none"

(* The message a gateway forwards for a question: its body was translated  *)
(* and names no further target.                                            *)
Forwarded(g, m) == [to |-> m.relay_to, relay_to |-> "none", code |-> m.code, by |-> g, for |-> m]
FromClient(q) == q @@ [by |-> NoOne]

(* A reply is heard by whoever still waits for it. *)
Listens(m) ==
    IF m.by = NoOne THEN \A q \in gone : m # FromClient(q)
    ELSE doing[m.by] = [at |-> "waiting", msg |-> m.for]
ReplyTo(m, answer) ==
    replies' = replies \cup {[to |-> m, answer |-> answer, heard |-> Listens(m)]}

Ask(q) ==
    /\ q \notin asked /\ asked' = asked \cup {q}
    /\ box' = [box EXCEPT ![q.to] = Append(@, FromClient(q))]
    /\ UNCHANGED <<doing, replies, gone, level>>

(* A client waits no longer than the timeout of its own SEND-GET, which    *)
(* may end before that of a gateway that forwarded its question.           *)
Desert(q) ==
    /\ q \in (asked \cap Impatient) \ gone /\ gone' = gone \cup {q}
    /\ ~ \E r \in replies : r.to = FromClient(q) /\ r.heard
    /\ UNCHANGED <<asked, box, doing, replies, level>>

Take(a) ==
    /\ doing[a] = Idle /\ box[a] # <<>>
    /\ doing' = [doing EXCEPT ![a] = [at |-> "handling", msg |-> Head(box[a])]]
    /\ box' = [box EXCEPT ![a] = Tail(@)]
    /\ UNCHANGED <<asked, replies, gone, level>>

Handles(a) == doing[a].at = "handling"
Finish(a, answer) ==
    /\ ReplyTo(doing[a].msg, answer)
    /\ doing' = [doing EXCEPT ![a] = Idle]
    /\ UNCHANGED <<asked, box, gone, level>>

-----------------------------------------------------------------------------
(* Translate and reply.  A translator that raises, and a target that is no *)
(* address or that the engine refuses, are answered with an error.         *)
Translate(g) ==
    /\ Handles(g) /\ doing[g].msg.relay_to = "none"
    /\ \E answer \in {"translated", "error"} : Finish(g, answer)

Reject(g) ==
    /\ Handles(g) /\ doing[g].msg.relay_to # "none"
    /\ Finish(g, "error")

(* The forwarded question is in the target's inbox, and the gateway waits. *)
Forward(g) ==
    /\ Handles(g) /\ doing[g].msg.relay_to \in Agents
    /\ LET m == doing[g].msg IN
       /\ box' = [box EXCEPT ![m.relay_to] = Append(@, Forwarded(g, m))]
       /\ doing' = [doing EXCEPT ![g] = [at |-> "waiting", msg |-> m]]
    /\ UNCHANGED <<asked, replies, gone, level>>

Awaits(g) == doing[g].at = "waiting"
ReplyFor(g) == {r \in replies : r.to = Forwarded(g, doing[g].msg) /\ r.heard}

TranslateBack(g) ==
    /\ Awaits(g)
    /\ \E r \in ReplyFor(g) : \E answer \in {r.answer, "error"} : Finish(g, answer)

(* Mutant: the wait for the target has no end. *)
NeverGiveUp(g) == Awaits(g) /\ FALSE /\ Finish(g, "silence")

(* Thirty seconds without an answer. *)
GiveUp(g) == Awaits(g) /\ ReplyFor(g) = {} /\ Finish(g, "silence")

-----------------------------------------------------------------------------
(* A human is shown a message as the level allows, and answers what was    *)
(* shown, in their own time.                                               *)
_should_display(h, m) == level[h] \in {"L2", "L3"} \/ (level[h] = "L1" /\ m.code # "error")

Ignore(h) ==
    /\ Handles(h) /\ ~_should_display(h, doing[h].msg)
    /\ doing' = [doing EXCEPT ![h] = Idle]
    /\ UNCHANGED <<asked, box, replies, gone, level>>

Type(h) ==
    /\ Handles(h) /\ _should_display(h, doing[h].msg)
    /\ \E answer \in {"typed", "error"} : Finish(h, answer)

-----------------------------------------------------------------------------
RelayInit ==
    /\ asked = {} /\ replies = {} /\ gone = {}
    /\ box = [a \in Agents |-> <<>>] /\ doing = [a \in Agents |-> Idle]
    /\ level \in [Humans -> Levels]

GatewayStep(g) ==
    Take(g) \/ Translate(g) \/ Reject(g) \/ Forward(g) \/ TranslateBack(g) \/ GiveUp(g)
AnyGatewayStep == \E g \in Gateways : GatewayStep(g)
HumanStep == \E h \in Humans : Take(h) \/ Ignore(h) \/ Type(h)
RelayNext == (\E q \in Questions : Ask(q) \/ Desert(q)) \/ AnyGatewayStep \/ HumanStep

-----------------------------------------------------------------------------
(* However gateways forward to one another, and though a human may never   *)
(* answer, for every question a client puts to a gateway a reply is        *)
(* published in the end, whether the client still waits for it or not: no  *)
(* circle of gateways waits for ever.                                      *)
AnswersOf(q) == {r \in replies : r.to = FromClient(q)}
RelaysReturn == \A q \in Questions : q \in asked /\ q.to \in Gateways ~> AnswersOf(q) # {}
=============================================================================
