------------------------------ MODULE AgentBase ------------------------------
(***************************************************************************)
(* AHPAgent: an agent registers, consumes its inbox and answers; a second  *)
(* task keeps its liveness key alive.  A handler that raises answers with  *)
(* an error, and no failure ends the loop.                                 *)
(***************************************************************************)
EXTENDS Engine

CONSTANT Restarts  \* bound of the model: times an agent starts

VARIABLES doing,   \* "stopped", "idle", or what its consumer task does next
          answer,  \* the answer it is sending
          starts

agent_vars == <<doing, answer, starts>>
NoAnswer == [id |-> "none", by |-> "none", thread |-> "none", error |-> FALSE]
Answers(a, m) == {[m EXCEPT !.by = a, !.error = e] : e \in BOOLEAN}

Become(a, what) == doing' = [doing EXCEPT ![a] = what]
EngineIdle == UNCHANGED <<pc, audit, call_vars>>

Register(a) ==
    /\ a \notin registered /\ doing[a] = "stopped" /\ starts[a] < Restarts
    /\ registered' = registered \cup {a} /\ alive' = alive \cup {a}
    /\ UNCHANGED <<bus_vars, agent_vars>> /\ EngineIdle

Start(a) ==
    /\ doing[a] = "stopped" /\ starts[a] < Restarts
    /\ starts' = [starts EXCEPT ![a] = @ + 1]
    /\ Subscribe(a, agent_channel(a))
    /\ Become(a, "idle")
    /\ UNCHANGED <<registry_vars, answer>> /\ EngineIdle

(* stop() or a crash, at any await; what the inbox holds is lost. *)
Stop(a) ==
    /\ doing[a] # "stopped" /\ faults < MaxFaults
    /\ faults' = faults + 1
    /\ Become(a, "stopped") /\ Unsubscribe(a)
    /\ answer' = [answer EXCEPT ![a] = NoAnswer]
    /\ UNCHANGED <<stream, registry_vars, starts>> /\ EngineIdle

Deregister(a) ==
    /\ a \in registered /\ doing[a] = "stopped"
    /\ registered' = registered \ {a} /\ alive' = alive \ {a}
    /\ UNCHANGED <<bus_vars, agent_vars>> /\ EngineIdle

Expire(a) ==
    /\ a \in alive /\ faults < MaxFaults
    /\ faults' = faults + 1
    /\ alive' = alive \ {a}
    /\ UNCHANGED <<stream, channel, frames, registered, agent_vars>> /\ EngineIdle

Heartbeat(a) ==
    /\ doing[a] # "stopped" /\ a \in registered \ alive
    /\ alive' = alive \cup {a}
    /\ UNCHANGED <<bus_vars, registered, agent_vars>> /\ EngineIdle

-----------------------------------------------------------------------------
(* The next frame of the inbox; handle_message returns an answer, raises,  *)
(* or returns None; without a reply channel its answer goes nowhere.       *)
Receive(a) ==
    /\ doing[a] = "idle"
    /\ \E m \in Range(frames[a]) :
         /\ Read(a, m)
         /\ \/ UNCHANGED <<doing, answer>>
            \/ /\ m # Confirmation /\ M(m.id).verb \in Gets
               /\ \E r \in Answers(a, m) : answer' = [answer EXCEPT ![a] = r]
               /\ Become(a, "append")
    /\ UNCHANGED <<stream, channel, faults, registry_vars, starts>> /\ EngineIdle

(* send_reply: the thread first, then the requester, then the tap. *)
AppendAnswer(a) ==
    /\ doing[a] = "append"
    /\ append_thread(answer[a])
    /\ Become(a, "publish")
    /\ UNCHANGED <<channel, frames, faults, registry_vars, answer, starts>> /\ EngineIdle

PublishAnswer(a) ==
    /\ doing[a] = "publish"
    /\ Publish(reply_channel(answer[a].id), answer[a])
    /\ Become(a, "tap")
    /\ UNCHANGED <<stream, channel, faults, registry_vars, answer, starts>> /\ EngineIdle

TapAnswer(a) ==
    /\ doing[a] = "tap"
    /\ Tap(answer[a])
    /\ Become(a, "idle") /\ answer' = [answer EXCEPT ![a] = NoAnswer]
    /\ UNCHANGED <<stream, channel, registry_vars, starts>> /\ EngineIdle

(* A failure of send_reply is suppressed. *)
ReplyFails(a) ==
    /\ doing[a] \in {"append", "publish"} /\ faults < MaxFaults
    /\ faults' = faults + 1
    /\ Become(a, "idle") /\ answer' = [answer EXCEPT ![a] = NoAnswer]
    /\ UNCHANGED <<stream, channel, frames, registry_vars, starts>> /\ EngineIdle

Consume(a) == Receive(a) \/ AppendAnswer(a) \/ PublishAnswer(a) \/ TapAnswer(a)
Live(a) ==
    \/ Register(a) \/ Start(a) \/ Stop(a) \/ Deregister(a)
    \/ Expire(a) \/ Heartbeat(a) \/ ReplyFails(a)
=============================================================================
