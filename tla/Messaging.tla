------------------------------ MODULE Messaging ------------------------------
(***************************************************************************)
(* Calls of an engine, the agents that answer them and the Redis between   *)
(* them: channels that forget, streams and cached answers that do not.     *)
(***************************************************************************)
EXTENDS AgentBase

CONSTANT Workloads   \* bound of the model: sets of calls that happen together

ASSUME MessagingAssumption ==
    /\ Agents \cap Calls = {} /\ IsFiniteSet(Agents)
    /\ AddressOf \in [Agents -> {AddressOf[a] : a \in Agents}]
    /\ \A a \in Agents : ValidAddress(At(a))
    /\ \A c \in Calls : ValidMessage(M(c)) /\ M(c).code \in AllCodes \cup {<<Wildcard>>}
    /\ \A f \in DOMAIN Formats : ValidFormat(Formats[f])
    /\ MaxAnswers \in [Calls -> Nat] /\ MaxFaults \in Nat /\ Restarts \in Nat
    /\ Workloads \subseteq SUBSET Calls

Made == DOMAIN pc  \* the calls of this behaviour
vars == <<bus_vars, registry_vars, pc, audit, call_vars, agent_vars>>

Threads == {M(c).thread : c \in Calls}

InitOf(w) ==
    /\ channel = [l \in Agents \cup w |-> IF l \in Agents THEN agent_channel(l) ELSE NoChannel]
    /\ frames = [l \in Agents \cup w |-> <<>>]
    /\ pc = [c \in w |-> "new"]
    /\ ahead = [c \in w |-> {}] /\ targets = [c \in w |-> {}]
    /\ scan = [c \in w |-> {}] /\ doomed = [c \in w |-> {}] /\ before = [c \in w |-> {}]
    /\ got = [c \in w |-> <<>>]

Init ==
    /\ \E w \in Workloads : InitOf(w)
    /\ stream = [t \in Threads |-> <<>>] /\ audit = {} /\ cache = <<>>
    /\ faults = 0 /\ registered = Agents /\ alive = Agents
    /\ doing = [a \in Agents |-> "idle"] /\ answer = [a \in Agents |-> NoAnswer]
    /\ starts = [a \in Agents |-> 0]

Next ==
    \/ \E c \in Made : (CallStep(c) \/ Observe(c) \/ Fail(c)) /\ UNCHANGED agent_vars
    \/ \E a \in Agents : Consume(a) \/ Live(a)
    \/ /\ ExpireKey
       /\ UNCHANGED <<registry_vars, pc, audit, to_vars, got, scan, doomed, before, agent_vars>>

(* The event loop runs a call that is ready, and a wait has a deadline. *)
Fairness == WF_vars((\E c \in Made : CallStep(c)) /\ UNCHANGED agent_vars)

Spec == Init /\ [][Next]_vars /\ Fairness

-----------------------------------------------------------------------------
(* The thread is written before the wire, by requesters and responders: a  *)
(* reader of the history finds every answer after its question, whatever   *)
(* was lost or came late.                                                  *)
AnswersFollowQuestions ==
    \A t \in Threads : \A i \in DOMAIN stream[t] :
      stream[t][i].by # "caller" =>
        \E j \in 1..(i - 1) : stream[t][j] = Request(stream[t][i].id)

(* What a call returns answers its own question: a reply of an agent it    *)
(* was sent to, no more than it asked for, or, from the cache, a reply to  *)
(* a call with the same target, code and body, whoever made that.          *)
AnswersFitTheQuestion ==
    \A c \in Made : M(c).verb \in Gets =>
      /\ Len(got[c]) <= IF targets[c] = {} THEN 1 ELSE Limit(c)
      /\ \A i \in DOMAIN got[c] :
           \/ got[c][i].id = c /\ got[c][i].by \in targets[c]
           \/ /\ M(c).verb = "SEND-GET"
              /\ M(got[c][i].id).target = M(c).target
              /\ M(got[c][i].id).code = M(c).code /\ M(got[c][i].id).body = M(c).body

(* No agent is handed a request that it cannot take or that the policy     *)
(* keeps from it, whichever verb sent it, while broadcasts resolve their   *)
(* targets agent by agent and agents come and go.                          *)
DeliveredWithinPolicy ==
    \A a \in Agents : \A i \in DOMAIN frames[a] :
      LET m == frames[a][i]
      IN m # Confirmation =>
           /\ Permits(Rules, M(m.id).source, At(a), M(m.id).code)
           /\ IsPattern(M(m.id).target) => Matches(M(m.id).target, At(a))

(* When an INVALIDATE has returned, no answer that was cached when it      *)
(* began and that it matches is cached, whatever was put, deleted or ran   *)
(* out meanwhile.                                                          *)
InvalidationHolds ==
    \A c \in Made :
      pc[c] = "returned" /\ M(c).verb = "INVALIDATE" =>
        \A e \in before[c] :
          Matches(M(c).target, e[1][1]) /\ M(c).params \subseteq e[1][1].params =>
            ~(e[1] \in DOMAIN cache /\ cache[e[1]] = e[2])

(* Every call returns or raises, with agents that stop, answers that are   *)
(* lost and confirmations that come late.                                  *)
CallsEnd == <>[](\A c \in Made : pc[c] \in {"returned", "raised"})
=============================================================================
