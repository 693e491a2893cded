----------------------------- MODULE Registries -----------------------------
(***************************************************************************)
(* The broker's three registries in one Redis, called concurrently.        *)
(***************************************************************************)
EXTENDS AgentRegistry, ComputeRegistry

CONSTANTS Servers,
          Does        \* bound of the model: [Clients -> SUBSET Entities \cup {Nobody}]

ASSUME RegistriesAssumption ==
    /\ Entities = Servers \cup Agents \cup Providers
    /\ Servers \cap Agents = {} /\ Servers \cap Providers = {} /\ Agents \cap Providers = {}
    /\ Nobody \notin Entities
    /\ ProviderOf \in [Leaves -> Providers]
    /\ Claims \in [Clients -> SUBSET Agents]
    /\ Deltas \subseteq Int /\ MaxReputation \in Nat /\ MaxTries \in Nat \ {0}
    /\ MaxCalls \in [Clients -> Nat] /\ MaxFaults \in Nat
    /\ Sweepers \subseteq Clients

(* ServerRegistry: the directory of servers. *)
RegisterServer(c, s) == Call(c, s, <<"hset", "mark">>)
DeregisterServer(c, s) == Call(c, s, <<"hdel", "unmark">>)
HeartbeatServer(c, s) == Call(c, s, <<"hexists", "mark">>)

ServerCall(c) ==
    \E s \in Servers : RegisterServer(c, s) \/ DeregisterServer(c, s) \/ HeartbeatServer(c, s)
ServerStep(c) == on[c] \in Servers /\ Command(c)

vars == <<record, alive, call_vars, agent_vars, compute_vars>>

Init ==
    /\ record = {} /\ alive = {} /\ seen = {} /\ leaves = {} /\ index = {} /\ touched = {}
    /\ on = [c \in Clients |-> Nobody] /\ at = [c \in Clients |-> Nobody]
    /\ todo = [c \in Clients |-> <<>>]
    /\ scan = [c \in Clients |-> {}] /\ mine = [c \in Clients |-> {}]
    /\ calls = [c \in Clients |-> 0] /\ faults = 0
    /\ reputation = [a \in Agents |-> 0]
    /\ nudge = [c \in Clients |-> 0] /\ next = [c \in Clients |-> 0]
    /\ tries = [c \in Clients |-> 0]
    /\ marks = [p \in Providers |-> 0] /\ reported = [p \in Providers |-> 0]

Begin(c) ==
    \/ ServerCall(c) /\ UNCHANGED <<agent_vars, compute_vars>>
    \/ AgentCall(c) /\ UNCHANGED compute_vars
    \/ ComputeCall(c) /\ UNCHANGED agent_vars

Step(c) ==
    \/ ServerStep(c) /\ UNCHANGED <<agent_vars, compute_vars>>
    \/ AgentStep(c) /\ UNCHANGED compute_vars
    \/ ComputeStep(c) /\ UNCHANGED agent_vars

Next ==
    \/ \E c \in Clients : Begin(c) /\ on'[c] \in Does[c]
    \/ \E c \in Clients : Step(c)
    \/ \E c \in Clients : Raise(c) /\ UNCHANGED <<agent_vars, compute_vars>>
    \/ \E e \in Entities : Expire(e) /\ UNCHANGED <<agent_vars, compute_vars>>

Spec == Init /\ [][Next]_vars
=============================================================================
