---------------------------- MODULE AgentRegistry ----------------------------
(***************************************************************************)
(* AgentRegistry: the directory of agents.  A policy decides which clients *)
(* may change which agents; a reputation is a part of the record that the  *)
(* settlements of many calls nudge concurrently.                           *)
(***************************************************************************)
EXTENDS Registry, Integers

CONSTANTS Agents,
          Claims,        \* [Clients -> SUBSET Agents]: what the policy lets each change
          Deltas,        \* nudges of a reputation, in units of the smallest
          MaxReputation, \* a reputation of 1.0 in these units
          MaxTries       \* rounds of the optimistic loop of update_reputation

VARIABLES reputation,  \* [Agents -> 0..MaxReputation], of the agents with a record
          nudge,       \* the delta a client's update_reputation is to add
          next,        \* the reputation it is going to write
          touched,     \* clients whose watched key was written since
          tries        \* rounds left

agent_vars == <<reputation, nudge, next, touched, tries>>

Clamp(r) == IF r < 0 THEN 0 ELSE IF r > MaxReputation THEN MaxReputation ELSE r

(* Each method consults the policy before it does anything. *)
Permitted(c, a) == a \in Claims[c]

RegisterAgent(c, a) ==
    /\ Permitted(c, a)
    /\ \/ Call(c, a, <<"hset", "mark">>)
       \/ Call(c, a, <<"hset">>)                      \* mark_alive=False
HideAgent(c, a) == Permitted(c, a) /\ Call(c, a, <<"hexists", "unmark">>)
DeregisterAgent(c, a) == Permitted(c, a) /\ Call(c, a, <<"hdel", "unmark">>)
HeartbeatAgent(c, a) == Permitted(c, a) /\ Call(c, a, <<"hexists", "mark">>)

UpdateReputation(c, a) ==
    /\ Call(c, a, <<"watch", "hget", "exec">>)
    /\ \E d \in Deltas : nudge' = [nudge EXCEPT ![c] = d]
    /\ tries' = [tries EXCEPT ![c] = MaxTries]

AgentCall(c) ==
    \E a \in Agents :
      \/ /\ RegisterAgent(c, a) \/ HideAgent(c, a) \/ DeregisterAgent(c, a) \/ HeartbeatAgent(c, a)
         /\ UNCHANGED agent_vars
      \/ UpdateReputation(c, a) /\ UNCHANGED <<reputation, next, touched>>

-----------------------------------------------------------------------------
(* One hash holds all agents: a write of any record touches every watcher. *)
Overwrite(c) ==
    /\ reputation' = IF At(c, "hset") THEN [reputation EXCEPT ![on[c]] = 0] ELSE reputation
    /\ touched' = IF At(c, "hset") \/ At(c, "hdel") THEN Clients ELSE touched
    /\ UNCHANGED <<nudge, next, tries>>

Watch(c) ==
    /\ At(c, "watch")
    /\ touched' = touched \ {c}
    /\ Skip(c)
    /\ UNCHANGED <<record, alive, reputation, nudge, next, tries>>

(* Without a record: unwatch and return None. *)
Hget(c) ==
    /\ At(c, "hget")
    /\ \/ on[c] \notin record /\ Return(c) /\ UNCHANGED next
       \/ /\ on[c] \in record /\ Skip(c)
          /\ next' = [next EXCEPT ![c] = Clamp(reputation[on[c]] + nudge[c])]
    /\ UNCHANGED <<record, alive, reputation, nudge, touched, tries>>

(* Mutant: EXEC writes although the hash has changed. *)
ExecAlways(c) ==
    /\ At(c, "exec")
    /\ record' = record \cup {on[c]}
    /\ reputation' = [reputation EXCEPT ![on[c]] = next[c]]
    /\ touched' = Clients /\ Return(c)
    /\ UNCHANGED <<alive, nudge, next, tries>>

(* MULTI, HSET, EXEC; a lost race is a WatchError of redis-py, or a None   *)
(* that the loop takes for a reason to try again.                          *)
Exec(c) ==
    /\ At(c, "exec")
    /\ \/ /\ c \notin touched
          /\ record' = record \cup {on[c]}
          /\ reputation' = [reputation EXCEPT ![on[c]] = next[c]]
          /\ touched' = Clients
          /\ Return(c)
          /\ UNCHANGED tries
       \/ /\ c \in touched
          /\ \/ Return(c) /\ UNCHANGED tries
             \/ /\ tries[c] > 1
                /\ tries' = [tries EXCEPT ![c] = @ - 1]
                /\ todo' = [todo EXCEPT ![c] = <<"watch", "hget", "exec">>]
                /\ UNCHANGED <<on, calls, faults>>
          /\ UNCHANGED <<record, reputation, touched>>
    /\ UNCHANGED <<alive, nudge, next>>

AgentStep(c) ==
    /\ on[c] \in Agents
    /\ \/ Command(c) /\ Overwrite(c)
       \/ Watch(c) \/ Hget(c) \/ Exec(c)

-----------------------------------------------------------------------------
(* update_reputation, "so concurrent settlements against the same agent    *)
(* don't lose each other's nudges": whoever registers, hides or removes    *)
(* agents meanwhile, a nudge that is stored is one of the value it         *)
(* replaces, so none that was stored is overwritten by another; otherwise  *)
(* a reputation starts over with a registration, and only a registration   *)
(* brings an agent (back) into the directory.  A nudge that loses its race *)
(* leaves with WatchError and is dropped (see Exec).                       *)
NudgesBuildOnEachOther ==
    [][\A a \in Agents :
         LET Registering == \E c \in Clients : on[c] = a /\ At(c, "hset")
             Nudging == \E c \in Clients :
                          on[c] = a /\ reputation'[a] = Clamp(reputation[a] + nudge[c])
         IN /\ reputation'[a] # reputation[a] => Registering \/ Nudging
            /\ a \in record' \ record => Registering]_<<reputation, record>>
=============================================================================
