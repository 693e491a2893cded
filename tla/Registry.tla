------------------------------ MODULE Registry ------------------------------
(***************************************************************************)
(* What the registries of servers, agents and compute providers have in    *)
(* common: a hash of records, a liveness key with a TTL per entity, and    *)
(* methods that are lists of Redis commands with an await at each.  Every  *)
(* client runs one call at a time; calls of different clients interleave   *)
(* at every command.                                                       *)
(***************************************************************************)
EXTENDS Naturals, Sequences, FiniteSets

CONSTANTS Clients,     \* coroutines calling the registries
          Entities,    \* servers, agents and providers
          MaxCalls,    \* bound of the model: [Clients -> Nat], calls of each
          MaxFaults    \* bound of the model: calls that raise or die half-way

VARIABLES record,      \* entities with an entry in their registry's hash
          alive,       \* entities whose liveness key exists
          on,          \* what each client's call is about
          todo,        \* the commands its call has still to issue
          calls,       \* calls each client began
          faults

call_vars == <<on, todo, calls, faults>>

Call(c, e, commands) ==
    /\ todo[c] = <<>> /\ calls[c] < MaxCalls[c]
    /\ on' = [on EXCEPT ![c] = e]
    /\ todo' = [todo EXCEPT ![c] = commands]
    /\ calls' = [calls EXCEPT ![c] = @ + 1]
    /\ UNCHANGED <<record, alive, faults>>

At(c, command) == todo[c] # <<>> /\ Head(todo[c]) = command
Proceed(c) == todo' = [todo EXCEPT ![c] = Tail(@)]
Skip(c) == Proceed(c) /\ UNCHANGED <<on, calls, faults>>
Return(c) == todo' = [todo EXCEPT ![c] = <<>>] /\ UNCHANGED <<on, calls, faults>>

(* An await raises, or the process dies: the rest of the call is not done. *)
Raise(c) ==
    /\ todo[c] # <<>> /\ faults < MaxFaults
    /\ faults' = faults + 1
    /\ todo' = [todo EXCEPT ![c] = <<>>]
    /\ UNCHANGED <<record, alive, on, calls>>

-----------------------------------------------------------------------------
(* HSET, HDEL and HEXISTS of the record; without it the call returns False. *)
Hset(c) == At(c, "hset") /\ record' = record \cup {on[c]} /\ UNCHANGED alive /\ Skip(c)
Hdel(c) == At(c, "hdel") /\ record' = record \ {on[c]} /\ UNCHANGED alive /\ Skip(c)
Hexists(c) ==
    /\ At(c, "hexists")
    /\ IF on[c] \in record THEN Skip(c) ELSE Return(c)
    /\ UNCHANGED <<record, alive>>

(* SET with EX, and DEL, of the liveness key. *)
Mark(c) == At(c, "mark") /\ alive' = alive \cup {on[c]} /\ UNCHANGED record /\ Skip(c)
Unmark(c) == At(c, "unmark") /\ alive' = alive \ {on[c]} /\ UNCHANGED record /\ Skip(c)

Command(c) == Hset(c) \/ Hdel(c) \/ Hexists(c) \/ Mark(c) \/ Unmark(c)

(* The TTL of a liveness key runs out. *)
Expire(e) ==
    /\ e \in alive
    /\ alive' = alive \ {e}
    /\ UNCHANGED <<record, call_vars>>
=============================================================================
