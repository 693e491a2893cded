--------------------------- MODULE ComputeRegistry ---------------------------
(***************************************************************************)
(* ComputeProviderRegistry: providers, their sentinels for the detection   *)
(* of outages, and the leaves of their menus with the index of them; and   *)
(* the broker's sweep that credits outages.                                *)
(***************************************************************************)
EXTENDS Registry

CONSTANTS Providers, Leaves,
          ProviderOf,    \* [Leaves -> Providers]
          Sweepers,      \* clients that call check_compute_outages
          Nobody         \* the subject of a call about all providers

VARIABLES seen,        \* providers with a last-seen sentinel
          leaves,      \* leaves whose key exists
          index,       \* MENU_LEAF_INDEX
          scan,        \* leaves or providers a client has still to look at
          mine,        \* the leaves a deregistration is going to drop
          at,          \* the leaf or provider a client is looking at
          marks,       \* history: sentinels set for each provider
          reported     \* history: outages reported of each provider

compute_vars == <<seen, leaves, index, scan, mine, at, marks, reported>>
menu_vars == <<leaves, index>>
local_vars == <<scan, mine, at>>
history_vars == <<marks, reported>>

alive_commands == <<"mark", "see">>

RegisterProvider(c, p) ==
    \/ Call(c, p, <<"hset">> \o alive_commands)
    \/ Call(c, p, <<"hset">>)                          \* prove_alive=False
DeregisterProvider(c, p) ==
    \/ Call(c, p, <<"smembers", "leaves", "drop", "hdel", "unmark", "unsee">>)
    \/ Call(c, p, <<"smembers", "leaves", "drop", "hdel", "unmark">>)  \* graceful=False
HeartbeatProvider(c, p) == Call(c, p, <<"hexists">> \o alive_commands)
RegisterLeaf(c, l) ==
    Call(c, ProviderOf[l], <<"parent", "put">>) /\ at' = [at EXCEPT ![c] = l]
DeregisterLeaf(c, l) ==
    Call(c, ProviderOf[l], <<"drop">>) /\ mine' = [mine EXCEPT ![c] = {l}]
ListLeaves(c) == Call(c, Nobody, <<"smembers", "leaves">>)
CheckOutages(c) == c \in Sweepers /\ Call(c, Nobody, <<"hgetall", "providers">>)

ComputeCall(c) ==
    /\ \/ /\ \/ \E p \in Providers :
                  RegisterProvider(c, p) \/ DeregisterProvider(c, p) \/ HeartbeatProvider(c, p)
             \/ ListLeaves(c) \/ CheckOutages(c)
          /\ UNCHANGED <<mine, at>>
       \/ \E l \in Leaves :
            \/ RegisterLeaf(c, l) /\ UNCHANGED mine
            \/ DeregisterLeaf(c, l) /\ UNCHANGED at
    /\ UNCHANGED <<seen, menu_vars, scan, history_vars>>

-----------------------------------------------------------------------------
(* SET and DEL of the sentinel, with no TTL.                               *)
See(c) ==
    /\ At(c, "see") /\ Skip(c)
    /\ seen' = seen \cup {on[c]}
    /\ marks' = [marks EXCEPT ![on[c]] = @ + 1]
    /\ UNCHANGED <<menu_vars, local_vars, reported>>
Unsee(c) ==
    /\ At(c, "unsee") /\ Skip(c)
    /\ seen' = seen \ {on[c]}
    /\ UNCHANGED <<menu_vars, local_vars, history_vars>>

(* register_leaf: a provider that is not there is registered with the      *)
(* leaf, as a live one; the leaf and its index entry are one MULTI.        *)
Parent(c) ==
    /\ At(c, "parent")
    /\ \/ on[c] \in record /\ Skip(c)
       \/ /\ on[c] \notin record
          /\ todo' = [todo EXCEPT ![c] = <<"hset">> \o alive_commands \o Tail(@)]
          /\ UNCHANGED <<on, calls, faults>>
    /\ UNCHANGED compute_vars
Put(c) ==
    /\ At(c, "put") /\ Skip(c)
    /\ leaves' = leaves \cup {at[c]} /\ index' = index \cup {at[c]}
    /\ UNCHANGED <<seen, local_vars, history_vars>>

(* Mutant: the index entry of a dropped leaf is left to the repair.        *)
DropKeyOnly(c) ==
    /\ At(c, "drop")
    /\ \/ mine[c] = {} /\ Skip(c) /\ UNCHANGED <<menu_vars, mine>>
       \/ \E l \in mine[c] :
            /\ leaves' = leaves \ {l} /\ UNCHANGED index
            /\ mine' = [mine EXCEPT ![c] = @ \ {l}] /\ UNCHANGED call_vars
    /\ UNCHANGED <<seen, scan, at, history_vars>>

(* deregister_leaf, for each leaf the call is to drop.                     *)
Drop(c) ==
    /\ At(c, "drop")
    /\ \/ mine[c] = {} /\ Skip(c) /\ UNCHANGED <<menu_vars, mine>>
       \/ \E l \in mine[c] :
            /\ leaves' = leaves \ {l} /\ index' = index \ {l}
            /\ mine' = [mine EXCEPT ![c] = @ \ {l}] /\ UNCHANGED call_vars
    /\ UNCHANGED <<seen, scan, at, history_vars>>

(* list_leaves: SMEMBERS of the index, then GET of each leaf; an entry     *)
(* without a leaf is repaired with an SREM of its own.                     *)
Smembers(c) ==
    /\ At(c, "smembers") /\ Skip(c)
    /\ scan' = [scan EXCEPT ![c] = index]
    /\ UNCHANGED <<seen, menu_vars, mine, at, history_vars>>
GetLeaf(c) ==
    /\ At(c, "leaves")
    /\ \/ scan[c] = {} /\ Skip(c) /\ UNCHANGED local_vars
       \/ \E l \in scan[c] :
            /\ scan' = [scan EXCEPT ![c] = @ \ {l}]
            /\ IF l \in leaves
               THEN /\ mine' = [mine EXCEPT ![c] = IF ProviderOf[l] = on[c] THEN @ \cup {l} ELSE @]
                    /\ UNCHANGED <<at, call_vars>>
               ELSE /\ at' = [at EXCEPT ![c] = l]
                    /\ todo' = [todo EXCEPT ![c] = <<"srem">> \o @]
                    /\ UNCHANGED <<mine, on, calls, faults>>
    /\ UNCHANGED <<seen, menu_vars, history_vars>>
Srem(c) ==
    /\ At(c, "srem") /\ Skip(c)
    /\ index' = index \ {at[c]}
    /\ UNCHANGED <<seen, leaves, local_vars, history_vars>>

-----------------------------------------------------------------------------
(* check_compute_outages: the providers of the hash, one after the other.  *)
Hgetall(c) ==
    /\ At(c, "hgetall") /\ Skip(c)
    /\ scan' = [scan EXCEPT ![c] = record \cap Providers]
    /\ UNCHANGED <<seen, menu_vars, mine, at, history_vars>>

(* detect_outage gathers two EXISTS, which may reach Redis in either order. *)
NextProvider(c) ==
    /\ At(c, "providers")
    /\ \/ scan[c] = {} /\ Skip(c) /\ UNCHANGED local_vars
       \/ \E p \in scan[c] :
            /\ scan' = [scan EXCEPT ![c] = @ \ {p}]
            /\ at' = [at EXCEPT ![c] = p]
            /\ \E checks \in {<<"seen", "alive">>, <<"alive", "seen">>} :
                 todo' = [todo EXCEPT ![c] = checks \o <<"clear", "blame">> \o @]
            /\ UNCHANGED <<mine, on, calls, faults>>
    /\ UNCHANGED <<seen, menu_vars, history_vars>>
CheckMark(c) ==
    /\ At(c, "seen") \/ At(c, "alive")
    /\ IF IF At(c, "seen") THEN at[c] \in seen ELSE at[c] \notin alive
       THEN Skip(c)
       ELSE todo' = [todo EXCEPT ![c] = <<"providers">>] /\ UNCHANGED <<on, calls, faults>>
    /\ UNCHANGED compute_vars

(* Mutant: the sentinel of a counted outage is not cleared.                *)
ClearNothing(c) ==
    /\ At(c, "clear") /\ Skip(c)
    /\ UNCHANGED compute_vars

Clear(c) ==
    /\ At(c, "clear") /\ Skip(c)
    /\ seen' = seen \ {at[c]}
    /\ UNCHANGED <<menu_vars, local_vars, history_vars>>
(* record_outcome with a timeout, and the provider is in the list returned. *)
Blame(c) ==
    /\ At(c, "blame") /\ Skip(c)
    /\ reported' = [reported EXCEPT ![at[c]] = @ + 1]
    /\ UNCHANGED <<seen, menu_vars, local_vars, marks>>

ComputeStep(c) ==
    /\ on[c] \in Providers \cup {Nobody}
    /\ \/ Command(c) /\ UNCHANGED compute_vars
       \/ /\ \/ See(c) \/ Unsee(c) \/ Parent(c) \/ Put(c) \/ Drop(c)
             \/ Smembers(c) \/ GetLeaf(c) \/ Srem(c)
             \/ Hgetall(c) \/ NextProvider(c) \/ CheckMark(c) \/ Clear(c) \/ Blame(c)
          /\ UNCHANGED <<record, alive>>

-----------------------------------------------------------------------------
(* detect_outage: "a single outage is only reported once": between two     *)
(* reports the provider has proven itself alive again.                     *)
OutagesReportedOnce == \A p \in Providers : reported[p] <= marks[p]

(* The index names no leaf that is gone: a deregistered leaf is not even   *)
(* looked up again, however its provider goes and its menu is repaired.    *)
IndexNamesLeaves == index \subseteq leaves
=============================================================================
