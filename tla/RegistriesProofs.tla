-------------------------- MODULE RegistriesProofs --------------------------
(***************************************************************************)
(* What TLAPS proves of Registries, for any number of clients, entities,   *)
(* leaves and calls.  What a client may do next is known from the commands *)
(* its call has still to issue, and there are three kinds of calls: those  *)
(* that only touch records, keys and leaves, the optimistic nudges of a    *)
(* reputation, and the sweeps that look for outages.                       *)
(***************************************************************************)
EXTENDS Registries, SequenceTheorems, TLAPS

Plain == {"hset", "mark", "hdel", "unmark", "hexists", "see", "unsee", "smembers", "leaves",
          "drop", "parent", "put", "srem"}

Nudge3 == <<"watch", "hget", "exec">>
Nudge2 == <<"hget", "exec">>
Nudge1 == <<"exec">>

Listing == <<"hgetall", "providers">>
Looking == <<"providers">>
Blaming == <<"blame", "providers">>
Clearing == <<"clear", "blame", "providers">>
ThenSeen == <<"seen", "clear", "blame", "providers">>
ThenAlive == <<"alive", "clear", "blame", "providers">>
SeenFirst == <<"seen", "alive", "clear", "blame", "providers">>
AliveFirst == <<"alive", "seen", "clear", "blame", "providers">>

(* A sweep that has found the sentinel of a provider and will blame it. *)
Charging == {ThenAlive, Clearing, Blaming}
Checking == Charging \cup {ThenSeen, SeenFirst, AliveFirst}

Shape(c) ==
    \/ todo[c] \in Seq(Plain)
    \/ todo[c] \in {Nudge3, Nudge2, Nudge1}
    \/ c \in Sweepers /\ todo[c] = Listing
    \/ c \in Sweepers /\ todo[c] = Looking /\ scan[c] \subseteq Providers
    \/ c \in Sweepers /\ todo[c] \in Checking /\ scan[c] \subseteq Providers /\ at[c] \in Providers

Functions ==
    /\ todo = [c \in Clients |-> todo[c]]
    /\ scan = [c \in Clients |-> scan[c]] /\ at = [c \in Clients |-> at[c]]
    /\ on = [c \in Clients |-> on[c]] /\ next = [c \in Clients |-> next[c]]
    /\ nudge = [c \in Clients |-> nudge[c]]
    /\ reputation = [a \in Agents |-> reputation[a]]
    /\ marks \in [Providers -> Nat] /\ reported \in [Providers -> Nat]

RegistryTyped == Functions /\ \A c \in Clients : Shape(c)

-----------------------------------------------------------------------------
LEMMA Heads ==
  /\ \A s \in Seq(Plain) : s # <<>> => Head(s) \in Plain /\ Tail(s) \in Seq(Plain)
  /\ Head(Nudge3) = "watch" /\ Tail(Nudge3) = Nudge2 /\ Nudge3 # <<>>
  /\ Head(Nudge2) = "hget" /\ Tail(Nudge2) = Nudge1 /\ Nudge2 # <<>>
  /\ Head(Nudge1) = "exec" /\ Tail(Nudge1) = <<>> /\ Nudge1 # <<>>
  /\ Head(Listing) = "hgetall" /\ Tail(Listing) = Looking /\ Listing # <<>>
  /\ Head(Looking) = "providers" /\ Tail(Looking) = <<>> /\ Looking # <<>>
  /\ Head(Blaming) = "blame" /\ Tail(Blaming) = Looking /\ Blaming # <<>>
  /\ Head(Clearing) = "clear" /\ Tail(Clearing) = Blaming /\ Clearing # <<>>
  /\ Head(ThenSeen) = "seen" /\ Tail(ThenSeen) = Clearing /\ ThenSeen # <<>>
  /\ Head(ThenAlive) = "alive" /\ Tail(ThenAlive) = Clearing /\ ThenAlive # <<>>
  /\ Head(SeenFirst) = "seen" /\ Tail(SeenFirst) = ThenAlive /\ SeenFirst # <<>>
  /\ Head(AliveFirst) = "alive" /\ Tail(AliveFirst) = ThenSeen /\ AliveFirst # <<>>
  /\ <<>> \in Seq(Plain)
<1>1. \A s \in Seq(Plain) : s # <<>> => Head(s) \in Plain /\ Tail(s) \in Seq(Plain)
  OBVIOUS
<1>2. <<>> \in Seq(Plain)
  OBVIOUS
<1> QED BY <1>1, <1>2 DEF Nudge3, Nudge2, Nudge1, Listing, Looking, Blaming, Clearing, ThenSeen,
           ThenAlive, SeenFirst, AliveFirst

LEMMA PlainLists ==
  /\ \A s \in Seq(Plain) : <<"srem">> \o s \in Seq(Plain)
                         /\ <<"hset">> \o alive_commands \o s \in Seq(Plain)
  /\ <<"hset">> \o alive_commands \in Seq(Plain) /\ <<"hexists">> \o alive_commands \in Seq(Plain)
<1>1. <<"srem">> \in Seq(Plain) /\ <<"hset">> \in Seq(Plain) /\ <<"hexists">> \in Seq(Plain)
      /\ alive_commands \in Seq(Plain)
  BY DEF Plain, alive_commands
<1>2. \A s, t \in Seq(Plain) : s \o t \in Seq(Plain)
  OBVIOUS
<1> QED BY <1>1, <1>2

LEMMA JoinPairs ==
  ASSUME NEW a, NEW b, NEW c, NEW d, NEW e
  PROVE  <<a, b>> \o <<c, d>> \o <<e>> = <<a, b, c, d, e>>
<1> DEFINE S == {a, b, c, d, e}
           l == <<a, b>> \o <<c, d>> \o <<e>>
           r == <<a, b, c, d, e>>
<1>1. <<a, b>> \in Seq(S) /\ <<c, d>> \in Seq(S) /\ <<e>> \in Seq(S) /\ r \in Seq(S)
  OBVIOUS
<1>2. <<a, b>> \o <<c, d>> \in Seq(S) /\ Len(<<a, b>> \o <<c, d>>) = 4
  BY <1>1
<1>3. l \in Seq(S) /\ Len(l) = 5 /\ Len(r) = 5
  BY <1>1, <1>2
<1>4. l[1] = a /\ l[2] = b /\ l[3] = c /\ l[4] = d /\ l[5] = e
  BY <1>1, <1>2
<1>5. r[1] = a /\ r[2] = b /\ r[3] = c /\ r[4] = d /\ r[5] = e
  OBVIOUS
<1>6. \A i \in 1..5 : l[i] = r[i]
  BY <1>4, <1>5
<1> QED BY <1>1, <1>3, <1>6, SeqEqual

LEMMA BeginList ==
  ASSUME NEW c \in Clients, Begin(c)
  PROVE  \E e, list : /\ Call(c, e, list)
                     /\ \/ list \in Seq(Plain) \/ list = Nudge3
                        \/ list = Listing /\ c \in Sweepers
<1>1. CASE ServerCall(c)
  <2>1. <<"hset", "mark">> \in Seq(Plain) /\ <<"hdel", "unmark">> \in Seq(Plain)
        /\ <<"hexists", "mark">> \in Seq(Plain)
    BY DEF Plain
  <2> QED BY <1>1, <2>1 DEF ServerCall, RegisterServer, DeregisterServer, HeartbeatServer
<1>2. CASE AgentCall(c)
  <2>1. <<"hset", "mark">> \in Seq(Plain) /\ <<"hset">> \in Seq(Plain)
        /\ <<"hdel", "unmark">> \in Seq(Plain) /\ <<"hexists", "unmark">> \in Seq(Plain)
        /\ <<"hexists", "mark">> \in Seq(Plain)
    BY DEF Plain
  <2> QED BY <1>2, <2>1 DEF AgentCall, RegisterAgent, HideAgent, DeregisterAgent, HeartbeatAgent,
                            UpdateReputation, Nudge3
<1>3. CASE ComputeCall(c)
  <2>1. <<"hset">> \in Seq(Plain)
        /\ <<"smembers", "leaves", "drop", "hdel", "unmark", "unsee">> \in Seq(Plain)
        /\ <<"smembers", "leaves", "drop", "hdel", "unmark">> \in Seq(Plain)
        /\ <<"parent", "put">> \in Seq(Plain) /\ <<"drop">> \in Seq(Plain)
        /\ <<"smembers", "leaves">> \in Seq(Plain)
    BY DEF Plain
  <2> QED BY <1>3, <2>1, PlainLists
             DEF ComputeCall, RegisterProvider, DeregisterProvider, HeartbeatProvider, RegisterLeaf,
                 DeregisterLeaf, ListLeaves, CheckOutages, Listing
<1> QED BY <1>1, <1>2, <1>3 DEF Begin

LEMMA BeginShape ==
  ASSUME Functions, NEW c \in Clients, Begin(c)
  PROVE  Shape(c)'
<1>1. PICK e, list : /\ Call(c, e, list)
                     /\ \/ list \in Seq(Plain) \/ list = Nudge3
                        \/ list = Listing /\ c \in Sweepers
  BY BeginList
<1>2. todo'[c] = list
  BY <1>1 DEF Call, Functions
<1> QED BY <1>1, <1>2 DEF Shape

(* Each command is the first of its client's list. *)
LEMMA FirstCommands ==
  ASSUME NEW c \in Clients
  PROVE  /\ Hset(c) => At(c, "hset")
         /\ Hdel(c) => At(c, "hdel")
         /\ Hexists(c) => At(c, "hexists")
         /\ Mark(c) => At(c, "mark")
         /\ Unmark(c) => At(c, "unmark")
         /\ Watch(c) => At(c, "watch")
         /\ Hget(c) => At(c, "hget")
         /\ Exec(c) => At(c, "exec")
         /\ See(c) => At(c, "see")
         /\ Unsee(c) => At(c, "unsee")
         /\ Parent(c) => At(c, "parent")
         /\ Put(c) => At(c, "put")
         /\ Drop(c) => At(c, "drop")
         /\ Smembers(c) => At(c, "smembers")
         /\ GetLeaf(c) => At(c, "leaves")
         /\ Srem(c) => At(c, "srem")
         /\ Hgetall(c) => At(c, "hgetall")
         /\ NextProvider(c) => At(c, "providers")
         /\ CheckMark(c) => At(c, "seen") \/ At(c, "alive")
         /\ Clear(c) => At(c, "clear")
         /\ Blame(c) => At(c, "blame")
<1>1. /\ Hset(c) => At(c, "hset")
      /\ Hdel(c) => At(c, "hdel")
      /\ Hexists(c) => At(c, "hexists")
      /\ Mark(c) => At(c, "mark")
      /\ Unmark(c) => At(c, "unmark")
  BY DEF Hset, Hdel, Hexists, Mark, Unmark
<1>2. /\ Watch(c) => At(c, "watch")
      /\ Hget(c) => At(c, "hget")
      /\ Exec(c) => At(c, "exec")
  BY DEF Watch, Hget, Exec
<1>3. /\ See(c) => At(c, "see")
      /\ Unsee(c) => At(c, "unsee")
      /\ Parent(c) => At(c, "parent")
      /\ Put(c) => At(c, "put")
      /\ Drop(c) => At(c, "drop")
  BY DEF See, Unsee, Parent, Put, Drop
<1>4. /\ Smembers(c) => At(c, "smembers")
      /\ GetLeaf(c) => At(c, "leaves")
      /\ Srem(c) => At(c, "srem")
      /\ Hgetall(c) => At(c, "hgetall")
  BY DEF Smembers, GetLeaf, Srem, Hgetall
<1>5. /\ NextProvider(c) => At(c, "providers")
      /\ CheckMark(c) => At(c, "seen") \/ At(c, "alive")
      /\ Clear(c) => At(c, "clear")
      /\ Blame(c) => At(c, "blame")
  BY DEF NextProvider, CheckMark, Clear, Blame
<1> QED BY <1>1, <1>2, <1>3, <1>4, <1>5

LEMMA Proceeds ==
  ASSUME Functions, NEW c \in Clients
  PROVE  /\ Skip(c) \/ Proceed(c) => todo'[c] = Tail(todo[c])
         /\ Return(c) => todo'[c] = <<>>
         /\ \A list : todo' = [todo EXCEPT ![c] = list] => todo'[c] = list
BY DEF Skip, Proceed, Return, Functions

(* Where a step may take a client: the states that a property depends on   *)
(* are reached by the one command that leads to them.                      *)
Keeps(c) == scan' = scan /\ at' = at
Advance(c) ==
    \/ todo'[c] \in Seq(Plain) \cup {Nudge3, Nudge2}
    \/ Hget(c) /\ todo'[c] = Nudge1
    \/ c \in Sweepers /\ todo'[c] = Listing
    \/ c \in Sweepers /\ todo'[c] = Looking /\ scan'[c] \subseteq Providers
    \/ /\ c \in Sweepers /\ todo'[c] \in {SeenFirst, AliveFirst, ThenSeen}
       /\ scan'[c] \subseteq Providers /\ at'[c] \in Providers
    \/ /\ c \in Sweepers /\ todo[c] \in Checking /\ scan[c] \subseteq Providers /\ at[c] \in Providers
       /\ Keeps(c)
       /\ \/ todo'[c] \in {ThenAlive, Clearing} /\ at[c] \in seen /\ CheckMark(c)
          \/ todo[c] = ThenAlive /\ todo'[c] = Clearing /\ CheckMark(c)
          \/ todo[c] = Clearing /\ todo'[c] = Blaming /\ Clear(c)

LEMMA BeginAdvance ==
  ASSUME Functions, NEW c \in Clients, Begin(c)
  PROVE  Advance(c)
<1>1. PICK e, list : /\ Call(c, e, list)
                     /\ \/ list \in Seq(Plain) \/ list = Nudge3
                        \/ list = Listing /\ c \in Sweepers
  BY BeginList
<1>2. todo'[c] = list
  BY <1>1, Proceeds DEF Call
<1> QED BY <1>1, <1>2 DEF Advance

LEMMA PlainAdvance ==
  ASSUME Functions, NEW c \in Clients, todo[c] \in Seq(Plain), Step(c)
  PROVE  Advance(c)
<1>1. \A x : At(c, x) => x \in Plain
  BY Heads DEF At
<1>2. todo[c] # <<>> => Tail(todo[c]) \in Seq(Plain)
  BY Heads
<1>3. Command(c) => todo'[c] \in Seq(Plain)
  BY <1>2, Proceeds, Heads DEF Command, Hset, Hdel, Hexists, Mark, Unmark, At
<1>4. ~Watch(c) /\ ~Hget(c) /\ ~Exec(c) /\ ~Hgetall(c) /\ ~NextProvider(c) /\ ~CheckMark(c)
      /\ ~Clear(c) /\ ~Blame(c)
  BY <1>1, FirstCommands DEF Plain
<1>5. See(c) \/ Unsee(c) \/ Put(c) \/ Smembers(c) \/ Srem(c) => todo'[c] \in Seq(Plain)
  BY <1>2, Proceeds DEF See, Unsee, Put, Smembers, Srem, At
<1>6. Parent(c) => todo'[c] \in Seq(Plain)
  <2>1. todo' = [todo EXCEPT ![c] = <<"hset">> \o alive_commands \o Tail(@)]
        => todo'[c] = <<"hset">> \o alive_commands \o Tail(todo[c])
    BY DEF Functions
  <2> QED BY <1>2, <2>1, Proceeds, PlainLists DEF Parent, At
<1>7. Drop(c) => todo'[c] \in Seq(Plain)
  BY <1>2, Proceeds DEF Drop, At, call_vars
<1>8. GetLeaf(c) => todo'[c] \in Seq(Plain)
  <2>1. todo' = [todo EXCEPT ![c] = <<"srem">> \o @] => todo'[c] = <<"srem">> \o todo[c]
    BY DEF Functions
  <2> QED BY <1>2, <2>1, Proceeds, PlainLists DEF GetLeaf, At, call_vars
<1> QED BY <1>3, <1>4, <1>5, <1>6, <1>7, <1>8
           DEF Step, ServerStep, AgentStep, ComputeStep, Advance

LEMMA NudgeAdvance ==
  ASSUME Functions, NEW c \in Clients, todo[c] \in {Nudge3, Nudge2, Nudge1}, Step(c)
  PROVE  Advance(c)
<1>1. \A x : At(c, x) => x \in {"watch", "hget", "exec"}
  BY Heads DEF At
<1>2. Watch(c) \/ Hget(c) \/ Exec(c)
  BY <1>1, FirstCommands DEF Step, ServerStep, AgentStep, ComputeStep, Command
<1>3. CASE Watch(c)
  <2>1. todo[c] = Nudge3
    BY <1>3, Heads DEF Watch, At
  <2> QED BY <1>3, <2>1, Proceeds, Heads DEF Watch, Advance
<1>4. CASE Hget(c)
  <2>1. todo[c] = Nudge2
    BY <1>4, Heads DEF Hget, At
  <2> QED BY <1>4, <2>1, Proceeds, Heads DEF Hget, Advance
<1>5. CASE Exec(c)
  BY <1>5, Proceeds, Heads DEF Exec, Nudge3, Advance
<1> QED BY <1>2, <1>3, <1>4, <1>5

LEMMA ListingAdvance ==
  ASSUME Functions, NEW c \in Sweepers, c \in Clients, Step(c),
         todo[c] = Listing \/ (todo[c] = Looking /\ scan[c] \subseteq Providers)
  PROVE  Advance(c)
<1>1. \A x : At(c, x) => x \in {"hgetall", "providers"}
  BY Heads DEF At
<1>2. Hgetall(c) \/ NextProvider(c)
  BY <1>1, FirstCommands DEF Step, ServerStep, AgentStep, ComputeStep, Command
<1>3. CASE Hgetall(c)
  <2>1. todo[c] = Listing
    BY <1>3, Heads DEF Hgetall, At
  <2>2. todo'[c] = Looking /\ scan'[c] \subseteq Providers
    BY <1>3, <2>1, Proceeds, Heads DEF Hgetall, Functions
  <2> QED BY <2>2 DEF Advance
<1>4. CASE NextProvider(c)
  <2>1. todo[c] = Looking /\ scan[c] \subseteq Providers
    BY <1>4, Heads DEF NextProvider, At
  <2>2. CASE Skip(c)
    BY <2>1, <2>2, Proceeds, Heads DEF Advance
  <2>3. CASE ~Skip(c)
    <3>1. PICK p \in scan[c], checks \in {<<"seen", "alive">>, <<"alive", "seen">>} :
            /\ scan' = [scan EXCEPT ![c] = @ \ {p}]
            /\ at' = [at EXCEPT ![c] = p]
            /\ todo' = [todo EXCEPT ![c] = checks \o <<"clear", "blame">> \o @]
      BY <1>4, <2>3 DEF NextProvider
    <3>2. scan'[c] \subseteq Providers /\ at'[c] \in Providers
      BY <2>1, <3>1 DEF Functions
    <3>3. todo'[c] = checks \o <<"clear", "blame">> \o Looking
      BY <2>1, <3>1 DEF Functions
    <3>4. <<"seen", "alive">> \o <<"clear", "blame">> \o Looking = SeenFirst
          /\ <<"alive", "seen">> \o <<"clear", "blame">> \o Looking = AliveFirst
      BY JoinPairs DEF Looking, SeenFirst, AliveFirst
    <3>5. todo'[c] \in {SeenFirst, AliveFirst}
      BY <3>1, <3>3, <3>4
    <3> QED BY <3>2, <3>5 DEF Advance
  <2> QED BY <2>2, <2>3
<1> QED BY <1>2, <1>3, <1>4

LEMMA CheckingAdvance ==
  ASSUME Functions, NEW c \in Sweepers, c \in Clients, Step(c),
         todo[c] \in Checking, scan[c] \subseteq Providers, at[c] \in Providers
  PROVE  Advance(c)
<1>1. \A x : At(c, x) => x \in {"seen", "alive", "clear", "blame"}
  BY Heads DEF At, Checking, Charging
<1>2. CheckMark(c) \/ Clear(c) \/ Blame(c)
  BY <1>1, FirstCommands DEF Step, ServerStep, AgentStep, ComputeStep, Command
<1>3. Keeps(c)
  BY <1>2 DEF CheckMark, Clear, Blame, compute_vars, local_vars, Keeps
<1>4. CASE todo'[c] = Looking
  BY <1>3, <1>4 DEF Advance, Keeps
<1>5. CASE CheckMark(c) /\ todo'[c] # Looking
  <2>1. todo'[c] = Tail(todo[c]) /\ (At(c, "seen") => at[c] \in seen)
    BY <1>5, Proceeds DEF CheckMark, Looking
  <2>2. todo[c] \in {SeenFirst, AliveFirst, ThenSeen, ThenAlive}
    BY <1>5, Heads DEF CheckMark, At, Checking, Charging
  <2> QED BY <1>3, <1>5, <2>1, <2>2, Heads DEF Advance, Keeps, At
<1>6. CASE Clear(c)
  <2>1. todo[c] = Clearing
    BY <1>6, Heads DEF Clear, At, Checking, Charging
  <2> QED BY <1>3, <1>6, <2>1, Proceeds, Heads DEF Clear, Advance
<1>7. CASE Blame(c)
  <2>1. todo[c] = Blaming
    BY <1>7, Heads DEF Blame, At, Checking, Charging
  <2>2. todo'[c] = Tail(todo[c])
    BY <1>7, Proceeds DEF Blame
  <2> QED BY <1>4, <2>1, <2>2, Heads
<1> QED BY <1>2, <1>4, <1>5, <1>6, <1>7

LEMMA StepAdvance ==
  ASSUME Functions, NEW c \in Clients, Shape(c), Step(c)
  PROVE  Advance(c)
BY PlainAdvance, NudgeAdvance, ListingAdvance, CheckingAdvance DEF Shape

LEMMA AdvanceShape ==
  ASSUME NEW c \in Clients, Advance(c)
  PROVE  Shape(c)'
BY DEF Advance, Keeps, Shape, Checking, Charging

(* The state of a call is known when it writes a reputation or blames.     *)
LEMMA AtShapes ==
  ASSUME NEW c \in Clients, Shape(c)
  PROVE  /\ At(c, "exec") => todo[c] = Nudge1
         /\ At(c, "blame") => c \in Sweepers /\ todo[c] = Blaming /\ at[c] \in Providers
<1>1. todo[c] \in Seq(Plain) => ~At(c, "exec") /\ ~At(c, "blame")
  BY Heads DEF At, Plain
<1> QED BY <1>1, Heads DEF Shape, At, Checking, Charging

-----------------------------------------------------------------------------
(* Steps of the model, and what they leave alone.                          *)
ClientStep(c) ==
    \/ Begin(c) \/ Step(c)
    \/ Raise(c) /\ UNCHANGED <<agent_vars, compute_vars>>

LEMMA NextSteps ==
  ASSUME Next
  PROVE  \/ \E c \in Clients : ClientStep(c)
         \/ UNCHANGED <<record, call_vars, agent_vars, compute_vars>>
BY DEF Next, ClientStep, Expire

LEMMA ClientAdvance ==
  ASSUME Functions, NEW c \in Clients, Shape(c), ClientStep(c)
  PROVE  Advance(c)
<1>1. CASE Raise(c)
  BY <1>1, Proceeds, Heads DEF Raise, Advance
<1> QED BY <1>1, BeginAdvance, StepAdvance DEF ClientStep

LEMMA CallFunctions ==
  ASSUME Functions, NEW c \in Clients, ClientStep(c)
  PROVE  /\ todo' = [d \in Clients |-> todo'[d]] /\ on' = [d \in Clients |-> on'[d]]
         /\ \A d \in Clients \ {c} : todo'[d] = todo[d] /\ on'[d] = on[d]
<1>1. ASSUME NEW e, NEW list, Call(c, e, list)
      PROVE  /\ todo' = [d \in Clients |-> todo'[d]] /\ on' = [d \in Clients |-> on'[d]]
             /\ \A d \in Clients \ {c} : todo'[d] = todo[d] /\ on'[d] = on[d]
  BY <1>1 DEF Call, Functions
<1>2. CASE Begin(c)
  BY <1>1, <1>2, BeginList
<1>3. CASE Raise(c)
  BY <1>3 DEF Raise, Functions
<1>4. CASE Step(c)
  <2>1. on' = on
    BY <1>4 DEF Step, ServerStep, AgentStep, ComputeStep, Command, Hset, Hdel, Hexists, Mark, Unmark,
       Watch, Hget, Exec, See, Unsee, Parent, Put, Drop, Smembers, GetLeaf, Srem, Hgetall,
       NextProvider, CheckMark, Clear, Blame, Skip, Return, call_vars
  <2>2. todo' = todo \/ \E list : todo' = [todo EXCEPT ![c] = list]
    BY <1>4 DEF Step, ServerStep, AgentStep, ComputeStep, Command, Hset, Hdel, Hexists, Mark, Unmark,
       Watch, Hget, Exec, See, Unsee, Parent, Put, Drop, Smembers, GetLeaf, Srem, Hgetall,
       NextProvider, CheckMark, Clear, Blame, Skip, Return, Proceed, call_vars
  <2> QED BY <2>1, <2>2 DEF Functions
<1> QED BY <1>2, <1>3, <1>4 DEF ClientStep

LEMMA ComputeFunctions ==
  ASSUME Functions, NEW c \in Clients, ClientStep(c)
  PROVE  /\ scan' = [d \in Clients |-> scan'[d]] /\ at' = [d \in Clients |-> at'[d]]
         /\ \A d \in Clients \ {c} : scan'[d] = scan[d] /\ at'[d] = at[d]
<1>1. CASE UNCHANGED compute_vars
  BY <1>1 DEF compute_vars, Functions
<1>2. CASE Begin(c)
  <2>1. UNCHANGED scan
    BY <1>2 DEF Begin, ComputeCall, compute_vars
  <2>2. at' = at \/ \E l : at' = [at EXCEPT ![c] = l]
    BY <1>2 DEF Begin, ComputeCall, RegisterLeaf, compute_vars
  <2> QED BY <2>1, <2>2 DEF Functions
<1>3. CASE Step(c)
  <2>1. scan' = scan \/ \E x : scan' = [scan EXCEPT ![c] = x]
    BY <1>3 DEF Step, ComputeStep, See, Unsee, Parent, Put, Drop, Smembers, GetLeaf, Srem, Hgetall,
       NextProvider, CheckMark, Clear, Blame, compute_vars, local_vars
  <2>2. at' = at \/ \E x : at' = [at EXCEPT ![c] = x]
    BY <1>3 DEF Step, ComputeStep, See, Unsee, Parent, Put, Drop, Smembers, GetLeaf, Srem, Hgetall,
       NextProvider, CheckMark, Clear, Blame, compute_vars, local_vars
  <2> QED BY <2>1, <2>2 DEF Functions
<1> QED BY <1>1, <1>2, <1>3 DEF ClientStep

LEMMA AgentFunctions ==
  ASSUME Functions, NEW c \in Clients, ClientStep(c)
  PROVE  /\ next' = [d \in Clients |-> next'[d]] /\ nudge' = [d \in Clients |-> nudge'[d]]
         /\ reputation' = [a \in Agents |-> reputation'[a]]
         /\ \A d \in Clients \ {c} : next'[d] = next[d] /\ nudge'[d] = nudge[d]
<1>1. CASE UNCHANGED agent_vars
  BY <1>1 DEF agent_vars, Functions
<1>2. CASE AgentCall(c)
  BY <1>2 DEF AgentCall, UpdateReputation, agent_vars, Functions
<1>3. CASE AgentStep(c)
  BY <1>3 DEF AgentStep, Overwrite, Watch, Hget, Exec, Functions
<1> QED BY <1>1, <1>2, <1>3 DEF ClientStep, Begin, Step

(* How sentinels and reports are counted.                                  *)
Tally(c) ==
    \/ UNCHANGED <<marks, reported>> /\ seen' \subseteq seen
    \/ /\ seen' = seen \cup {on[c]} /\ marks' = [marks EXCEPT ![on[c]] = @ + 1]
       /\ UNCHANGED reported
    \/ /\ At(c, "blame") /\ reported' = [reported EXCEPT ![at[c]] = @ + 1]
       /\ UNCHANGED <<seen, marks>>

LEMMA Tallies ==
  ASSUME NEW c \in Clients, ClientStep(c)
  PROVE  Tally(c)
<1>1. CASE UNCHANGED compute_vars
  BY <1>1 DEF compute_vars, Tally
<1>2. CASE ComputeCall(c)
  BY <1>2 DEF ComputeCall, history_vars, Tally
<1>3. CASE ComputeStep(c) /\ ~See(c) /\ ~Blame(c)
  BY <1>3 DEF ComputeStep, Unsee, Parent, Put, Drop, Smembers, GetLeaf, Srem, Hgetall,
              NextProvider, CheckMark, Clear, compute_vars, history_vars, Tally
<1>4. CASE See(c)
  BY <1>4 DEF See, Tally
<1>5. CASE Blame(c)
  BY <1>5 DEF Blame, Tally
<1> QED BY <1>1, <1>2, <1>3, <1>4, <1>5 DEF ClientStep, Begin, Step

LEMMA NextTyped ==
  ASSUME RegistryTyped, [Next]_vars
  PROVE  RegistryTyped'
<1>1. ASSUME NEW c \in Clients, ClientStep(c)
      PROVE  RegistryTyped'
  <2>1. Functions
    BY DEF RegistryTyped
  <2>2. marks' \in [Providers -> Nat] /\ reported' \in [Providers -> Nat]
    BY <1>1, <2>1, Tallies DEF Tally, Functions
  <2>3. Functions'
    BY <1>1, <2>1, <2>2, CallFunctions, ComputeFunctions, AgentFunctions DEF Functions
  <2>4. Shape(c)'
    BY <1>1, <2>1, ClientAdvance, AdvanceShape DEF RegistryTyped
  <2>5. ASSUME NEW d \in Clients \ {c} PROVE Shape(d)'
    <3>1. todo'[d] = todo[d] /\ scan'[d] = scan[d] /\ at'[d] = at[d]
      BY <1>1, <2>1, CallFunctions, ComputeFunctions
    <3> QED BY <3>1 DEF RegistryTyped, Shape
  <2> QED BY <2>3, <2>4, <2>5 DEF RegistryTyped
<1>2. CASE UNCHANGED <<record, call_vars, agent_vars, compute_vars>>
  BY <1>2 DEF call_vars, agent_vars, compute_vars, RegistryTyped, Functions, Shape
<1>3. CASE UNCHANGED vars
  BY <1>2, <1>3 DEF vars
<1> QED BY <1>1, <1>2, <1>3, NextSteps

LEMMA InitTyped == Init => RegistryTyped
<1> SUFFICES ASSUME Init PROVE RegistryTyped
  OBVIOUS
<1>1. Functions
  BY DEF Init, Functions
<1>2. \A c \in Clients : todo[c] = <<>>
  BY DEF Init
<1> QED BY <1>1, <1>2, Heads DEF RegistryTyped, Shape

-----------------------------------------------------------------------------
(* Between two reports of a provider lies a sentinel that was set, when    *)
(* the broker sweeps one sweep at a time.                                  *)
OneSweeper == \A c, d \in Sweepers : c = d

Outages ==
    \A p \in Providers :
      /\ reported[p] <= marks[p]
      /\ p \in seen => reported[p] < marks[p]
      /\ \A c \in Sweepers : todo[c] \in Charging /\ at[c] = p =>
           /\ reported[p] < marks[p]
           /\ todo[c] = Blaming /\ p \in seen => reported[p] + 1 < marks[p]

LEMMA Distinct ==
  /\ \A s \in Seq(Plain) \cup {Nudge3, Nudge2, Nudge1, Listing, Looking, SeenFirst, AliveFirst,
                               ThenSeen} : s \notin Charging
  /\ ThenAlive # Blaming /\ Clearing # Blaming /\ Clearing # ThenAlive
<1>1. \A s \in Seq(Plain) : s \notin Charging
  <2>1. "alive" \notin Plain /\ "clear" \notin Plain /\ "blame" \notin Plain
    BY DEF Plain
  <2> QED BY <2>1, Heads DEF Charging
<1>2. AliveFirst # ThenAlive
  BY Heads
<1> QED BY <1>1, <1>2, Heads DEF Charging

LEMMA ClientOutages ==
  ASSUME OneSweeper, RegistryTyped, Outages, NEW c \in Clients, ClientStep(c)
  PROVE  Outages'
<1>1. Functions /\ Shape(c) /\ Advance(c) /\ Tally(c)
  BY ClientAdvance, Tallies DEF RegistryTyped
<1>2. marks \in [Providers -> Nat] /\ reported \in [Providers -> Nat]
  BY <1>1 DEF Functions
<1>3. \A d \in Sweepers : d # c => todo'[d] = todo[d] /\ at'[d] = at[d]
  BY <1>1, CallFunctions, ComputeFunctions, RegistriesAssumption
<1>4. c \in Sweepers => \A d \in Sweepers : d = c
  BY DEF OneSweeper
<1>5. todo'[c] \in Charging =>
        /\ c \in Sweepers /\ at'[c] = at[c] /\ at[c] \in Providers
        /\ \/ todo'[c] \in {ThenAlive, Clearing} /\ at[c] \in seen /\ CheckMark(c)
           \/ todo[c] = ThenAlive /\ todo'[c] = Clearing /\ CheckMark(c)
           \/ todo[c] = Clearing /\ todo'[c] = Blaming /\ Clear(c)
  BY <1>1, Distinct DEF Advance, Keeps
<1>6. CASE At(c, "blame")
  <2>1. c \in Sweepers /\ todo[c] = Blaming /\ at[c] \in Providers
    BY <1>1, <1>6, AtShapes
  <2>2. todo'[c] \notin Charging
    <3>1. ~CheckMark(c) /\ ~Clear(c)
      BY <2>1, Heads, FirstCommands DEF At
    <3> QED BY <1>5, <3>1
  <2>3. \A d \in Sweepers : todo'[d] \notin Charging
    BY <1>4, <2>1, <2>2
  <2>4. reported[at[c]] < marks[at[c]] /\ (at[c] \in seen => reported[at[c]] + 1 < marks[at[c]])
    BY <2>1 DEF Outages, Charging
  <2>5. ASSUME NEW p \in Providers
        PROVE  reported'[p] <= marks'[p] /\ (p \in seen' => reported'[p] < marks'[p])
    BY <1>1, <1>2, <2>1, <2>4 DEF Outages, Tally
  <2> QED BY <2>3, <2>5 DEF Outages
<1>7. CASE UNCHANGED <<marks, reported>> /\ seen' \subseteq seen
  <2>1. ASSUME NEW p \in Providers
        PROVE  reported'[p] <= marks'[p] /\ (p \in seen' => reported'[p] < marks'[p])
    BY <1>7 DEF Outages
  <2>2. ASSUME NEW p \in Providers, NEW d \in Sweepers, d # c, todo'[d] \in Charging, at'[d] = p
        PROVE  /\ reported'[p] < marks'[p]
               /\ todo'[d] = Blaming /\ p \in seen' => reported'[p] + 1 < marks'[p]
    BY <1>3, <1>7, <2>2 DEF Outages
  <2>3. ASSUME NEW p \in Providers, c \in Sweepers, todo'[c] \in Charging, at'[c] = p
        PROVE  /\ reported'[p] < marks'[p]
               /\ todo'[c] = Blaming /\ p \in seen' => reported'[p] + 1 < marks'[p]
    <3>1. p \in seen \/ (todo[c] \in Charging /\ at[c] = p)
      BY <1>5, <2>3 DEF Charging
    <3>2. reported[p] < marks[p]
      BY <2>3, <3>1 DEF Outages
    <3>3. todo'[c] = Blaming => p \notin seen'
      BY <1>5, <2>3, Distinct DEF Clear
    <3> QED BY <1>7, <3>2, <3>3
  <2> QED BY <2>1, <2>2, <2>3 DEF Outages
<1>8. CASE seen' = seen \cup {on[c]} /\ marks' = [marks EXCEPT ![on[c]] = @ + 1]
           /\ UNCHANGED reported
  <2>1. ASSUME NEW p \in Providers
        PROVE  reported'[p] <= marks'[p] /\ (p \in seen' => reported'[p] < marks'[p])
    BY <1>2, <1>8 DEF Outages
  <2>2. CASE UNCHANGED <<marks, reported>> /\ seen' \subseteq seen
    BY <1>7, <2>2
  <2>3. ASSUME NEW p \in Providers, NEW d \in Sweepers, todo'[d] \in Charging, at'[d] = p,
               todo[d] \in Charging, at[d] = p, todo'[d] = Blaming => todo[d] = Blaming
        PROVE  /\ reported'[p] < marks'[p]
               /\ todo'[d] = Blaming /\ p \in seen' => reported'[p] + 1 < marks'[p]
    BY <1>2, <1>8, <2>3 DEF Outages
  <2>4. CASE todo'[c] \in Charging /\ c \in Sweepers
    <3>1. UNCHANGED <<marks, reported>> /\ seen' \subseteq seen
      BY <1>5, <2>4 DEF CheckMark, Clear, compute_vars, history_vars
    <3> QED BY <1>7, <3>1
  <2>5. CASE ~(todo'[c] \in Charging /\ c \in Sweepers)
    BY <1>3, <2>1, <2>3, <2>5 DEF Outages
  <2> QED BY <2>4, <2>5
<1> QED BY <1>1, <1>6, <1>7, <1>8 DEF Tally

(* "A single outage is only reported once": between two reports of a       *)
(* provider it has proven itself alive again, however registrations,       *)
(* heartbeats and expiries fall between the sweep's own reads and writes.  *)
THEOREM OutagesAreReportedOnce ==
  ASSUME OneSweeper
  PROVE  Spec => []OutagesReportedOnce
<1>1. Init => Outages
  <2> SUFFICES ASSUME Init PROVE Outages
    OBVIOUS
  <2>1. \A c \in Sweepers : todo[c] \notin Charging
    BY RegistriesAssumption, Distinct, Heads DEF Init
  <2>2. \A p \in Providers : reported[p] = 0 /\ marks[p] = 0 /\ p \notin seen
    BY DEF Init
  <2> QED BY <2>1, <2>2 DEF Outages
<1>2. RegistryTyped /\ Outages /\ [Next]_vars => Outages'
  <2> SUFFICES ASSUME RegistryTyped, Outages, [Next]_vars PROVE Outages'
    OBVIOUS
  <2>1. CASE UNCHANGED <<record, call_vars, agent_vars, compute_vars>>
    BY <2>1 DEF call_vars, compute_vars, Outages
  <2>2. CASE UNCHANGED vars
    BY <2>1, <2>2 DEF vars
  <2> QED BY <2>1, <2>2, NextSteps, ClientOutages
<1>3. RegistryTyped /\ [Next]_vars => RegistryTyped'
  BY NextTyped
<1>4. Outages => OutagesReportedOnce
  BY DEF Outages, OutagesReportedOnce
<1> QED BY <1>1, <1>2, <1>3, <1>4, InitTyped, PTL DEF Spec

-----------------------------------------------------------------------------
(* The index of leaves is changed together with the leaves, or cleared of  *)
(* an entry: it names no leaf that is gone.                                *)
THEOREM IndicesNameLeaves == Spec => []IndexNamesLeaves
<1>1. Init => IndexNamesLeaves
  BY DEF Init, IndexNamesLeaves
<1>2. IndexNamesLeaves /\ [Next]_vars => IndexNamesLeaves'
  <2> SUFFICES ASSUME IndexNamesLeaves, [Next]_vars PROVE IndexNamesLeaves'
    OBVIOUS
  <2>1. CASE UNCHANGED menu_vars
    BY <2>1 DEF menu_vars, IndexNamesLeaves
  <2>2. ASSUME NEW c \in Clients, ComputeStep(c), ~Put(c), ~Drop(c), ~Srem(c)
        PROVE  UNCHANGED menu_vars
    BY <2>2 DEF ComputeStep, See, Unsee, Parent, Smembers, GetLeaf, Hgetall, NextProvider,
                CheckMark, Clear, Blame, compute_vars, menu_vars
  <2>3. ASSUME NEW c \in Clients, Put(c) \/ Drop(c) \/ Srem(c)
        PROVE  IndexNamesLeaves'
    BY <2>3 DEF Put, Drop, Srem, menu_vars, IndexNamesLeaves
  <2>4. ASSUME NEW c \in Clients, ComputeCall(c)
        PROVE  UNCHANGED menu_vars
    BY <2>4 DEF ComputeCall
  <2>5. CASE UNCHANGED compute_vars
    BY <2>1, <2>5 DEF compute_vars, menu_vars
  <2>6. CASE UNCHANGED vars
    BY <2>5, <2>6 DEF vars
  <2> QED BY <2>1, <2>2, <2>3, <2>4, <2>5, <2>6, NextSteps DEF ClientStep, Begin, Step
<1> QED BY <1>1, <1>2, PTL DEF Spec

-----------------------------------------------------------------------------
(* A client about to write a reputation that nobody has touched knows the  *)
(* one that is there.                                                      *)
Fresh(c) ==
    on[c] \in Agents /\ todo[c] = Nudge1 /\ c \notin touched =>
      on[c] \in record /\ next[c] = Clamp(reputation[on[c]] + nudge[c])
FreshInv == \A c \in Clients : Fresh(c)

(* What can change the directory of agents, and that it touches watchers.  *)
Writes(c) ==
    /\ \/ touched' = Clients
       \/ /\ reputation' = reputation /\ (record' \cap Agents) = (record \cap Agents)
          /\ touched' = touched \/ touched' = touched \ {c}
    /\ \A a \in Agents :
         reputation'[a] # reputation[a] \/ a \in record' \ record =>
           /\ on[c] = a
           /\ \/ At(c, "hset")
              \/ At(c, "exec") /\ c \notin touched /\ reputation'[a] = next[c]

LEMMA CommandWrites ==
  ASSUME NEW c \in Clients, Command(c)
  PROVE  \/ At(c, "hset") /\ record' = record \cup {on[c]}
         \/ At(c, "hdel") /\ record' = record \ {on[c]}
         \/ record' = record
BY DEF Command, Hset, Hdel, Hexists, Mark, Unmark

LEMMA ClientWrites ==
  ASSUME Functions, NEW c \in Clients, ClientStep(c)
  PROVE  Writes(c)
<1>1. CASE record' = record /\ UNCHANGED <<reputation, touched>>
  BY <1>1 DEF Writes
<1>2. CASE ServerStep(c) /\ UNCHANGED agent_vars
  <2>1. on[c] \notin Agents
    BY <1>2, RegistriesAssumption DEF ServerStep
  <2> QED BY <1>2, <2>1, CommandWrites DEF ServerStep, agent_vars, Writes
<1>3. CASE ComputeStep(c) /\ UNCHANGED agent_vars
  <2>1. on[c] \notin Agents
    BY <1>3, RegistriesAssumption DEF ComputeStep
  <2>2. Command(c) \/ record' = record
    BY <1>3 DEF ComputeStep
  <2> QED BY <1>3, <2>1, <2>2, CommandWrites DEF agent_vars, Writes
<1>4. CASE AgentStep(c)
  <2>1. CASE Command(c) /\ Overwrite(c)
    BY <2>1, CommandWrites DEF Overwrite, Functions, Writes
  <2>2. CASE Watch(c) \/ Hget(c)
    BY <2>2 DEF Watch, Hget, Writes
  <2>3. CASE Exec(c) /\ c \in touched
    BY <1>1, <2>3 DEF Exec
  <2>4. CASE Exec(c) /\ c \notin touched
    <3>1. At(c, "exec") /\ record' = record \cup {on[c]} /\ touched' = Clients
          /\ reputation' = [reputation EXCEPT ![on[c]] = next[c]]
      BY <2>4 DEF Exec
    <3> QED BY <2>4, <3>1 DEF Functions, Writes
  <2> QED BY <1>4, <2>1, <2>2, <2>3, <2>4 DEF AgentStep
<1>5. CASE Begin(c)
  <2>1. record' = record
    BY <1>5, BeginList DEF Call
  <2>2. UNCHANGED <<reputation, touched>>
    BY <1>5 DEF Begin, AgentCall, agent_vars
  <2> QED BY <1>1, <2>1, <2>2
<1>6. CASE Raise(c) /\ UNCHANGED agent_vars
  BY <1>1, <1>6 DEF Raise, agent_vars
<1> QED BY <1>2, <1>3, <1>4, <1>5, <1>6 DEF ClientStep, Step

LEMMA NotNudge ==
  \A s \in Seq(Plain) \cup {Nudge3, Nudge2, Listing, Looking, SeenFirst, AliveFirst, ThenSeen,
                            ThenAlive, Clearing, Blaming} : s # Nudge1
<1>1. \A s \in Seq(Plain) : s # Nudge1
  <2>1. "exec" \notin Plain
    BY DEF Plain
  <2> QED BY <2>1, Heads
<1> QED BY <1>1, Heads

LEMMA ReadsFresh ==
  ASSUME RegistryTyped, NEW c \in Clients, ClientStep(c), todo'[c] = Nudge1
  PROVE  Fresh(c)'
<1>1. Functions /\ Shape(c) /\ Advance(c)
  BY ClientAdvance DEF RegistryTyped
<1>2. Hget(c)
  BY <1>1, NotNudge DEF Advance
<1>3. ~Return(c)
  BY <1>1, Proceeds, Heads
<1>4. /\ on[c] \in record /\ Skip(c) /\ UNCHANGED <<record, reputation, nudge>>
      /\ next'[c] = Clamp(reputation[on[c]] + nudge[c])
  BY <1>1, <1>2, <1>3 DEF Hget, Functions
<1> QED BY <1>4 DEF Skip, Fresh, Clamp

LEMMA NextFresh ==
  ASSUME RegistryTyped, FreshInv, [Next]_vars
  PROVE  FreshInv'
<1>1. ASSUME NEW c \in Clients, ClientStep(c) PROVE FreshInv'
  <2>1. Functions /\ Writes(c)
    BY <1>1, ClientWrites DEF RegistryTyped
  <2>2. Fresh(c)'
    <3>1. CASE todo'[c] = Nudge1
      BY <1>1, <3>1, ReadsFresh
    <3>2. CASE todo'[c] # Nudge1
      BY <3>2 DEF Fresh
    <3> QED BY <3>1, <3>2
  <2>3. ASSUME NEW d \in Clients \ {c} PROVE Fresh(d)'
    <3>1. todo'[d] = todo[d] /\ on'[d] = on[d] /\ next'[d] = next[d] /\ nudge'[d] = nudge[d]
      BY <1>1, <2>1, CallFunctions, AgentFunctions
    <3>2. CASE d \in touched'
      BY <3>2 DEF Fresh
    <3>3. CASE d \notin touched'
      <4>1. /\ d \notin touched /\ reputation' = reputation
            /\ record' \cap Agents = record \cap Agents
        BY <2>1, <3>3 DEF Writes
      <4> QED BY <3>1, <4>1 DEF FreshInv, Fresh, Clamp
    <3> QED BY <3>2, <3>3
  <2> QED BY <2>2, <2>3 DEF FreshInv
<1>2. CASE UNCHANGED <<record, call_vars, agent_vars, compute_vars>>
  BY <1>2 DEF call_vars, agent_vars, FreshInv, Fresh, Clamp
<1>3. CASE UNCHANGED vars
  BY <1>2, <1>3 DEF vars
<1> QED BY <1>1, <1>2, <1>3, NextSteps

(* What NudgesBuildOnEachOther says of one step. *)
Builds ==
    \A a \in Agents :
      LET Registering == \E c \in Clients : on[c] = a /\ At(c, "hset")
          Nudging == \E c \in Clients :
                       on[c] = a /\ reputation'[a] = Clamp(reputation[a] + nudge[c])
      IN /\ reputation'[a] # reputation[a] => Registering \/ Nudging
         /\ a \in record' \ record => Registering

LEMMA NextBuilds ==
  ASSUME RegistryTyped, FreshInv, [Next]_vars
  PROVE  [Builds]_<<reputation, record>>
<1>1. ASSUME NEW c \in Clients, ClientStep(c) PROVE Builds
  <2>1. Functions /\ Shape(c) /\ Writes(c) /\ Fresh(c)
    BY <1>1, ClientWrites DEF RegistryTyped, FreshInv
  <2>2. ASSUME NEW a \in Agents, reputation'[a] # reputation[a] \/ a \in record' \ record,
               ~At(c, "hset")
        PROVE  /\ on[c] = a /\ a \in record
               /\ reputation'[a] = Clamp(reputation[a] + nudge[c])
    <3>1. on[c] = a /\ At(c, "exec") /\ c \notin touched /\ reputation'[a] = next[c]
      BY <2>1, <2>2 DEF Writes
    <3>2. todo[c] = Nudge1
      BY <2>1, <3>1, AtShapes
    <3> QED BY <2>1, <3>1, <3>2 DEF Fresh
  <2>3. ASSUME NEW a \in Agents, reputation'[a] # reputation[a] \/ a \in record' \ record
        PROVE  on[c] = a
    BY <2>1, <2>3 DEF Writes
  <2> QED BY <2>2, <2>3 DEF Builds
<1>2. CASE UNCHANGED <<record, call_vars, agent_vars, compute_vars>>
  BY <1>2 DEF agent_vars
<1>3. CASE UNCHANGED vars
  BY <1>3 DEF vars, agent_vars
<1> QED BY <1>1, <1>2, <1>3, NextSteps

(* Whoever nudges, registers, hides and removes agents meanwhile, a nudge  *)
(* that is stored is one of the reputation it replaces, else a reputation  *)
(* starts over with a registration, and nothing but a registration adds an *)
(* agent.                                                                  *)
THEOREM ReputationsBuildUp == Spec => NudgesBuildOnEachOther
<1>1. Init => FreshInv
  <2> SUFFICES ASSUME Init PROVE FreshInv
    OBVIOUS
  <2>1. \A c \in Clients : todo[c] # Nudge1
    BY Heads DEF Init
  <2> QED BY <2>1 DEF FreshInv, Fresh
<1>2. RegistryTyped /\ FreshInv /\ [Next]_vars => RegistryTyped' /\ FreshInv'
  BY NextTyped, NextFresh
<1>3. RegistryTyped /\ FreshInv /\ [Next]_vars => [Builds]_<<reputation, record>>
  BY NextBuilds
<1>4. Spec => [][Builds]_<<reputation, record>>
  BY <1>1, <1>2, <1>3, InitTyped, PTL DEF Spec
<1> QED BY <1>4 DEF NudgesBuildOnEachOther, Builds
=============================================================================
