---------------------------- MODULE SessionRunner ----------------------------
(***************************************************************************)
(* A session: a moderator invites a panel of agents, holds up to three     *)
(* rounds with the format's recipes, and tears everything down.  Prompts   *)
(* are abstracted to the parts of the context they read, answers to        *)
(* whether the model spoke or failed.                                      *)
(***************************************************************************)
EXTENDS Formats

CONSTANTS Sessions,     \* names of the session formats that are run
          Panelists,    \* the agents a full panel has, in order of invitation
          SessionFaults \* bound of the model: what goes wrong in one session

ASSUME SessionAssumption ==
    /\ Sessions \subseteq {f.name : f \in LegacyFormats}
    /\ Panelists \in Seq(STRING) /\ Panelists # <<>>
    /\ SessionFaults \in Nat

VARIABLES fmt,       \* the format of the session
          stage,     \* where run_debate is
          round,     \* 1 to 3, and the probe it is at
          servers,   \* the servers it registered, and the leaves on the menu
          listening, \* agents whose inbox is subscribed
          panel,     \* agents the registry holds
          waiting,   \* agents that have a question of this round to answer
          heard,     \* who spoke in each round
          starved,   \* what a recipe read and its context lacked
          mishaps    \* how often something went wrong

session_vars == <<fmt, stage, round, servers, listening, panel, waiting, heard, starved, mishaps>>

-----------------------------------------------------------------------------
(* The recipes by role and mode, each with the context it reads; the       *)
(* persona and the wording are left out.                                   *)
On(what) == {what}
AmongPeers(what) == {what, "others"}
LookingBack(what) == {what, "transcript"}
Probed(what) == {what, "prior", "follow_up"}

(* A table of modes, each with the context its recipe reads. *)
Recipes(table) ==
    [key \in {entry[1] : entry \in table} |-> (CHOOSE entry \in table : entry[1] = key)[2]]

DebateRecipes ==
    {<<"debate-me", On("question")>>, <<"debate-others", AmongPeers("question")>>,
     <<"rebuttal", {"question", "attacks_on_me"}>>, <<"closing", On("question")>>}
InterviewRecipes ==
    {<<"me", On("topic")>>, <<"me-probe", Probed("topic")>>, <<"me-summary", LookingBack("topic")>>,
     <<"yall", On("topic")>>, <<"yall-synthesize", AmongPeers("topic")>>,
     <<"yall-disagree", AmongPeers("topic")>>, <<"eachother", AmongPeers("topic")>>,
     <<"eachother-answer", {"topic", "questions_for_me"}>>}
CollaborateRecipes ==
    {<<"joint-propose", On("question")>>, <<"joint-build-on", AmongPeers("question")>>,
     <<"joint-synthesize", LookingBack("question")>>,
     <<"role-plan", On("question")>>, <<"role-conflicts", AmongPeers("question")>>,
     <<"role-consolidate", LookingBack("question")>>,
     <<"brainstorm-diverge", On("question")>>, <<"brainstorm-cluster", AmongPeers("question")>>,
     <<"brainstorm-top3", LookingBack("question")>>}
ConverseRecipes ==
    {<<"free-open", On("question")>>, <<"free-respond", LookingBack("question")>>,
     <<"free-reflect", LookingBack("question")>>,
     <<"socratic-question", On("question")>>, <<"socratic-answer", AmongPeers("question")>>,
     <<"socratic-unanswered", LookingBack("question")>>,
     <<"devils-position", On("question")>>, <<"devils-flip", AmongPeers("question")>>,
     <<"devils-final", LookingBack("question")>>}
FictionRecipes ==
    {<<"theatre-enter", On("question")>>, <<"theatre-respond", {"transcript"}>>,
     <<"theatre-final", {"transcript"}>>, <<"authors-setup", On("question")>>,
     <<"authors-complication", LookingBack("question")>>,
     <<"authors-resolution", LookingBack("question")>>}
DeliberateRecipes ==
    {<<"position", On("question")>>, <<"negotiate", AmongPeers("question")>>,
     <<"vote", LookingBack("question")>>}
TeachRecipes ==
    {<<"explain", On("topic")>>, <<"misconception", Probed("topic")>>,
     <<"remember", LookingBack("topic")>>}
EstimateRecipes ==
    {<<"propose", On("question")>>, <<"update", AmongPeers("question")>>,
     <<"commit", LookingBack("question")>>}
InterrogateRecipes ==
    {<<"open", On("topic")>>, <<"cross", Probed("topic")>>, <<"hold", LookingBack("topic")>>}
LegacyRecipes ==
    [interview |-> {<<"open", On("topic")>>, <<"probe", Probed("topic")>>},
     collaborative |-> {<<"reason", On("question")>>}]

RECIPES ==
    [adversarial |-> Recipes(DebateRecipes),
     interview |-> Recipes(InterviewRecipes \cup LegacyRecipes.interview),
     collaborative |-> Recipes(LegacyRecipes.collaborative),
     collaborate |-> Recipes(CollaborateRecipes), converse |-> Recipes(ConverseRecipes),
     fiction |-> Recipes(FictionRecipes), deliberate |-> Recipes(DeliberateRecipes),
     teach |-> Recipes(TeachRecipes), estimate |-> Recipes(EstimateRecipes),
     interrogate |-> Recipes(InterrogateRecipes)]

HasRecipe(recipe) == recipe[1] \in DOMAIN RECIPES /\ recipe[2] \in DOMAIN RECIPES[recipe[1]]
Reads(recipe) == RECIPES[recipe[1]][recipe[2]]
(* A subscript that is missing raises; anything else is read with a default. *)
Demands(recipe) == Reads(recipe) \cap {"topic", "question"}

-----------------------------------------------------------------------------
count == IF fmt.force_one THEN 1 ELSE Len(Panelists)
invited == {Panelists[i] : i \in 1 .. count}
single_target == Panelists[1]
recipe == fmt.recipes[round.number]
kind == fmt.kinds[round.number]
probe_count == IF round.number = 3 THEN 1 ELSE 3  \* the closing is one turn

(* What the moderator puts into the body of this round's messages. *)
(* Mutant: the body of the second round forgets what the peers said. *)
ContextWithoutPeers ==
    {"topic", "question"}
    \cup (IF round.number = 2 /\ kind = "broadcast"
          THEN {"transcript", "attacks_on_me", "questions_for_me"} ELSE {})
    \cup (IF round.number = 3 THEN {"others", "transcript"} ELSE {})
    \cup (IF kind = "sequential_probes" THEN {"prior", "follow_up"} ELSE {})

Context ==
    {"topic", "question"}
    \cup (IF round.number = 2 /\ kind = "broadcast"
          THEN {"others", "transcript", "attacks_on_me", "questions_for_me"} ELSE {})
    \cup (IF round.number = 3 THEN {"others", "transcript"} ELSE {})
    \cup (IF kind = "sequential_probes" THEN {"prior", "follow_up"} ELSE {})

(* Agents are invited with the tier "s" alone. *)
Understands(a) == required_tiers(fmt.code) \cap {"s"} # {}

Mishap == mishaps < SessionFaults /\ mishaps' = mishaps + 1
Continue == mishaps' = mishaps
Reached(where) == stage = where

-----------------------------------------------------------------------------
(* The run's own server and leaf; a second provider is optional, listed    *)
(* and alive only if a probe proved it, and a second server is bound to    *)
(* it.  A failure of the optional part is logged and the run goes on.      *)
SetUp ==
    /\ Reached("setup") /\ stage' = "invite"
    /\ \E modal \in {"off", "listed", "alive"}, second \in BOOLEAN :
         /\ second => modal # "off"
         /\ servers' = [registered |-> {"primary"} \cup (IF second THEN {"secondary"} ELSE {}),
                        menu |-> {"primary"} \cup (IF modal = "off" THEN {} ELSE {"modal"}),
                        alive |-> {"primary"} \cup (IF modal = "alive" THEN {"modal"} ELSE {})]
    /\ UNCHANGED <<fmt, round, listening, panel, waiting, heard, starved, mishaps>>

(* All agents are registered before any is started; the moderator is       *)
(* registered last and has no inbox.                                       *)
Invite ==
    /\ Reached("invite") /\ Continue
    /\ panel' = invited \cup {"moderator"}
    /\ stage' = "round"
    /\ UNCHANGED <<fmt, round, servers, listening, waiting, heard, starved>>

(* An exception at any await before the teardown ends the run where it is: *)
(* whatever is registered and started stays so.                            *)
Raise ==
    /\ stage \in {"setup", "invite", "round", "probe"} /\ Mishap
    /\ stage' = "raised" /\ waiting' = {}
    /\ panel' \in IF Reached("invite") THEN SUBSET invited ELSE {panel}
    /\ UNCHANGED <<fmt, round, servers, listening, heard, starved>>

(* start() only spawns the consumer; it subscribes soon after. *)
Subscribed(a) ==
    /\ a \in panel \ (listening \cup {"moderator"})
    /\ stage \in {"round", "probe", "gather"}
    /\ listening' = listening \cup {a}
    /\ UNCHANGED <<fmt, stage, round, servers, panel, waiting, heard, starved, mishaps>>

(* The pause before the first round is meant to outlast the subscriptions. *)
Paused == IF invited \subseteq listening THEN Continue ELSE Mishap

NextRound ==
    /\ round' = [number |-> round.number + 1, probe |-> 0]
    /\ stage' = IF round.number = 3 THEN "snapshot" ELSE "round"

SkipRound ==
    /\ Reached("round") /\ kind = "skip" /\ Continue /\ NextRound
    /\ UNCHANGED <<fmt, servers, listening, panel, waiting, heard, starved>>

(* One CAST-GET to every agent of the panel that can take the code. *)
Broadcast ==
    /\ Reached("round") /\ kind = "broadcast" /\ Paused
    /\ stage' = "gather"
    /\ waiting' = {a \in invited \cap listening : Understands(a)}
    /\ UNCHANGED <<fmt, round, servers, listening, panel, heard, starved>>

(* One SEND-GET after another to the only agent, each asking about the     *)
(* answer before.  A code the agent cannot take is refused with an         *)
(* exception.                                                              *)
Probe ==
    /\ stage \in {"round", "probe"} /\ kind = "sequential_probes"
    /\ round.probe < probe_count /\ Paused
    /\ stage' = IF Understands(single_target) THEN "gather" ELSE "raised"
    /\ round' = [round EXCEPT !.probe = @ + 1]
    /\ waiting' = {single_target} \cap listening
    /\ UNCHANGED <<fmt, servers, listening, panel, heard, starved>>

-----------------------------------------------------------------------------
(* The agent renders the recipe and calls its model.  An unknown recipe    *)
(* raises something other than the KeyError it catches, and is answered,   *)
(* like a model that fails, with an error that has no text.                *)
Answered(a) == Reached("gather") /\ a \in waiting /\ waiting' = waiting \ {a}

Speak(a) ==
    /\ Answered(a) /\ HasRecipe(recipe) /\ Demands(recipe) \subseteq Context
    /\ heard' = [heard EXCEPT ![round.number] = @ \cup {a}]
    /\ starved' = starved \cup (Reads(recipe) \ Context)
    /\ UNCHANGED <<fmt, stage, round, servers, listening, panel, mishaps>>

Err(a) ==
    /\ Answered(a) /\ (HasRecipe(recipe) => Mishap) /\ (~HasRecipe(recipe) => Continue)
    /\ UNCHANGED <<fmt, stage, round, servers, listening, panel, heard, starved>>

(* Every question is answered, or its time is up. *)
Gathered ==
    /\ Reached("gather")
    /\ IF waiting = {} THEN Continue ELSE Mishap
    /\ waiting' = {}
    /\ IF kind = "sequential_probes" /\ round.probe < probe_count
       THEN stage' = "probe" /\ UNCHANGED round
       ELSE NextRound
    /\ UNCHANGED <<fmt, servers, listening, panel, heard, starved>>

-----------------------------------------------------------------------------
(* A snapshot that fails is logged.  Agents are stopped and taken out of   *)
(* the registry; a failure there is ignored, and the record stays.         *)
Snapshot ==
    /\ Reached("snapshot") /\ stage' = "teardown"
    /\ UNCHANGED <<fmt, round, servers, listening, panel, waiting, heard, starved, mishaps>>

TearDown(a) ==
    /\ Reached("teardown") /\ a \in listening
    /\ listening' = listening \ {a}
    /\ \/ panel' = panel \ {a} /\ Continue
       \/ panel' = panel /\ Mishap
    /\ UNCHANGED <<fmt, stage, round, servers, waiting, heard, starved>>

Close ==
    /\ Reached("teardown") /\ listening = {}
    /\ stage' = "done"
    /\ \/ panel' = panel \ {"moderator"} /\ Continue
       \/ panel' = panel /\ Mishap
    /\ UNCHANGED <<fmt, round, servers, listening, waiting, heard, starved>>

-----------------------------------------------------------------------------
SessionInit ==
    /\ fmt \in {FORMATS[n] : n \in Sessions}
    /\ stage = "setup" /\ round = [number |-> 1, probe |-> 0]
    /\ servers = [registered |-> {}, menu |-> {}, alive |-> {}]
    /\ listening = {} /\ panel = {} /\ waiting = {}
    /\ heard = [r \in 1 .. 3 |-> {}] /\ starved = {} /\ mishaps = 0

RoundStep == SkipRound \/ Broadcast \/ Probe \/ Gathered
PanelStep == \E a \in invited : Subscribed(a) \/ Speak(a) \/ Err(a) \/ TearDown(a)
SessionNext == SetUp \/ Invite \/ Raise \/ RoundStep \/ PanelStep \/ Snapshot \/ Close
SessionSpec == SessionInit /\ [][SessionNext]_session_vars

-----------------------------------------------------------------------------
(* A session in which nothing failed has heard its whole panel in every    *)
(* round it held, on prompts that got everything their recipe reads: the   *)
(* tables of codes, tiers, rounds and recipes agree with the driver.       *)
SessionsAreHeard ==
    stage \in {"done", "raised"} /\ mishaps = 0 =>
      /\ starved = {}
      /\ \A r \in 1 .. 3 : fmt.kinds[r] # "skip" => heard[r] = invited
=============================================================================
