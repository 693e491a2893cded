------------------------------- MODULE Formats -------------------------------
(***************************************************************************)
(* The formats a conversation may declare.  A game mode says who may take  *)
(* which turn, in which rhythm its graph takes them, and what ends it; a   *)
(* session says which recipe opens, fills and closes a panel of agents.    *)
(* Descriptions and the prose of invariants are left out.                  *)
(***************************************************************************)
EXTENDS Addressing

(* What ends a mode; nothing in the program enforces it. *)
EndsOn(turn) == [kind |-> "signal", max_turns |-> 16, signal_codes |-> {<<"turn", turn>>}]
EndsAfter(n) == [kind |-> "counter", max_turns |-> n, signal_codes |-> {}]
Converges(n) == [kind |-> "convergence", max_turns |-> n, signal_codes |-> {}]
Never == [kind |-> "never", max_turns |-> 16, signal_codes |-> {}]

CodesOf(turns) == {<<"turn", t>> : t \in turns}
NoRecipe == "none"

(* A mode's turns are those of its rhythm, its roles those of its table.   *)
Mode(name, may_take, rhythm, ending) ==
    [name |-> name, recipe_kind |-> "turn_sequence",
     turn_primitives |-> CodesOf(ToSet(rhythm)),
     role_set |-> DOMAIN may_take,
     role_turn_permissions |-> [r \in DOMAIN may_take |-> CodesOf(may_take[r])],
     rhythm |-> [i \in DOMAIN rhythm |-> <<"turn", rhythm[i]>>],
     termination_rule |-> ending,
     code |-> <<>>, role |-> Wildcard, recipes |-> <<>>, kinds |-> <<>>,
     force_one |-> FALSE]

(* Roles that may each take every turn. *)
Equally(roles, rhythm) == [r \in roles |-> ToSet(rhythm)]
Joint(name, roles, rhythm, ending) == Mode(name, Equally(roles, rhythm), rhythm, ending)
Parties == {"party-a", "party-b"}

-----------------------------------------------------------------------------
INFORMATION_EXCHANGE ==
    Mode("information-exchange",
         [questioner |-> {"ask", "clarify", "confirm"},
         responder |-> {"answer"}],
         <<"ask", "answer", "clarify", "confirm">>, EndsOn("confirm"))
PERSUASION ==
    Mode("persuasion",
         [rhetor |-> {"claim", "support", "appeal"},
         audience |-> {"respond"}],
         <<"claim", "support", "appeal", "respond">>, EndsOn("respond"))
NEGOTIATION ==
    Joint("negotiation", Parties,
          <<"state-interest", "explore-options", "trade", "commit">>, EndsOn("commit"))
ROGERIAN ==
    Mode("rogerian",
         [speaker |-> {"listen", "reflect"},
         respondent |-> {"listen", "reflect", "validate", "respond"}],
         <<"listen", "reflect", "validate", "respond">>, EndsAfter(8))
DELIBERATIVE ==
    Joint("deliberative", {"participant"},
          <<"propose", "discuss", "weigh", "decide">>, EndsOn("decide"))
NARRATIVE ==
    Mode("narrative",
         [teller |-> {"tell", "weave"},
         witness |-> {"witness", "retell", "weave"}],
         <<"tell", "witness", "retell", "weave">>, EndsAfter(8))
PHATIC ==
    Joint("phatic", Parties,
          <<"open", "acknowledge", "reciprocate", "sustain">>, EndsAfter(4))
MOTIVATIONAL ==
    Mode("motivational",
         [guide |-> {"elicit", "mirror", "amplify"},
         speaker |-> {"consolidate"}],
         <<"elicit", "mirror", "amplify", "consolidate">>, EndsOn("consolidate"))
INVITATIONAL ==
    Mode("invitational",
         [offerer |-> {"offer", "leave-open"},
         receiver |-> {"receive", "acknowledge"}],
         <<"offer", "receive", "acknowledge", "leave-open">>, EndsOn("leave-open"))
DIALECTICAL ==
    Mode("dialectical",
         [thesis |-> {"assert", "synthesize", "recurse"},
         antithesis |-> {"negate", "synthesize", "recurse"}],
         <<"assert", "negate", "synthesize", "recurse">>, Converges(8))
HERMENEUTIC ==
    Joint("hermeneutic", Parties,
          <<"disclose", "interrogate", "revise", "fuse">>, Converges(10))
DECONSTRUCTIVE ==
    Mode("deconstructive",
         [asserter |-> {"assert"},
         deconstructor |-> {"identify-binary", "invert", "show-aporia"}],
         <<"assert", "identify-binary", "invert", "show-aporia">>, EndsOn("show-aporia"))
RHIZOMATIC ==
    Joint("rhizomatic", {"explorer"},
          <<"connect", "couple", "rupture", "reterritorialize">>, EndsAfter(12))
POLYPHONIC ==
    Joint("polyphonic", {"voice"},
          <<"voice", "revoice", "carnivalize", "layer">>, Never)
COORDINATIVE ==
    Joint("coordinative", Parties,
          <<"move", "interpret", "surface-mismatch", "recalibrate">>, EndsOn("recalibrate"))
SOCRATIC ==
    Mode("socratic",
         [questioner |-> {"elicit", "probe", "expose-contradiction"},
         respondent |-> {"aporia"}],
         <<"elicit", "probe", "expose-contradiction", "aporia">>, EndsOn("aporia"))
PRAGMATIST ==
    Joint("pragmatist", {"inquirer"},
          <<"problematize", "hypothesize", "test", "reconstruct">>, EndsOn("reconstruct"))
AGONISTIC ==
    Joint("agonistic", {"adversary"},
          <<"position", "contest", "recognize", "sustain-tension">>, Never)
LEVINASIAN ==
    Mode("levinasian",
         [face |-> {"encounter", "interrupt"},
         respondent |-> {"respond", "responsibility"}],
         <<"encounter", "interrupt", "respond", "responsibility">>, Never)
TOULMIN ==
    Mode("toulmin",
         [claimant |-> {"claim", "back-or-qualify"},
         challenger |-> {"challenge-warrant", "rebut"}],
         <<"claim", "challenge-warrant", "back-or-qualify", "rebut">>, EndsAfter(8))
DIRECTIVE ==
    Mode("directive",
         [commander |-> {"instruct"},
         executor |-> {"acknowledge", "execute", "report"}],
         <<"instruct", "acknowledge", "execute", "report">>, EndsOn("report"))
CO_CREATIVE ==
    Joint("co-creative", {"creator"},
          <<"propose", "extend", "riff", "integrate">>, EndsAfter(16))
PEDAGOGICAL ==
    Mode("pedagogical",
         [instructor |-> {"present", "check", "scaffold", "advance"},
         learner |-> {"check"}],
         <<"present", "check", "scaffold", "advance">>, EndsAfter(12))
MEDIATION ==
    Mode("mediation",
         Equally({"mediator"}, <<"hear-a", "hear-b", "reframe", "bridge">>) @@ Equally(Parties, <<>>),
         <<"hear-a", "hear-b", "reframe", "bridge">>, EndsOn("bridge"))

GAME_MODE_FORMATS ==
    {INFORMATION_EXCHANGE, PERSUASION, NEGOTIATION, ROGERIAN, DELIBERATIVE, NARRATIVE,
     PHATIC, MOTIVATIONAL, INVITATIONAL, DIALECTICAL, HERMENEUTIC, DECONSTRUCTIVE,
     RHIZOMATIC, POLYPHONIC, COORDINATIVE, SOCRATIC, PRAGMATIST, AGONISTIC, LEVINASIAN,
     TOULMIN, DIRECTIVE, CO_CREATIVE, PEDAGOGICAL, MEDIATION}

-----------------------------------------------------------------------------
(* A session's three rounds, each with its recipe (role and mode) and the  *)
(* way it is held: every agent at once, one agent probed, or not at all.   *)
Session(name, code, role, opening, middle, closing, kind) ==
    [name |-> name, recipe_kind |-> "legacy_session", turn_primitives |-> {},
     role_set |-> {}, role_turn_permissions |-> <<>>, rhythm |-> <<>>,
     termination_rule |-> EndsAfter(16),
     code |-> code, role |-> role,
     recipes |-> <<<<role, opening>>, <<role, middle>>, <<role, closing>>>>,
     kinds |-> <<"broadcast", IF middle = NoRecipe THEN "skip" ELSE kind, kind>>,
     force_one |-> kind = "sequential_probes"]

Panel(name, code, role, opening, middle, closing) ==
    Session(name, code, role, opening, middle, closing, "broadcast")
Witness(name, code, opening, middle, closing) ==
    Session(name, code, name, opening, middle, closing, "sequential_probes")

Reasoning(name, role, opening, middle, closing) ==
    Panel(name, <<"collaborative", "reason">>, role, opening, middle, closing)

LegacyFormats ==
    {Panel("debate", <<"adversarial", "debate">>, "adversarial",
           "debate-me", "debate-others", "closing"),
     Session("interview-me", <<"human", "query">>, "interview",
             "me", "me-probe", "me-summary", "sequential_probes"),
     Panel("interview-yall", <<"human", "query">>, "interview",
           "yall", NoRecipe, "yall-synthesize"),
     Panel("interview-eachother", <<"human", "query">>, "interview",
           "yall", "eachother", "eachother-answer"),
     Reasoning("collaborate-joint", "collaborate",
               "joint-propose", "joint-build-on", "joint-synthesize"),
     Reasoning("collaborate-role", "collaborate",
               "role-plan", "role-conflicts", "role-consolidate"),
     Reasoning("collaborate-brainstorm", "collaborate",
               "brainstorm-diverge", "brainstorm-cluster", "brainstorm-top3"),
     Reasoning("converse-free", "converse", "free-open", "free-respond", "free-reflect"),
     Reasoning("converse-socratic", "converse",
               "socratic-question", "socratic-answer", "socratic-unanswered"),
     Reasoning("converse-devils", "converse",
               "devils-position", "devils-flip", "devils-final"),
     Reasoning("fiction-theatre", "fiction",
               "theatre-enter", "theatre-respond", "theatre-final"),
     Reasoning("fiction-authors", "fiction",
               "authors-setup", "authors-complication", "authors-resolution"),
     Panel("deliberate", <<"collaborative", "consensus">>, "deliberate",
           "position", "negotiate", "vote"),
     Witness("teach", <<"human", "explain">>, "explain", "misconception", "remember"),
     Panel("estimate", <<"collaborative", "consensus">>, "estimate",
           "propose", "update", "commit"),
     Witness("interrogate", <<"adversarial", "challenge">>, "open", "cross", "hold")}

-----------------------------------------------------------------------------
(* The registry: names are unique, or the module fails to load.  A name    *)
(* that is not in its domain is no format.                                 *)
AllFormats == LegacyFormats \cup GAME_MODE_FORMATS
FORMATS == [n \in {f.name : f \in AllFormats} |-> CHOOSE f \in AllFormats : f.name = n]

(* What Format's checks and the registry's demand of the tables. *)
FormatsLoad ==
    /\ Cardinality(DOMAIN FORMATS) = Cardinality(AllFormats)
    /\ \A f \in AllFormats : ValidFormat(f)
=============================================================================
