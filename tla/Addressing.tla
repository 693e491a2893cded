----------------------------- MODULE Addressing -----------------------------
(***************************************************************************)
(* Who may be sent what: addresses (params as a set of pairs) and patterns *)
(* of seven fields, dotted codes as sequences of their parts,              *)
(* the tiers a code needs, the access rules of a scope policy, and the     *)
(* formats of conversations.                                               *)
(***************************************************************************)
EXTENDS SequencesExt

Tiers == {"s", "j", "b", "e"}
Lifecycles == {"longterm", "session", "ephemeral", "stale-ok"}
Wildcard == "*"
Structural == {"org", "role", "domain", "subdomain", "lifecycle", "instance"}
FieldNames == Structural \cup {"accept", "params"}

ValidAddress(a) ==
    /\ DOMAIN a = FieldNames
    /\ a.accept \in SUBSET Tiers \ {{}}
    /\ a.lifecycle \in Lifecycles
    /\ \A f \in Structural : a[f] # Wildcard

ValidPattern(p) == DOMAIN p = FieldNames \ {"params"} /\ p.accept \subseteq Tiers
Everyone == [f \in Structural |-> Wildcard] @@ [accept |-> {}]
IsPattern(t) == "params" \notin DOMAIN t

(* A pattern that names tiers asks for at least those; its "*" is {}. *)
Matches(p, a) ==
    /\ \A f \in Structural : p[f] \in {Wildcard, a[f]}
    /\ p.accept \subseteq a.accept

Accepts(a, tiers) == a.accept \cap tiers # {}

(* A selector is a code, a family's glob or the glob of everything. *)
CodeMatches(code, selector) ==
    IF Last(selector) = Wildcard THEN IsPrefix(Front(selector), code) ELSE code = selector

-----------------------------------------------------------------------------
(* The codes, by family. *)
Codes ==
    [interview |-> {"text", "schema", "data", "embeddings", "sufficiency"},
     adversarial |-> {"challenge", "debate", "audit", "redteam"},
     collaborative |-> {"reason", "delegate", "merge", "consensus"},
     human |-> {"query", "observe", "intervene", "approve", "explain", "halt"},
     teacher |-> {"judge", "survey", "observe", "rubric"},
     kg |-> {"write", "read", "query"},
     info |-> {"query", "list", "write"},
     error |-> {"malformed", "unauthorized", "scope", "timeout", "conflict", "internal",
                "confidence", "upstream", "overloaded"}]

Turns ==
    {"acknowledge", "advance", "amplify", "answer", "aporia", "appeal", "ask", "assert",
     "back-or-qualify", "bridge", "carnivalize", "challenge-warrant", "check", "claim",
     "clarify", "commit", "confirm", "connect", "consolidate", "contest", "couple",
     "decide", "disclose", "discuss", "elicit", "encounter", "execute", "explore-options",
     "expose-contradiction", "extend", "fuse", "hear-a", "hear-b", "hypothesize",
     "identify-binary", "instruct", "integrate", "interpret", "interrogate", "interrupt",
     "invert", "layer", "leave-open", "listen", "mirror", "move", "negate", "offer", "open",
     "position", "present", "probe", "problematize", "propose", "rebut", "recalibrate",
     "receive", "reciprocate", "recognize", "reconstruct", "recurse", "reflect", "reframe",
     "report", "respond", "responsibility", "retell", "reterritorialize", "revise",
     "revoice", "riff", "rupture", "scaffold", "show-aporia", "state-interest", "support",
     "surface-mismatch", "sustain", "sustain-tension", "synthesize", "tell", "test",
     "trade", "validate", "voice", "weave", "weigh", "witness"}

AllCodes ==
    UNION {{<<family, c>> : c \in Codes[family]} : family \in DOMAIN Codes}
    \cup {<<"turn", t>> : t \in Turns} \cup {<<"info", "query", "embedding">>}

(* Bytes or embeddings, JSON only, either text or JSON; the rest is text. *)
VectorCodes == {<<"interview", "embeddings">>, <<"collaborative", "merge">>,
                <<"info", "query", "embedding">>}
JsonTurns == {"commit", "decide", "execute", "report", "trade"}
JsonCodes ==
    {<<"interview", "schema">>, <<"interview", "data">>, <<"adversarial", "audit">>,
     <<"collaborative", "consensus">>, <<"kg", "write">>, <<"kg", "read">>,
     <<"info", "list">>, <<"info", "write">>} \cup {<<"turn", t>> : t \in JsonTurns}
TextOrJsonCodes ==
    {<<"interview", "sufficiency">>, <<"collaborative", "delegate">>, <<"info", "query">>}
    \cup {<<"teacher", c>> : c \in Codes.teacher}
    \cup {<<"turn", t>> : t \in Turns \ JsonTurns}

required_tiers(code) ==
    CASE code \in VectorCodes -> {"b", "e"}
      [] code \in JsonCodes -> {"j"}
      [] code \in TextOrJsonCodes -> {"s", "j"}
      [] code = <<"kg", "query">> -> {"j", "e"}
      [] OTHER -> {"s"}

can_route(source, target, code) == Accepts(target, required_tiers(code))

-----------------------------------------------------------------------------
(* A rule opens its target to its sources for the codes it selects; a      *)
(* target no rule covers is open, and rules add up.                        *)
is_allowed(rules, source, target, code) ==
    LET covering == {r \in rules : Matches(r.target, target) /\ CodeMatches(code, r.code)}
    IN covering # {} => \E r \in covering : Matches(r.allow_sources, source)

Permits(rules, source, target, code) ==
    can_route(source, target, code) /\ is_allowed(rules, source, target, code)

-----------------------------------------------------------------------------
(* A format has a vocabulary of turns and says which role may take which.  *)
ValidFormat(f) ==
    \/ f.recipe_kind = "legacy_session"
    \/ /\ f.recipe_kind = "turn_sequence"
       /\ f.turn_primitives # {} /\ f.role_set # {}
       /\ DOMAIN f.role_turn_permissions \subseteq f.role_set
       /\ \A r \in DOMAIN f.role_turn_permissions :
            f.role_turn_permissions[r] \subseteq f.turn_primitives

is_turn_in_format(f, code) == f.recipe_kind = "legacy_session" \/ code \in f.turn_primitives
is_turn_legal(f, role, code) ==
    DOMAIN f.role_turn_permissions # {} =>
      /\ role \in DOMAIN f.role_turn_permissions
      /\ code \in f.role_turn_permissions[role]

_check_format(formats, m) ==
    m.format # "none" =>
      /\ m.format \in DOMAIN formats
      /\ is_turn_in_format(formats[m.format], m.code)
      /\ formats[m.format].recipe_kind = "turn_sequence" =>
           is_turn_legal(formats[m.format], m.source.role, m.code)

-----------------------------------------------------------------------------
(* Seconds an answer of an agent is kept; 0 is not at all. *)
LIFECYCLE_TTL ==
    [longterm |-> 86400, session |-> 3600, ephemeral |-> 0] @@ ("stale-ok" :> 604800)

(* A message that __post_init__ accepts. *)
PointToPoint == {"SEND", "SEND-GET"}
Verbs == PointToPoint \cup {"CAST", "CAST-GET", "CAST-SUB", "INVALIDATE"}
ValidMessage(m) ==
    /\ ValidAddress(m.source)
    /\ IF IsPattern(m.target) THEN ValidPattern(m.target) ELSE ValidAddress(m.target)
    /\ m.verb \in Verbs
    /\ m.verb \in PointToPoint => ~IsPattern(m.target)
    /\ m.code # <<>>

(* Mutant: the key of an answer leaves out the body of the question. *)
KeyWithoutBody(m) == <<m.target, m.code>>

(* Who asks is not a part of the key. *)
cache_key(m) == <<m.target, m.code, m.body>>
=============================================================================
