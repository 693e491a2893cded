--------------------------- MODULE MCConversations ---------------------------
(* Each behaviour follows one of the agents' activities: a mode that is    *)
(* played, a thread that is managed, gateways that forward, a session that *)
(* is run, a class that is judged; the others rest.                        *)
EXTENDS Conversation, SessionRunner, Relay, Classroom

VARIABLE focus

Ask3(to, relay_to) == [to |-> to, relay_to |-> relay_to, code |-> "query"]
Circle ==
    {Ask3("g1", "g2"), Ask3("g2", "g1"), Ask3("g1", "h"), Ask3("g2", "garbage")}
OfOneAnother == {Ask3("g1", "g2")}
AllModes == {f.name : f \in GAME_MODE_FORMATS}
HeardSessions ==
    {f.name : f \in LegacyFormats} \ {"deliberate", "estimate", "interview-eachother"}
TwoPanelists == <<"ana", "bob">>
Consensus == {"deliberate"}

ASSUME FormatsAreSound == FormatsLoad

vars == <<focus, play_vars, thread_vars, session_vars, relay_vars, classroom_vars>>

Init ==
    /\ focus \in {"play", "thread", "session", "relay", "class"}
    /\ ConversationInit /\ SessionInit /\ RelayInit /\ ClassroomInit
    /\ focus \notin {"play"} => mode = FORMATS["directive"] /\ hooks = [r \in Roles |-> mode.turn_primitives]
    /\ focus # "session" => fmt.name = (CHOOSE n \in Sessions : TRUE)
    /\ focus # "relay" => level = [h \in Humans |-> "L1"]

On_(activity) == focus = activity /\ UNCHANGED focus
ElsePlay == UNCHANGED <<session_vars, relay_vars, classroom_vars>>
ElseSession == UNCHANGED <<play_vars, thread_vars, relay_vars, classroom_vars>>
ElseRelay == UNCHANGED <<play_vars, thread_vars, session_vars, classroom_vars>>
ElseClass == UNCHANGED <<play_vars, thread_vars, session_vars, relay_vars>>

Plays == On_("play") /\ (AnyConstruct \/ AnyPlay \/ AnyStray \/ AnyHandle) /\ ElsePlay
Threads == On_("thread") /\ (AnyConstruct \/ \E r \in built : ThreadStep(r)) /\ ElsePlay
Sits == On_("session") /\ SessionNext /\ ElseSession
Relays == On_("relay") /\ RelayNext /\ ElseRelay
Teaches == On_("class") /\ ClassroomNext /\ ElseClass
Next == Plays \/ Threads \/ Sits \/ Relays \/ Teaches

PlayOn == On_("play") /\ AnyPlay /\ ElsePlay
RelayOn == On_("relay") /\ AnyGatewayStep /\ ElseRelay
Spec == Init /\ [][Next]_vars /\ WF_vars(PlayOn) /\ WF_vars(RelayOn)

(* Once everyone is there a mode is played to its end: in its rhythm there *)
(* is always a role that may take the next turn the graph comes to.        *)
ModesPlayOut == (focus = "play" /\ built = Roles) ~> PlayedOut
=============================================================================
