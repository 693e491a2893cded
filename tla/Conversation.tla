----------------------------- MODULE Conversation -----------------------------
(***************************************************************************)
(* A game mode played on a thread: the engine checks each turn against the *)
(* format it declares, FormatAgents dispatch the turns to their hooks, the *)
(* mode's graph follows its rhythm, and a ThreadManager keeps who takes    *)
(* part.  One agent plays each role.                                       *)
(***************************************************************************)
EXTENDS Formats

CONSTANTS Modes,       \* names of the modes that are played
          AlsoPlays,   \* other formats each agent supports
          Strays,      \* bound of the model: messages beside the rhythm
          ThreadCalls  \* bound of the model: calls of the thread manager

ASSUME ConversationAssumption ==
    /\ Modes \subseteq {f.name : f \in GAME_MODE_FORMATS}
    /\ AlsoPlays \subseteq DOMAIN FORMATS
    /\ Strays \in Nat /\ ThreadCalls \in Nat

VARIABLES mode,      \* the mode of this conversation
          hooks,     \* the turns for which each role's class overrides the hook
          built,     \* agents that passed the contract check
          refused,   \* agents whose construction raised
          inbox,     \* messages that were let through and not yet handled
          played,    \* the state of the mode's graph
          unhandled, \* turns that met a hook nobody wrote, with their format
          strays,
          thread,    \* the thread's record, participants and stream
          call       \* what each agent's call of the thread manager does next

play_vars == <<mode, hooks, built, refused, inbox, played, unhandled, strays>>
thread_vars == <<thread, call>>

Roles == mode.role_set
supported_formats == {mode.name} \cup AlsoPlays
IsTurn(code) == code[1] = "turn"

-----------------------------------------------------------------------------
(* Mutant: the check asks only for the turns the agent's own role may take. *)
ValidateOwnTurns(r) ==
    \A n \in supported_formats :
      FORMATS[n].recipe_kind = "turn_sequence" =>
        FORMATS[n].role_turn_permissions[r] \subseteq hooks[r]

(* FormatAgent: every turn of every supported mode needs a hook of the     *)
(* class's own, whoever may take the turn.                                 *)
_validate_format_contracts(r) ==
    \A n \in supported_formats :
      /\ n \in DOMAIN FORMATS
      /\ FORMATS[n].recipe_kind = "turn_sequence" =>
           FORMATS[n].turn_primitives \subseteq hooks[r]

Construct(r) ==
    /\ r \notin built \cup refused
    /\ IF _validate_format_contracts(r)
       THEN built' = built \cup {r} /\ UNCHANGED refused
       ELSE refused' = refused \cup {r} /\ UNCHANGED built
    /\ UNCHANGED <<mode, hooks, inbox, played, unhandled, strays, thread_vars>>

(* What the engine lets through is in the stream before it is in the inbox. *)
Send(r, to, format, code) ==
    LET m == [source |-> [role |-> r], to |-> to, format |-> format, code |-> code]
    IN /\ _check_format(FORMATS, m)
       /\ thread' = [thread EXCEPT !.stream = Append(@, code)]
       /\ inbox' = inbox \cup {m}

(* handle_message drops what declares no format of the agent's and what is *)
(* no turn; the base hook of a turn raises.                                *)
HandleTurn(m) ==
    /\ m \in inbox /\ inbox' = inbox \ {m}
    /\ unhandled' = IF m.format \in supported_formats /\ IsTurn(m.code)
                    THEN unhandled \cup {<<m.format, c>> : c \in {m.code} \ hooks[m.to]}
                    ELSE unhandled
    /\ UNCHANGED <<mode, hooks, built, refused, played, strays, thread_vars>>

(* Any agent may send anything: what the mode knows, no turn at all, or a  *)
(* turn of another mode under the mode, another format or an unknown one.  *)
OutOfRhythm ==
    ({mode.name} \X (mode.turn_primitives \cup {<<"human", "query">>}))
    \cup ({mode.name, "debate", "unknown"} \X {<<"turn", "witness">>})
Stray(r, to) ==
    /\ strays < Strays /\ strays' = strays + 1
    /\ \E stray \in OutOfRhythm : Send(r, to, stray[1], stray[2])
    /\ UNCHANGED <<mode, hooks, built, refused, played, unhandled, call>>

-----------------------------------------------------------------------------
(* Mutant: the node before the last one already terminates. *)
GraphStopsEarly(state) ==
    LET turns == Append(state.turns_so_far, mode.rhythm[Len(state.turns_so_far) + 1])
    IN [turns_so_far |-> turns, last_turn |-> Last(turns),
        terminated |-> Len(turns) = Len(mode.rhythm) - 1]

(* The graph's nodes in the order of the rhythm; the last one terminates.  *)
_linear_graph(state) ==
    LET turns == Append(state.turns_so_far, mode.rhythm[Len(state.turns_so_far) + 1])
    IN [turns_so_far |-> turns, last_turn |-> Last(turns),
        terminated |-> Len(turns) = Len(mode.rhythm)]

(* A player takes the turn the graph comes to, if the engine lets it, and  *)
(* says it to another, if there is one.                                    *)
Play(r, to) ==
    /\ ~played.terminated /\ (r = to => Roles = {r})
    /\ played' = _linear_graph(played)
    /\ Send(r, to, mode.name, played'.last_turn)
    /\ UNCHANGED <<mode, hooks, built, refused, unhandled, strays, call>>

-----------------------------------------------------------------------------
(* The thread manager.  Each call is two commands to the store at most.    *)
Calling(r, from, to) == call[r] = from /\ call' = [call EXCEPT ![r] = to]
MayCall == thread.calls < ThreadCalls

(* Creating a thread that exists keeps its other fields. *)
CreateMeta(r) ==
    /\ MayCall /\ Calling(r, "idle", "create")
    /\ thread' = [thread EXCEPT !.topic = TRUE, !.calls = @ + 1]
AddInitiator(r) ==
    /\ Calling(r, "create", "idle")
    /\ thread' = [thread EXCEPT !.participants = @ \cup {r}]

FindThread(r) ==
    /\ MayCall /\ (thread.topic \/ thread.closed_at)
    /\ Calling(r, "idle", "close")
    /\ thread' = [thread EXCEPT !.calls = @ + 1]
CloseThread(r) ==
    /\ Calling(r, "close", "idle")
    /\ thread' = [thread EXCEPT !.closed_at = TRUE]

JoinThread(r) ==
    /\ MayCall /\ Calling(r, "idle", "idle")
    /\ thread' = [thread EXCEPT !.participants = @ \cup {r}, !.calls = @ + 1]
LeaveThread(r) ==
    /\ MayCall /\ Calling(r, "idle", "idle")
    /\ thread' = [thread EXCEPT !.participants = @ \ {r}, !.calls = @ + 1]

(* append() joins its source and writes the message, closed or not. *)
JoinToAppend(r) ==
    /\ MayCall /\ Calling(r, "idle", "append")
    /\ thread' = [thread EXCEPT !.participants = @ \cup {r}, !.calls = @ + 1]
AppendToThread(r) ==
    /\ Calling(r, "append", "idle")
    /\ \E code \in mode.turn_primitives :
         thread' = [thread EXCEPT !.stream = Append(@, code)]

ThreadStep(r) ==
    /\ \/ CreateMeta(r) \/ AddInitiator(r) \/ FindThread(r) \/ CloseThread(r)
       \/ JoinThread(r) \/ LeaveThread(r) \/ JoinToAppend(r) \/ AppendToThread(r)
    /\ UNCHANGED play_vars

-----------------------------------------------------------------------------
(* Each class writes every hook of the mode, or one class forgets one. *)
ConversationInit ==
    /\ mode \in {FORMATS[n] : n \in Modes}
    /\ \/ hooks = [r \in Roles |-> mode.turn_primitives]
       \/ \E lazy \in Roles, t \in mode.turn_primitives :
            hooks = [r \in Roles |-> mode.turn_primitives \ (IF r = lazy THEN {t} ELSE {})]
    /\ built = {} /\ refused = {} /\ inbox = {} /\ unhandled = {} /\ strays = 0
    /\ played = [turns_so_far |-> <<>>, last_turn |-> <<>>, terminated |-> FALSE]
    /\ thread = [topic |-> FALSE, closed_at |-> FALSE, participants |-> {}, stream |-> <<>>,
                 calls |-> 0]
    /\ call = [r \in Roles |-> "idle"]

AnyPlay == \E r, to \in built : Play(r, to)
AnyStray == \E r, to \in built : Stray(r, to)
AnyConstruct == \E r \in Roles : Construct(r)
AnyHandle == \E m \in inbox : HandleTurn(m)
ConversationNext ==
    AnyConstruct \/ AnyPlay \/ AnyStray \/ AnyHandle \/ (\E r \in built : ThreadStep(r))

ConversationSpec ==
    ConversationInit /\ [][ConversationNext]_<<play_vars, thread_vars>>

-----------------------------------------------------------------------------
(* No turn that the engine lets through under a mode meets a hook its      *)
(* agent's class did not write: what the constructor checks covers what    *)
(* the engine admits, from whichever role it comes.  Under a format that   *)
(* is no sequence of turns nothing is checked, and a turn may fail.        *)
TurnsMeetTheirHooks ==
    \A turn \in unhandled : FORMATS[turn[1]].recipe_kind # "turn_sequence"

(* A mode that was played to its end; one that ends on a signal ends on the *)
(* turn that gives it.                                                      *)
PlayedOut ==
    /\ played.terminated
    /\ ToSet(played.turns_so_far) = mode.turn_primitives
    /\ mode.termination_rule.kind = "signal" =>
         played.last_turn \in mode.termination_rule.signal_codes
=============================================================================
