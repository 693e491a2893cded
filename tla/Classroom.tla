------------------------------ MODULE Classroom ------------------------------
(***************************************************************************)
(* Teachers that judge what agents did and write their judgements into a   *)
(* knowledge graph.  Writing one judgement is one step of the program;     *)
(* between two judgements of a survey other teachers write, and nodes are  *)
(* deleted.  Scores, labels and rationales are left out.                   *)
(***************************************************************************)
EXTENDS Functions, SequencesExt

CONSTANTS Teachers, Subjects, Rubrics,
          Writings,  \* bound of the model: observations and judgements written
          Deletions  \* bound of the model: nodes deleted and graphs closed

ASSUME ClassroomAssumption ==
    /\ Teachers # {} /\ Rubrics # {} /\ Writings \in Nat /\ Deletions \in Nat

VARIABLES graph,    \* the nodes, each with or without its properties, and the edges
          mount,    \* the graph of each teacher, if its construction has one
          work,     \* whose work a teacher's handler still has to judge
          owed,     \* edges of the judgements that were written whole
          written, deleted

classroom_vars == <<graph, mount, work, owed, written, deleted>>

Shared == "shared"
Unbuilt == "unbuilt"
Ambiguous == "ambiguous"
Graphs == Teachers \cup {Shared}
EmptyGraph == [nodes |-> <<>>, edges |-> {}]

node_id_for_agent(a) == <<"agent", a>>
node_id_for_rubric(r) == <<"rubric", r>>
node_id_for_judgement(t, s, ts) == <<"judgement", t, s, ts>>

-----------------------------------------------------------------------------
(* The in-memory graph: a node written again replaces the one before, an   *)
(* edge needs both its ends, a deleted node takes its edges with it.       *)
write_node(G, id, props) ==
    [G EXCEPT !.nodes = [n \in {id} \cup DOMAIN @ |-> IF n = id THEN props ELSE @[n]]]

KnowsEnds(G, edge) == edge[1] \in DOMAIN G.nodes /\ edge[2] \in DOMAIN G.nodes
write_edge(G, edge) == [G EXCEPT !.edges = @ \cup {edge}]

Touches(edge, id) == id \in {edge[1], edge[2]}

(* Mutant: the edges of a deleted node are kept. *)
DeleteOnlyTheNode(G, id) == [G EXCEPT !.nodes = Restrict(@, DOMAIN @ \ {id})]

delete_node(G, id) ==
    [nodes |-> Restrict(G.nodes, DOMAIN G.nodes \ {id}),
     edges |-> {edge \in G.edges : ~Touches(edge, id)}]

(* A teacher's own node has its role, the rubric's its criteria. *)
_ensure_self_nodes(G, t, rubric) ==
    write_node(write_node(G, node_id_for_agent(t), "full"), node_id_for_rubric(rubric), "full")

-----------------------------------------------------------------------------
(* The edges a judgement is made of. *)
ISSUED(t, j) == <<node_id_for_agent(t), j, "ISSUED">>
ABOUT(s, j) == <<j, node_id_for_agent(s), "ABOUT">>
USES_RUBRIC(r, j) == <<j, node_id_for_rubric(r), "USES_RUBRIC">>
JudgementEdges(t, s, r, j) == {ISSUED(t, j), ABOUT(s, j), USES_RUBRIC(r, j)}

(* Subject, rubric and judgement are written, the first two bare; then the *)
(* edges.  A teacher whose own node is gone fails at the first edge, and   *)
(* leaves a judgement that nobody issued.                                  *)
_persist_judgement(G, t, s, r, j) ==
    LET written_nodes ==
          write_node(write_node(write_node(G, node_id_for_agent(s), "bare"),
                                node_id_for_rubric(r), "bare"), j, "full")
    IN IF KnowsEnds(written_nodes, ISSUED(t, j))
       THEN [written_nodes EXCEPT !.edges = @ \cup JudgementEdges(t, s, r, j)]
       ELSE written_nodes

_persist_observation(G, s, ts) ==
    LET id == <<"observation", s, ts>> IN
    write_edge(write_node(write_node(G, id, "full"), node_id_for_agent(s), "bare"),
               <<node_id_for_agent(s), id, "REPORTED">>)

-----------------------------------------------------------------------------
(* A teacher has the one graph its address may use, an own one if there is *)
(* none, and is not built if there are two.                                *)
BuildTeacher(t) ==
    /\ mount[t] = Unbuilt
    /\ \E k \in {t, Shared, Ambiguous}, rubric \in Rubrics :
         /\ mount' = [mount EXCEPT ![t] = k]
         /\ graph' = IF k = Ambiguous THEN graph
                     ELSE [graph EXCEPT ![k] = _ensure_self_nodes(@, t, rubric)]
    /\ UNCHANGED <<work, owed, written, deleted>>

Ready(t) == mount[t] \in Graphs /\ work[t] = <<>>

(* teacher.judge: the sender's work.  teacher.survey: what the agents of a *)
(* pattern replied, error replies too, one judgement after the other.  A   *)
(* survey without a target, or one that nobody replied to, judges nothing. *)
Judge(t, s) ==
    /\ Ready(t) /\ s # t
    /\ work' = [work EXCEPT ![t] = <<s>>]
    /\ UNCHANGED <<graph, mount, owed, written, deleted>>

Survey(t) ==
    /\ Ready(t)
    /\ \E respondents \in SUBSET (Subjects \ {t}) :
         /\ respondents # {}
         /\ \E order \in SetToSeqs(respondents) : work' = [work EXCEPT ![t] = order]
    /\ UNCHANGED <<graph, mount, owed, written, deleted>>

RecordObservation(t, s) ==
    /\ Ready(t) /\ written < Writings /\ written' = written + 1
    /\ graph' = [graph EXCEPT ![mount[t]] = _persist_observation(@, s, written)]
    /\ UNCHANGED <<mount, work, owed, deleted>>

(* The judge's scores arrive and are written, under the default rubric or  *)
(* one the message or the judge named.                                     *)
Persist(t) ==
    /\ work[t] # <<>> /\ written < Writings /\ written' = written + 1
    /\ \E r \in Rubrics :
         LET k == mount[t]
             s == Head(work[t])
             j == node_id_for_judgement(t, s, written)
             G == _persist_judgement(graph[k], t, s, r, j)
             whole == node_id_for_agent(t) \in DOMAIN G.nodes
         IN /\ graph' = [graph EXCEPT ![k] = G]
            /\ owed' = [owed EXCEPT ![k] =
                          IF whole THEN @ \cup JudgementEdges(t, s, r, j) ELSE @]
            /\ work' = [work EXCEPT ![t] = IF whole THEN Tail(@) ELSE <<>>]
    /\ UNCHANGED <<mount, deleted>>

(* The judge raises or returns no scores: what a survey wrote before stays. *)
JudgeFails(t) ==
    /\ work[t] # <<>> /\ work' = [work EXCEPT ![t] = <<>>]
    /\ UNCHANGED <<graph, mount, owed, written, deleted>>

Delete(k) ==
    /\ deleted < Deletions /\ deleted' = deleted + 1
    /\ \E id \in DOMAIN graph[k].nodes :
         /\ graph' = [graph EXCEPT ![k] = delete_node(@, id)]
         /\ owed' = [owed EXCEPT ![k] = {edge \in @ : ~Touches(edge, id)}]
    /\ UNCHANGED <<mount, work, written>>

CloseGraph(k) ==
    /\ deleted < Deletions /\ deleted' = deleted + 1
    /\ graph' = [graph EXCEPT ![k] = EmptyGraph]
    /\ owed' = [owed EXCEPT ![k] = {}]
    /\ UNCHANGED <<mount, work, written>>

-----------------------------------------------------------------------------
ClassroomInit ==
    /\ graph = [k \in Graphs |-> EmptyGraph] /\ owed = [k \in Graphs |-> {}]
    /\ mount = [t \in Teachers |-> Unbuilt] /\ work = [t \in Teachers |-> <<>>]
    /\ written = 0 /\ deleted = 0

ClassroomNext ==
    \/ \E t \in Teachers :
         BuildTeacher(t) \/ Survey(t) \/ Persist(t) \/ JudgeFails(t)
         \/ \E s \in Subjects : Judge(t, s) \/ RecordObservation(t, s)
    \/ \E k \in Graphs : Delete(k) \/ CloseGraph(k)

ClassroomSpec == ClassroomInit /\ [][ClassroomNext]_classroom_vars

-----------------------------------------------------------------------------
(* A judgement that was written is whole as long as its nodes are there:   *)
(* teachers that share a graph, surveys that fail half way and deletions   *)
(* in between never tear it, and no edge outlives one of its ends.         *)
JudgementsAreWhole ==
    \A k \in Graphs :
      /\ owed[k] \subseteq graph[k].edges
      /\ \A edge \in graph[k].edges : KnowsEnds(graph[k], edge)
=============================================================================
