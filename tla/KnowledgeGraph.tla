----------------------------- MODULE KnowledgeGraph -----------------------------
(***************************************************************************)
(* The knowledge graph: KnowledgeGraphEngine in                            *)
(* packages/aegismind-graph/src/aegismind_graph/engine.py, the two that    *)
(* write it (bootstrap.py, when the server starts with an empty graph, and *)
(* scripts/seed_graph.py) and the handler of /graph/query.                 *)
(*                                                                         *)
(* Each process has a copy of the graph that it loads once, and writes the *)
(* whole of it to the same file at every change; a step is one such write. *)
(* The server loads two: create_app builds a CoreState, whose copy answers *)
(* the queries and is never written, and on its way up the application     *)
(* builds another one, whose copy is the one that is seeded.               *)
(* A file that is missing and one that cannot be read are loaded alike, as *)
(* the empty graph.  A node is its id; kinds, names and properties are     *)
(* left out, and with them the filters by text.                            *)
(***************************************************************************)
EXTENDS Values, FiniteSets, TLC

CONSTANTS
  Nodes,                \* ids of nodes
  Default, Script,      \* what the server and the script add: lists of nodes and edges
  MaxStarts,            \* bound on the starts of both processes together
  MaxGraphErrors        \* bound on the writes that fail and the crashes

Writers == {"server", "script"}

VARIABLES
  graphFile,            \* {} if it is missing or cannot be read, or {the graph}
  served,               \* the copy the server answers from, or None
  graphOf,              \* per process, its copy of the graph or None when it is down
  graphTodo,            \* per process, what it has still to add
  graphClean,           \* history: per process, whether its copy was whole when it was
                        \* loaded, and every write since has succeeded
  graphStarts, graphErrors,
  graphAnswer           \* the answer to the query just made, or None

graphVars == <<graphFile, served, graphOf, graphTodo, graphClean, graphStarts, graphErrors, graphAnswer>>

IsNode(op) == Len(op) = 1
Edges(ops) == {ops[i] : i \in {j \in DOMAIN ops : ~IsNode(ops[j])}}

\* Both lists in the source have their nodes first, and the script connects whatever the
\* server connects.
NodesFirst(ops) == \A i, j \in DOMAIN ops : i < j /\ IsNode(ops[j]) => IsNode(ops[i])

ASSUME GraphAssumption ==
  /\ MaxStarts \in Nat /\ MaxGraphErrors \in Nat /\ IsFiniteSet(Nodes) /\ None \notin Nodes
  /\ \A ops \in {Default, Script} :
       /\ ops \in Seq(Seq(Nodes)) /\ \A i \in DOMAIN ops : Len(ops[i]) \in {1, 2}
       /\ NodesFirst(ops)
  /\ Edges(Default) \subseteq Edges(Script)

\* order: the ids of the nodes as the dictionary has them; links: their connections.
Empty == [order |-> <<>>, links |-> <<>>, edges |-> <<>>]

Neighbours(g, n) ==
  {m \in Nodes : \E e \in Elements(g.edges) : e \in {<<n, m>>, <<m, n>>}}

\* Edges join nodes, and a node is connected to those it has an edge with.
Closed(g) == \A e \in Elements(g.edges) : Elements(e) \subseteq DOMAIN g.links
Whole(g) == Closed(g) /\ \A n \in DOMAIN g.links : g.links[n] = Neighbours(g, n)

GraphInit ==
  /\ graphFile = {} /\ served = None
  /\ graphOf = [w \in Writers |-> None]
  /\ graphTodo = [w \in Writers |-> <<>>]
  /\ graphClean = [w \in Writers |-> FALSE]
  /\ graphStarts = [w \in Writers |-> 0] /\ graphErrors = 0
  /\ graphAnswer = None

------------------------------------------------------------------------------
(* The engine. *)

\* add_node: a node that is there already is replaced by one without connections.
WithNode(g, n) ==
  [g EXCEPT !.order = IF n \in Elements(@) THEN @ ELSE Append(@, n),
            !.links = With(@, n, {})]

\* Mutant of WithEdge: only the source gets to know its target.
WithEdge_OneWay(g, e) ==
  [g EXCEPT !.edges = Append(@, e), !.links = [@ EXCEPT ![e[1]] = @ \cup {e[2]}]]

WithEdge(g, e) ==
  [g EXCEPT !.edges = Append(@, e),
            !.links = [n \in DOMAIN @ |-> @[n] \cup (IF n = e[1] THEN {e[2]} ELSE {})
                                              \cup (IF n = e[2] THEN {e[1]} ELSE {})]]

\* The ends of an edge that are not in the graph.
Missing(g, e) == Elements(e) \ DOMAIN g.links

\* The graph after the next write that adding op takes.
Grown(g, op) ==
  IF IsNode(op) \/ op[1] \in Missing(g, op) THEN WithNode(g, op[1])
  ELSE IF op[2] \in Missing(g, op) THEN WithNode(g, op[2])
  ELSE WithEdge(g, op)

GraphError == graphErrors < MaxGraphErrors /\ graphErrors' = graphErrors + 1

\* One write of a process, with which an addition is done or not yet.  When it fails the
\* server gives up adding and goes on; the script ends.
AddAndSave(w) ==
  /\ graphTodo[w] # <<>>
  /\ LET op == Head(graphTodo[w])
         grown == Grown(graphOf[w], op)
         done == IsNode(op) \/ Missing(graphOf[w], op) = {} IN
     \/ /\ graphFile' = {grown}
        /\ graphOf' = [graphOf EXCEPT ![w] = grown]
        /\ graphTodo' = [graphTodo EXCEPT ![w] = IF done THEN Tail(@) ELSE @]
        /\ UNCHANGED <<graphClean, graphErrors>>
     \/ /\ GraphError /\ graphFile' \in {graphFile, {}}
        /\ graphOf' = [graphOf EXCEPT ![w] = IF w = "server" THEN grown ELSE None]
        /\ graphTodo' = [graphTodo EXCEPT ![w] = <<>>]
        /\ graphClean' = [graphClean EXCEPT ![w] = FALSE]
  /\ graphAnswer' = None /\ UNCHANGED <<served, graphStarts>>

\* What _load finds; while another process writes, the file may be empty for a moment.
Readable(w) ==
  (IF graphFile = {} THEN {Empty} ELSE graphFile)
    \cup (IF \E v \in Writers \ {w} : graphTodo[v] # <<>> THEN {Empty} ELSE {})

CanStart == graphStarts["server"] + graphStarts["script"] < MaxStarts

\* create_app builds the state that will answer: its copy is what the file has then.
CreateApp ==
  /\ graphOf["server"] = None /\ served = None /\ CanStart
  /\ served' \in Readable("server")
  /\ graphAnswer' = None
  /\ UNCHANGED <<graphFile, graphOf, graphTodo, graphClean, graphStarts, graphErrors>>

\* A process starts: the script adds what it has, the server only to an empty graph.
StartProcess(w) ==
  /\ graphOf[w] = None /\ CanStart
  /\ w = "server" => served # None
  /\ graphStarts' = [graphStarts EXCEPT ![w] = @ + 1]
  /\ \E g \in Readable(w) :
       /\ graphOf' = [graphOf EXCEPT ![w] = g]
       /\ graphTodo' = [graphTodo EXCEPT ![w] = IF w = "script" THEN Script
                                                ELSE IF g = Empty THEN Default ELSE <<>>]
       /\ graphClean' = [graphClean EXCEPT ![w] = Whole(g)]
  /\ graphAnswer' = None /\ UNCHANGED <<graphFile, served, graphErrors>>

\* The script ends when it has added everything; a crash ends either, and may leave the
\* file unreadable if it comes during a write.
EndProcess(w) ==
  /\ graphOf[w] # None
  /\ \/ w = "script" /\ graphTodo[w] = <<>> /\ UNCHANGED <<graphErrors, graphFile>>
     \/ /\ GraphError
        /\ graphFile' = graphFile \/ (graphTodo[w] # <<>> /\ graphFile' = {})
  /\ graphOf' = [graphOf EXCEPT ![w] = None]
  /\ graphTodo' = [graphTodo EXCEPT ![w] = <<>>]
  /\ served' = IF w = "server" THEN None ELSE served
  /\ graphAnswer' = None /\ UNCHANGED <<graphClean, graphStarts>>

------------------------------------------------------------------------------
(* query around a node *)

\* The edge e seen from node n: its other end, if that has not been visited.
Visit(s, n, e, limit) ==
  LET m == IF e[1] = n /\ e[2] \notin s.visited THEN e[2]
           ELSE IF e[2] = n /\ e[1] \notin s.visited THEN e[1] ELSE None IN
  IF m = None THEN s
  ELSE [visited |-> s.visited \cup {m}, next |-> Append(s.next, m),
        nodes |-> IF Len(s.nodes) < limit THEN Append(s.nodes, m) ELSE s.nodes,
        edges |-> IF Len(s.nodes) < limit THEN Append(s.edges, e) ELSE s.edges]

\* All edges there are, seen from node n.
Around(g, s, n, limit) ==
  LET seen[i \in 0..Len(g.edges)] ==
        IF i = 0 THEN s ELSE Visit(seen[i - 1], n, g.edges[i], limit)
  IN seen[Len(g.edges)]

\* The same for all nodes of the queue, which what has been found replaces.
Sweep(g, s, limit) ==
  LET swept[i \in 0..Len(s.next)] ==
        IF i = 0 THEN [s EXCEPT !.next = <<>>] ELSE Around(g, swept[i - 1], s.next[i], limit)
  IN swept[Len(s.next)]

\* The nodes around n, with the edges by which they were found; around a node that is not
\* in the graph, the first nodes there are.
Query(g, n, limit) ==
  IF n \notin DOMAIN g.links
  THEN [nodes |-> First(limit, g.order), edges |-> <<>>]
  ELSE LET start == [visited |-> {n}, next |-> <<n>>, nodes |-> <<>>, edges |-> <<>>]
           end == Sweep(g, Sweep(g, Sweep(g, start, limit), limit), limit)
       IN [nodes |-> end.nodes, edges |-> end.edges]

\* A bound: queries come while the script is down, whose copy they do not look at.
graph_query(n, limit) ==
  /\ graphOf["server"] # None /\ graphTodo["server"] = <<>> /\ graphOf["script"] = None
  /\ graphAnswer' = [around |-> n, limit |-> limit,
                     found |-> Query(served, n, limit), graph |-> served]
  /\ UNCHANGED <<graphFile, served, graphOf, graphTodo, graphClean, graphStarts, graphErrors>>

GraphNext ==
  \/ CreateApp
  \/ \E w \in Writers : StartProcess(w) \/ AddAndSave(w) \/ EndProcess(w)
  \/ \E n \in Nodes, limit \in {2, Cardinality(Nodes)} : graph_query(n, limit)

GraphSpec == GraphInit /\ [][GraphNext]_graphVars

------------------------------------------------------------------------------
(* Properties. *)

IsGraph(g) ==
  /\ DOMAIN g.links = Elements(g.order) /\ Cardinality(Elements(g.order)) = Len(g.order)
  /\ DOMAIN g.links \subseteq Nodes /\ \A n \in DOMAIN g.links : g.links[n] \subseteq Nodes

GraphTypeOK ==
  /\ \A g \in graphFile : IsGraph(g)
  /\ \A w \in Writers : graphOf[w] # None => IsGraph(graphOf[w]) /\ (w = "server" => served # None)
  /\ served # None => IsGraph(served)
  /\ graphStarts \in [Writers -> 0..MaxStarts] /\ graphErrors \in 0..MaxGraphErrors

\* Whatever fails, and whoever wrote last, no edge of the file or of a copy leads to a
\* node that is not there: a query looks the ends of edges up without asking.
EdgesLeadToNodes ==
  /\ \A g \in graphFile : Closed(g)
  /\ \A w \in Writers : graphOf[w] # None => Closed(graphOf[w])
  /\ served # None => Closed(served)

\* A process that starts from a whole graph and adds all it has, without a write that
\* fails, ends with a whole one, even though adding a node again first takes its
\* connections away.
SeedingEndsWhole ==
  \A w \in Writers :
    graphOf[w] # None /\ graphTodo[w] = <<>> /\ graphClean[w] => Whole(graphOf[w])

\* The nodes of S and those an edge further.
Further(g, S) == S \cup UNION {Neighbours(g, m) : m \in S}

\* The answer to a query around a node of the graph: every node within three edges once,
\* the nearer ones first, up to the limit; each with an edge to one found before it.
QueryRight ==
  LET graph == graphAnswer.graph
      n == graphAnswer.around
      nodes == graphAnswer.found.nodes
      edges == graphAnswer.found.edges
      within == LET one == Further(graph, {n})  two == Further(graph, one)
                IN  <<one, two, Further(graph, two)>>
      distance(m) == CHOOSE k \in 1..3 : m \in within[k] /\ \A j \in 1..(k - 1) : m \notin within[j]
  IN graphAnswer # None /\ n \in DOMAIN graph.links =>
       /\ Elements(nodes) \subseteq within[3] \ {n}
       /\ Cardinality(Elements(nodes)) = Len(nodes)
       /\ Len(nodes) = Least(graphAnswer.limit, Cardinality(within[3] \ {n}))
       /\ \A i, j \in DOMAIN nodes : i < j => distance(nodes[i]) <= distance(nodes[j])
       /\ Len(edges) = Len(nodes)
       /\ \A i \in DOMAIN edges :
            /\ edges[i] \in Elements(graph.edges) /\ nodes[i] \in Elements(edges[i])
            /\ Elements(edges[i]) \cap ({n} \cup Elements(First(i - 1, nodes))) # {}

\* Two writers leave a graph without loose ends, and a query finds what is near.
GraphSound == EdgesLeadToNodes /\ SeedingEndsWhole /\ QueryRight
==============================================================================
