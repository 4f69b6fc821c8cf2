------------------------------- MODULE Components -------------------------------
(***************************************************************************)
(* strongly_connected_components of finalize.rs, the depth-first search    *)
(* that two checks of a document rest on: which definitions nothing refers *)
(* to (E020), and which groups include each other (E030).                  *)
(*                                                                         *)
(* The recursive `visit` is a stack of frames.  Neighbours and start nodes *)
(* are read from hash sets, so their order is any order.  The search is    *)
(* started anew for every graph; `Begin` is that start.                    *)
(***************************************************************************)
EXTENDS Identifiers, Integers, Sequences, FiniteSets

None == -1       \* no entry in the map of indices

VARIABLES
  edges,    \* edges[n]: the names that n refers to
  nodes,    \* the names that the search is about; others are not followed
  index,    \* the next index to give
  indices,  \* the order of discovery
  lowlink,  \* the least index known to be reached back to
  stack,    \* discovered and in no component yet
  onStack,  \* the same as a set
  calls,    \* the open visits, each with the neighbours still to look at
  result    \* the components found

searchVars == <<edges, nodes, index, indices, lowlink, stack, onStack, calls, result>>

Graph == [Names -> SUBSET Names]
Frame == [node : Names, left : SUBSET Names]

(* A fresh search over the graph g.                                        *)
Fresh(g, ns) ==
  /\ edges' = g
  /\ nodes' = ns
  /\ index' = 0
  /\ indices' = [n \in Names |-> None]
  /\ lowlink' = [n \in Names |-> None]
  /\ stack' = <<>>
  /\ onStack' = {}
  /\ calls' = <<>>
  /\ result' = {}

Seen(n) == indices[n] # None
Finished == calls = <<>> /\ \A n \in nodes : Seen(n)
Top == calls[Len(calls)]
Smaller(a, b) == IF a < b THEN a ELSE b

(* The head of visit(n), called with the frames `below` it.                *)
Enter(n, below) ==
  /\ indices' = [indices EXCEPT ![n] = index]
  /\ lowlink' = [lowlink EXCEPT ![n] = index]
  /\ index' = index + 1
  /\ stack' = Append(stack, n)
  /\ onStack' = onStack \cup {n}
  /\ calls' = Append(below, [node |-> n, left |-> edges[n]])

(* The open visit is done with its neighbour m.                            *)
LookedAt(m) == [calls EXCEPT ![Len(calls)] = [node |-> Top.node, left |-> Top.left \ {m}]]

Start(n) ==
  /\ calls = <<>>
  /\ ~Seen(n)
  /\ Enter(n, <<>>)
  /\ UNCHANGED <<edges, nodes, result>>

Descend(m) ==
  /\ ~Seen(m)
  /\ Enter(m, LookedAt(m))
  /\ UNCHANGED <<edges, nodes, result>>

(* Mutant: a node of a finished component counts as one on the stack.      *)
LookBackAnywhere(m) ==
  /\ m \in nodes => Seen(m)
  /\ calls' = LookedAt(m)
  /\ lowlink' = IF m \in nodes THEN [lowlink EXCEPT ![Top.node] = Smaller(@, indices[m])] ELSE lowlink
  /\ UNCHANGED <<edges, nodes, index, indices, stack, onStack, result>>

(* A neighbour outside the search, or one that was discovered before.      *)
LookBack(m) ==
  /\ m \in nodes => Seen(m)
  /\ calls' = LookedAt(m)
  /\ lowlink' = IF m \in nodes \cap onStack
                THEN [lowlink EXCEPT ![Top.node] = Smaller(@, indices[m])]
                ELSE lowlink
  /\ UNCHANGED <<edges, nodes, index, indices, stack, onStack, result>>

(* Mutant: the caller keeps its own lowlink.                               *)
HandUpNothing == calls' = SubSeq(calls, 1, Len(calls) - 1) /\ UNCHANGED lowlink

(* Return to the visit that called, which takes over the lowlink.          *)
HandUp ==
  /\ calls' = SubSeq(calls, 1, Len(calls) - 1)
  /\ lowlink' = IF Len(calls) > 1
                THEN [lowlink EXCEPT ![calls[Len(calls) - 1].node] = Smaller(@, lowlink[Top.node])]
                ELSE lowlink

(* Where n is on the stack, seen from its top.                             *)
Place(n) == CHOOSE k \in DOMAIN stack : /\ stack[k] = n
                                        /\ \A j \in (k + 1)..Len(stack) : stack[j] # n
Above(n) == {stack[k] : k \in Place(n)..Len(stack)}

(* The visited node is the root of its component, which is on the stack    *)
(* above it.                                                               *)
Close ==
  /\ lowlink[Top.node] = indices[Top.node]
  /\ stack' = SubSeq(stack, 1, Place(Top.node) - 1)
  /\ onStack' = onStack \ Above(Top.node)
  /\ result' = result \cup {Above(Top.node)}
  /\ HandUp
  /\ UNCHANGED <<edges, nodes, index, indices>>

Leave ==
  /\ lowlink[Top.node] # indices[Top.node]
  /\ HandUp
  /\ UNCHANGED <<edges, nodes, index, indices, stack, onStack, result>>

SearchStep ==
  \/ \E n \in nodes : Start(n)
  \/ /\ calls # <<>>
     /\ \/ \E m \in Top.left \cap nodes : Descend(m)
        \/ \E m \in Top.left : LookBack(m)
        \/ Top.left = {} /\ Close
        \/ Top.left = {} /\ Leave

SearchInit ==
  /\ edges = [n \in Names |-> {}]
  /\ nodes = {}
  /\ index = 0
  /\ indices = [n \in Names |-> None]
  /\ lowlink = [n \in Names |-> None]
  /\ stack = <<>>
  /\ onStack = {}
  /\ calls = <<>>
  /\ result = {}

Begin(g, ns) == Finished /\ Fresh(g, ns)

SearchNext ==
  \/ SearchStep
  \/ \E g \in Graph, ns \in SUBSET Names : Begin(g, ns)

SearchSpec == SearchInit /\ [][SearchNext]_searchVars

-----------------------------------------------------------------------------

(* Whoever follows g within ns comes from a to b.                          *)
Leads(g, ns, a, b) == \A S \in SUBSET ns : a \in S /\ (\A n \in S : g[n] \cap ns \subseteq S) => b \in S

(* The nodes of ns that n leads to and that lead to n.                     *)
Mutual(g, ns, n) == {m \in ns : Leads(g, ns, n, m) /\ Leads(g, ns, m, n)}

(* The components are the strongly connected ones: whatever is found is    *)
(* the set of all nodes that lead to each other, never a part of it, and   *)
(* when the search is over every node is in one of them and the stack is   *)
(* empty.  The code pops the stack on the strength of an equality of       *)
(* lowlink and index, so a wrong lowlink joins, splits or loses components. *)
Placed ==
  /\ \A c \in result : c # {} /\ \A n \in c : c = Mutual(edges, nodes, n)
  /\ \A c, d \in result : c # d => c \cap d = {}
  /\ Finished => /\ UNION result = nodes
                 /\ stack = <<>> /\ onStack = {}

===============================================================================
