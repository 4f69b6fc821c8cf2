---------------------------- MODULE ComponentsProofs ----------------------------
(***************************************************************************)
(* The search finds the strongly connected components, for every set of    *)
(* names, every graph and every order of neighbours.                       *)
(*                                                                         *)
(* The code closes a component when the lowlink of a node equals its       *)
(* index.  That the stack is empty when the outermost visit returns rests  *)
(* on what holds in between (SearchInv): indices grow along the stack and  *)
(* along the open visits, the outermost visit is the bottom of the stack,  *)
(* and no lowlink of a node on the stack is below the index of the bottom. *)
(* That a component is whole and nothing but whole rests on TreeInv: each  *)
(* node of the stack belongs to an open visit, the two lead to each other, *)
(* and no node of that visit has been seen to lead further back than its   *)
(* lowlink says.                                                           *)
(***************************************************************************)
EXTENDS Components, SequenceTheorems, TLAPS

SearchTypeOK ==
  /\ edges \in Graph
  /\ nodes \in SUBSET Names
  /\ index \in Nat
  /\ indices \in [Names -> Int]
  /\ lowlink \in [Names -> Int]
  /\ stack \in Seq(Names)
  /\ onStack \in SUBSET Names
  /\ calls \in Seq(Frame)
  /\ result \in SUBSET SUBSET Names

(* Indices are given once, in order, to nodes of the search.               *)
Numbered == \A n \in Names : \/ indices[n] = None
                             \/ n \in nodes /\ indices[n] \in 0..(index - 1)

StackOrdered ==
  /\ onStack = {stack[i] : i \in DOMAIN stack}
  /\ \A i \in DOMAIN stack : Seen(stack[i])
  /\ \A i, j \in DOMAIN stack : i < j => indices[stack[i]] < indices[stack[j]]

(* A discovered node is on the stack or in one component.                  *)
Partition ==
  /\ \A n \in Names : Seen(n) <=> n \in onStack \/ \E c \in result : n \in c
  /\ \A c \in result : c \cap onStack = {}
  /\ \A c, d \in result : c # d => c \cap d = {}

LowBounds == \A i \in DOMAIN stack : /\ indices[stack[1]] <= lowlink[stack[i]]
                                     /\ lowlink[stack[i]] <= indices[stack[i]]

CallsOrdered ==
  /\ calls = <<>> <=> stack = <<>>
  /\ calls # <<>> => calls[1].node = stack[1]
  /\ \A i \in DOMAIN calls : calls[i].node \in onStack
  /\ \A i, j \in DOMAIN calls : i < j => indices[calls[i].node] < indices[calls[j].node]

SearchInv == SearchTypeOK /\ Numbered /\ StackOrdered /\ Partition /\ LowBounds /\ CallsOrdered

(* A neighbour of a discovered node is discovered too, or is still to be   *)
(* looked at by the node's open visit.                                     *)
Scanned ==
  \A n \in Names : Seen(n) =>
    \A m \in edges[n] \cap nodes : Seen(m) \/ \E i \in DOMAIN calls : calls[i].node = n /\ m \in calls[i].left

LeftEdges == \A i \in DOMAIN calls : calls[i].left \subseteq edges[calls[i].node]

FoundClosed == \A n \in UNION result : edges[n] \cap nodes \subseteq UNION result

(* The nodes of a component lead to each other, and out of it only to      *)
(* components found before it, which do not lead back.                     *)
ExactIn(g, ns, c) ==
  /\ c # {}
  /\ \A a, b \in c : Leads(g, ns, a, b)
  /\ \E S \in SUBSET ns : /\ S \cap c = {}
                          /\ \A n \in S : g[n] \cap ns \subseteq S
                          /\ \A n \in c : g[n] \cap ns \subseteq S \cup c

FoundExact == \A c \in result : ExactIn(edges, nodes, c)

Chained == \A i, j \in DOMAIN calls : i <= j => Leads(edges, nodes, calls[i].node, calls[j].node)

(* Of the open visits, i is the last that began no later than that of n.   *)
Owns(i, n) == /\ indices[calls[i].node] <= indices[n]
              /\ \A j \in DOMAIN calls : i < j => indices[n] < indices[calls[j].node]

Grouped ==
  \A n \in onStack : \E i \in DOMAIN calls :
    Owns(i, n) /\ Leads(edges, nodes, n, calls[i].node) /\ Leads(edges, nodes, calls[i].node, n)

(* The lowlink of an open visit is the index of a node that it leads to,   *)
(* and no node that it owns has been seen to lead further back.            *)
LowReached ==
  \A i \in DOMAIN calls : \E m \in onStack :
    indices[m] = lowlink[calls[i].node] /\ Leads(edges, nodes, calls[i].node, m)

LowLeast ==
  \A i \in DOMAIN calls : \A n \in onStack : Owns(i, n) =>
    \A m \in edges[n] \cap nodes \cap onStack :
      lowlink[calls[i].node] <= indices[m] \/ (calls[i].node = n /\ m \in calls[i].left)

TreeInv == /\ Scanned /\ LeftEdges /\ FoundClosed /\ FoundExact /\ Chained /\ Grouped
           /\ LowReached /\ LowLeast

-----------------------------------------------------------------------------

(* The first k elements of a sequence.                                     *)
LEMMA Prefix == ASSUME NEW S, NEW s \in Seq(S), NEW k \in 0..Len(s)
                PROVE  /\ SubSeq(s, 1, k) \in Seq(S) /\ Len(SubSeq(s, 1, k)) = k
                       /\ DOMAIN SubSeq(s, 1, k) = 1..k
                       /\ \A i \in 1..k : i \in DOMAIN s /\ SubSeq(s, 1, k)[i] = s[i]
<1>1. Len(s) \in Nat /\ \A i \in 1..k : i \in DOMAIN s /\ s[i] \in S
  OBVIOUS
<1>2. k \in Int /\ 1 \in Int
  BY <1>1
<1>3. /\ SubSeq(s, 1, k) \in Seq(S)
      /\ Len(SubSeq(s, 1, k)) = IF 1 <= k THEN k - 1 + 1 ELSE 0
      /\ \A i \in 1..(k - 1 + 1) : SubSeq(s, 1, k)[i] = s[1 + i - 1]
  BY <1>1, <1>2, SubSeqProperties
<1>4. QED BY <1>1, <1>2, <1>3

(* A search begins with nothing discovered.                                *)
LEMMA FreshInv == ASSUME NEW g \in Graph, NEW ns \in SUBSET Names, Fresh(g, ns)
                  PROVE  SearchInv'
  BY DEF Fresh, SearchInv, SearchTypeOK, Numbered, StackOrdered, Partition, LowBounds,
         CallsOrdered, Seen, None, Graph

LEMMA InitInv == SearchInit => SearchInv
  BY DEF SearchInit, SearchInv, SearchTypeOK, Numbered, StackOrdered, Partition, LowBounds,
         CallsOrdered, Seen, None, Graph

(* A visit begins: its node goes on top of the stack and of the frames     *)
(* `below`, which are the open ones or a changed copy of them.             *)
LEMMA EnterInv ==
  ASSUME SearchInv, NEW n \in nodes, ~Seen(n),
         NEW below \in Seq(Frame), Len(below) = Len(calls),
         \A i \in DOMAIN below : below[i].node = calls[i].node,
         Enter(n, below), UNCHANGED <<edges, nodes, result>>
  PROVE  SearchInv'
<1> USE DEF SearchInv
<1>0. n \in Names /\ indices[n] = None
  BY DEF SearchTypeOK, Seen
<1>1. SearchTypeOK'
  BY <1>0 DEF SearchTypeOK, Enter, Graph, Frame
<1>2. /\ indices'[n] = index
      /\ \A m \in Names \ {n} : indices'[m] = indices[m] /\ lowlink'[m] = lowlink[m]
      /\ lowlink'[n] = index
      /\ n \notin onStack /\ \A c \in result : n \notin c
      /\ \A i \in DOMAIN stack : stack[i] # n /\ stack[i] \in Names
      /\ None < index /\ index # None
  BY <1>0 DEF SearchTypeOK, Enter, Partition, Seen, None, StackOrdered
<1>3. Numbered'
  BY <1>0, <1>2 DEF Numbered, Enter, SearchTypeOK, None
<1>4. /\ Len(stack') = Len(stack) + 1
      /\ \A i \in DOMAIN stack : stack'[i] = stack[i]
      /\ stack'[Len(stack) + 1] = n
      /\ DOMAIN stack = 1..Len(stack) /\ DOMAIN stack' = 1..(Len(stack) + 1)
      /\ Len(stack) \in Nat
  BY <1>0 DEF SearchTypeOK, Enter
<1>5. \A i \in DOMAIN stack : indices[stack[i]] < index
  BY <1>2 DEF StackOrdered, Numbered, Seen, SearchTypeOK, None
<1>6. StackOrdered'
  <2>1. onStack' = {stack'[i] : i \in DOMAIN stack'}
    BY <1>4 DEF StackOrdered, Enter
  <2>2. \A i \in DOMAIN stack' : indices'[stack'[i]] # None
    BY <1>2, <1>4 DEF StackOrdered, Seen
  <2>3. ASSUME NEW i \in DOMAIN stack', NEW j \in DOMAIN stack', i < j
        PROVE  indices'[stack'[i]] < indices'[stack'[j]]
    <3>1. i \in DOMAIN stack
      BY <2>3, <1>4
    <3>2. CASE j \in DOMAIN stack
      BY <2>3, <3>1, <3>2, <1>2, <1>4 DEF StackOrdered
    <3>3. CASE j = Len(stack) + 1
      BY <2>3, <3>1, <3>3, <1>2, <1>4, <1>5
    <3>4. QED BY <3>2, <3>3, <1>4
  <2>4. QED BY <2>1, <2>2, <2>3 DEF StackOrdered, Seen
<1>7. Partition'
  BY <1>0, <1>2 DEF Partition, Enter, Seen
<1>8. LowBounds'
  <2> SUFFICES ASSUME NEW i \in DOMAIN stack'
               PROVE  /\ indices'[stack'[1]] <= lowlink'[stack'[i]]
                      /\ lowlink'[stack'[i]] <= indices'[stack'[i]]
    BY DEF LowBounds
  <2>1. CASE i \in DOMAIN stack
    BY <2>1, <1>2, <1>4 DEF LowBounds
  <2>2. CASE i = Len(stack) + 1
    <3>1. CASE stack = <<>>
      BY <2>2, <3>1, <1>2, <1>4 DEF SearchTypeOK
    <3>2. CASE stack # <<>>
      <4>1. 1 \in DOMAIN stack
        BY <3>2, <1>4 DEF SearchTypeOK
      <4>2. indices'[stack'[1]] = indices[stack[1]] /\ indices[stack[1]] < index
        BY <4>1, <1>2, <1>4, <1>5
      <4>3. indices[stack[1]] \in Int /\ index \in Int
        BY <4>1, <1>2 DEF SearchTypeOK
      <4>4. QED BY <2>2, <4>2, <4>3, <1>2, <1>4
    <3>3. QED BY <3>1, <3>2
  <2>3. QED BY <2>1, <2>2, <1>4
<1>9. CallsOrdered'
  <2>1. /\ Len(calls') = Len(calls) + 1
        /\ \A i \in DOMAIN calls : calls'[i].node = calls[i].node
        /\ calls'[Len(calls) + 1].node = n
        /\ DOMAIN calls = 1..Len(calls) /\ DOMAIN calls' = 1..(Len(calls) + 1)
        /\ Len(calls) \in Nat
    BY DEF SearchTypeOK, Enter
  <2>2. \A i \in DOMAIN calls : calls[i].node \in onStack /\ calls[i].node # n /\ calls[i].node \in Names
    BY <1>2 DEF CallsOrdered, SearchTypeOK
  <2>3. \A i \in DOMAIN calls : indices[calls[i].node] < index
    BY <2>2, <1>5 DEF StackOrdered
  <2>4. \A i \in DOMAIN calls' : calls'[i].node \in onStack'
    BY <2>1, <2>2 DEF Enter
  <2>5. ASSUME NEW i \in DOMAIN calls', NEW j \in DOMAIN calls', i < j
        PROVE  indices'[calls'[i].node] < indices'[calls'[j].node]
    <3>1. i \in DOMAIN calls
      BY <2>5, <2>1
    <3>2. CASE j \in DOMAIN calls
      BY <2>5, <3>1, <3>2, <1>2, <2>1, <2>2 DEF CallsOrdered
    <3>3. CASE j = Len(calls) + 1
      BY <3>1, <3>3, <1>2, <2>1, <2>2, <2>3
    <3>4. QED BY <3>2, <3>3, <2>1
  <2>6. calls' # <<>> /\ stack' # <<>>
    BY <2>1, <1>4
  <2>7. calls'[1].node = stack'[1]
    <3>1. CASE calls = <<>>
      <4>1. stack = <<>>
        BY <3>1 DEF CallsOrdered
      <4>2. Len(calls) = 0 /\ Len(stack) = 0
        BY <3>1, <4>1
      <4>3. QED BY <4>2, <2>1, <1>4
    <3>2. CASE calls # <<>>
      <4>1. stack # <<>> /\ calls[1].node = stack[1]
        BY <3>2 DEF CallsOrdered
      <4>2. 1 \in DOMAIN calls /\ 1 \in DOMAIN stack
        BY <3>2, <4>1, <2>1, <1>4 DEF SearchTypeOK
      <4>3. QED BY <4>1, <4>2, <2>1, <1>4
    <3>3. QED BY <3>1, <3>2
  <2>8. QED BY <2>4, <2>5, <2>6, <2>7 DEF CallsOrdered
<1>10. QED BY <1>1, <1>3, <1>6, <1>7, <1>8, <1>9

(* The open visit and what is known of it.                                 *)
LEMMA TopFacts ==
  ASSUME SearchInv, calls # <<>>
  PROVE  /\ Len(calls) \in Nat \ {0} /\ Len(calls) \in DOMAIN calls /\ 1 \in DOMAIN calls
         /\ Top \in Frame /\ Top.node \in onStack /\ Top.node \in Names
         /\ Len(stack) \in Nat \ {0} /\ 1 \in DOMAIN stack
         /\ \A i \in DOMAIN stack : stack[i] \in Names
<1>1. calls \in Seq(Frame) /\ stack \in Seq(Names) /\ stack # <<>> /\ onStack \in SUBSET Names
  BY DEF SearchInv, SearchTypeOK, CallsOrdered
<1>2. Len(calls) \in Nat \ {0} /\ Len(calls) \in DOMAIN calls /\ 1 \in DOMAIN calls
  BY <1>1
<1>3. Len(stack) \in Nat \ {0} /\ 1 \in DOMAIN stack /\ \A i \in DOMAIN stack : stack[i] \in Names
  BY <1>1
<1>4. Top \in Frame /\ Top.node \in onStack
  BY <1>1, <1>2 DEF SearchInv, CallsOrdered, Top
<1>5. QED BY <1>1, <1>2, <1>3, <1>4

(* On the stack, indices are never below that of the bottom.               *)
LEMMA BottomLeast ==
  ASSUME SearchInv, calls # <<>>
  PROVE  \A n \in onStack : indices[stack[1]] <= indices[n]
<1>1. \A i \in DOMAIN stack : 1 <= i /\ indices[stack[i]] \in Int
  BY DEF SearchInv, SearchTypeOK
<1>2. \A i \in DOMAIN stack : indices[stack[1]] <= indices[stack[i]]
  BY <1>1, TopFacts DEF SearchInv, StackOrdered
<1>3. QED BY <1>2 DEF SearchInv, StackOrdered

(* Looking back at a neighbour lowers a lowlink no further than the bottom. *)
LEMMA LookBackInv ==
  ASSUME SearchInv, calls # <<>>, NEW m \in Top.left, LookBack(m)
  PROVE  SearchInv'
<1>1. /\ Len(calls) \in DOMAIN calls /\ Top \in Frame /\ Top.node \in onStack /\ Top.node \in Names
      /\ 1 \in DOMAIN stack /\ \A i \in DOMAIN stack : stack[i] \in Names
  BY TopFacts
<1>2. /\ calls' \in Seq(Frame) /\ Len(calls') = Len(calls) /\ DOMAIN calls' = DOMAIN calls
      /\ \A i \in DOMAIN calls : calls'[i].node = calls[i].node
  BY <1>1 DEF LookBack, LookedAt, SearchInv, SearchTypeOK, Frame, Top
<1>3. /\ lowlink' \in [Names -> Int]
      /\ \A n \in Names : n # Top.node => lowlink'[n] = lowlink[n]
      /\ lowlink'[Top.node] <= lowlink[Top.node]
      /\ indices[stack[1]] <= lowlink[Top.node] => indices[stack[1]] <= lowlink'[Top.node]
  <2>1. CASE m \in nodes \cap onStack
    <3>1. m \in Names /\ indices[stack[1]] <= indices[m]
      BY <2>1, BottomLeast DEF SearchInv, SearchTypeOK
    <3>2. lowlink' = [lowlink EXCEPT ![Top.node] = Smaller(lowlink[Top.node], indices[m])]
      BY <2>1 DEF LookBack
    <3>3. indices[m] \in Int /\ lowlink[Top.node] \in Int /\ indices[stack[1]] \in Int
      BY <3>1, <1>1 DEF SearchInv, SearchTypeOK
    <3>4. QED BY <3>1, <3>2, <3>3, <1>1 DEF Smaller, SearchInv, SearchTypeOK
  <2>2. CASE m \notin nodes \cap onStack
    BY <2>2, <1>1 DEF LookBack, SearchInv, SearchTypeOK
  <2>3. QED BY <2>1, <2>2
<1>4. UNCHANGED <<edges, nodes, index, indices, stack, onStack, result>>
  BY DEF LookBack
<1>5. SearchTypeOK'
  BY <1>2, <1>3, <1>4 DEF SearchInv, SearchTypeOK
<1>6. Numbered' /\ StackOrdered' /\ Partition'
  BY <1>4 DEF SearchInv, Numbered, StackOrdered, Partition, Seen
<1>7. LowBounds'
  <2> SUFFICES ASSUME NEW i \in DOMAIN stack
               PROVE  indices[stack[1]] <= lowlink'[stack[i]] /\ lowlink'[stack[i]] <= indices[stack[i]]
    BY <1>4 DEF LowBounds
  <2>1. indices[stack[1]] <= lowlink[stack[i]] /\ lowlink[stack[i]] <= indices[stack[i]]
    BY DEF SearchInv, LowBounds
  <2>2. lowlink[stack[i]] \in Int /\ lowlink'[stack[i]] \in Int /\ indices[stack[i]] \in Int
    BY <1>1, <1>3 DEF SearchInv, SearchTypeOK
  <2>3. QED BY <2>1, <2>2, <1>1, <1>3
<1>8. CallsOrdered'
  <2>1. calls' # <<>> /\ stack # <<>> /\ 1 \in DOMAIN calls
    BY <1>2, TopFacts
  <2>2. QED BY <2>1, <1>2, <1>4 DEF SearchInv, CallsOrdered
<1>9. QED BY <1>5, <1>6, <1>7, <1>8 DEF SearchInv

(* Returning to the caller: the caller is on the stack, below the node it  *)
(* called, and takes over a lowlink that is not below the bottom.          *)
LEMMA HandUpFacts ==
  ASSUME SearchInv, calls # <<>>, HandUp
  PROVE  /\ calls' \in Seq(Frame) /\ Len(calls') = Len(calls) - 1
         /\ DOMAIN calls' = 1..(Len(calls) - 1)
         /\ \A i \in DOMAIN calls' : i \in DOMAIN calls /\ calls'[i] = calls[i]
         /\ lowlink' \in [Names -> Int]
         /\ \A i \in DOMAIN stack : /\ indices[stack[1]] <= lowlink'[stack[i]]
                                    /\ lowlink'[stack[i]] <= indices[stack[i]]
<1>1. /\ Len(calls) \in Nat \ {0} /\ Len(calls) \in DOMAIN calls /\ Top.node \in onStack /\ Top.node \in Names
      /\ 1 \in DOMAIN stack /\ \A i \in DOMAIN stack : stack[i] \in Names
  BY TopFacts
<1>2. /\ calls' \in Seq(Frame) /\ Len(calls') = Len(calls) - 1 /\ DOMAIN calls' = 1..(Len(calls) - 1)
      /\ \A i \in DOMAIN calls' : i \in DOMAIN calls /\ calls'[i] = calls[i]
  <2>1. calls \in Seq(Frame) /\ calls' = SubSeq(calls, 1, Len(calls) - 1)
    BY DEF HandUp, SearchInv, SearchTypeOK
  <2>2. Len(calls) - 1 \in 0..Len(calls)
    BY <1>1
  <2>3. QED BY <2>1, <2>2, Prefix
<1>3. indices[stack[1]] <= lowlink[Top.node]
  BY <1>1 DEF SearchInv, LowBounds, StackOrdered
<1>4. CASE Len(calls) > 1
  <2> DEFINE c == calls[Len(calls) - 1].node
  <2>1. c \in Names
    <3>1. Len(calls) - 1 \in DOMAIN calls /\ calls \in Seq(Frame)
      BY <1>1, <1>4 DEF SearchInv, SearchTypeOK
    <3>2. calls[Len(calls) - 1] \in Frame
      BY <3>1
    <3>3. QED BY <3>2 DEF Frame
  <2>2. lowlink' = [lowlink EXCEPT ![c] = Smaller(lowlink[c], lowlink[Top.node])]
    BY <1>4 DEF HandUp
  <2>3. lowlink[Top.node] \in Int /\ lowlink[c] \in Int /\ indices[stack[1]] \in Int
    BY <1>1, <2>1 DEF SearchInv, SearchTypeOK
  <2>4. /\ lowlink' \in [Names -> Int]
        /\ \A n \in Names : n # c => lowlink'[n] = lowlink[n]
        /\ lowlink'[c] <= lowlink[c]
        /\ indices[stack[1]] <= lowlink[c] => indices[stack[1]] <= lowlink'[c]
    BY <2>1, <2>2, <2>3, <1>3 DEF Smaller, SearchInv, SearchTypeOK
  <2>5. ASSUME NEW i \in DOMAIN stack
        PROVE  indices[stack[1]] <= lowlink'[stack[i]] /\ lowlink'[stack[i]] <= indices[stack[i]]
    <3>1. indices[stack[1]] <= lowlink[stack[i]] /\ lowlink[stack[i]] <= indices[stack[i]]
      BY DEF SearchInv, LowBounds
    <3>2. lowlink[stack[i]] \in Int /\ lowlink'[stack[i]] \in Int /\ indices[stack[i]] \in Int
      BY <1>1, <2>4 DEF SearchInv, SearchTypeOK
    <3>3. QED BY <3>1, <3>2, <1>1, <2>4
  <2>6. QED BY <1>2, <2>4, <2>5
<1>5. CASE ~(Len(calls) > 1)
  BY <1>2, <1>5 DEF HandUp, SearchInv, LowBounds, SearchTypeOK
<1>6. QED BY <1>4, <1>5

(* Only the outermost visit is the bottom of the stack, and its lowlink is *)
(* its index: it never returns without closing its component.              *)
LEMMA OutermostCloses ==
  ASSUME SearchInv, calls # <<>>, Len(calls) = 1
  PROVE  Top.node = stack[1] /\ lowlink[Top.node] = indices[Top.node]
<1>1. 1 \in DOMAIN stack /\ stack[1] \in Names
  BY TopFacts
<1>2. Top.node = stack[1]
  BY DEF SearchInv, CallsOrdered, Top
<1>3. indices[stack[1]] <= lowlink[stack[1]] /\ lowlink[stack[1]] <= indices[stack[1]]
  BY <1>1 DEF SearchInv, LowBounds
<1>4. indices[stack[1]] \in Int /\ lowlink[stack[1]] \in Int
  BY <1>1 DEF SearchInv, SearchTypeOK
<1>5. QED BY <1>2, <1>3, <1>4

LEMMA LeaveInv ==
  ASSUME SearchInv, calls # <<>>, Leave
  PROVE  SearchInv'
<1>1. UNCHANGED <<edges, nodes, index, indices, stack, onStack, result>>
  BY DEF Leave
<1>2. /\ calls' \in Seq(Frame) /\ Len(calls') = Len(calls) - 1
      /\ DOMAIN calls' = 1..(Len(calls) - 1)
      /\ \A i \in DOMAIN calls' : i \in DOMAIN calls /\ calls'[i] = calls[i]
      /\ lowlink' \in [Names -> Int]
      /\ \A i \in DOMAIN stack : /\ indices[stack[1]] <= lowlink'[stack[i]]
                                 /\ lowlink'[stack[i]] <= indices[stack[i]]
  BY HandUpFacts DEF Leave
<1>3. Len(calls) \in Nat /\ Len(calls) > 1 /\ stack # <<>>
  <2>1. Len(calls) \in Nat \ {0}
    BY TopFacts
  <2>2. ~(Len(calls) = 1)
    BY OutermostCloses DEF Leave
  <2>3. Len(calls) \in Nat /\ Len(calls) > 1
    BY <2>1, <2>2
  <2>4. stack # <<>>
    BY TopFacts
  <2>5. QED BY <2>3, <2>4
<1>4. SearchTypeOK'
  BY <1>1, <1>2 DEF SearchInv, SearchTypeOK
<1>5. Numbered' /\ StackOrdered' /\ Partition'
  BY <1>1 DEF SearchInv, Numbered, StackOrdered, Partition, Seen
<1>6. LowBounds'
  BY <1>1, <1>2 DEF LowBounds
<1>7. CallsOrdered'
  <2>1. calls' # <<>> /\ 1 \in DOMAIN calls' /\ calls'[1] = calls[1]
    BY <1>2, <1>3
  <2>2. QED BY <2>1, <1>1, <1>2, <1>3 DEF SearchInv, CallsOrdered
<1>8. QED BY <1>4, <1>5, <1>6, <1>7 DEF SearchInv

(* Every node of the stack is at one place of it.                          *)
LEMMA PlaceFacts ==
  ASSUME SearchInv, calls # <<>>
  PROVE  Place(Top.node) \in DOMAIN stack /\ stack[Place(Top.node)] = Top.node
<1>1. Top.node \in onStack /\ DOMAIN stack = 1..Len(stack)
      /\ \A i \in DOMAIN stack : indices[stack[i]] \in Int
  <2>1. \A i \in DOMAIN stack : stack[i] \in Names
    BY TopFacts
  <2>2. stack \in Seq(Names) /\ indices \in [Names -> Int]
    BY DEF SearchInv, SearchTypeOK
  <2>3. Top.node \in onStack
    BY TopFacts
  <2>4. QED BY <2>1, <2>2, <2>3
<1>2. PICK k \in DOMAIN stack : stack[k] = Top.node
  BY <1>1 DEF SearchInv, StackOrdered
<1>3. \A j \in (k + 1)..Len(stack) : stack[j] # Top.node
  <2> SUFFICES ASSUME NEW j \in (k + 1)..Len(stack) PROVE stack[j] # stack[k]
    BY <1>2
  <2>1. j \in DOMAIN stack /\ k < j
    <3>1. Len(stack) \in Nat
      BY TopFacts
    <3>2. QED BY <1>1, <1>2, <3>1
  <2>2. indices[stack[k]] < indices[stack[j]]
    BY <1>2, <2>1 DEF SearchInv, StackOrdered
  <2>3. QED BY <1>1, <1>2, <2>1, <2>2
<1>4. QED BY <1>2, <1>3 DEF Place

(* Closing a component cuts the stack where the visited node is.  Frames   *)
(* below it are for nodes below it, so they stay on the stack; the         *)
(* outermost visit empties both.                                           *)
LEMMA CloseInv ==
  ASSUME SearchInv, calls # <<>>, Close
  PROVE  SearchInv'
<1> DEFINE p == Place(Top.node)
           Comp == Above(Top.node)
<1>1. /\ Len(calls) \in Nat \ {0} /\ Len(calls) \in DOMAIN calls /\ 1 \in DOMAIN calls
      /\ Top.node \in onStack /\ Top.node \in Names
      /\ Len(stack) \in Nat \ {0} /\ 1 \in DOMAIN stack
      /\ \A i \in DOMAIN stack : stack[i] \in Names
  BY TopFacts
<1>2. p \in DOMAIN stack /\ stack[p] = Top.node
  BY PlaceFacts
<1>3. /\ stack \in Seq(Names) /\ DOMAIN stack = 1..Len(stack) /\ DOMAIN calls = 1..Len(calls)
      /\ \A n \in Names : indices[n] \in Int
      /\ p \in Int /\ p - 1 \in 0..Len(stack)
  <2>1. stack \in Seq(Names) /\ calls \in Seq(Frame) /\ indices \in [Names -> Int]
    BY DEF SearchInv, SearchTypeOK
  <2>2. DOMAIN stack = 1..Len(stack) /\ DOMAIN calls = 1..Len(calls)
    BY <2>1
  <2> HIDE DEF p
  <2>3. QED BY <2>1, <2>2, <1>1, <1>2
<1>4. UNCHANGED <<edges, nodes, index, indices>> /\ result' = result \cup {Comp}
      /\ onStack' = onStack \ Comp /\ stack' = SubSeq(stack, 1, p - 1)
  BY DEF Close
<1>5. /\ stack' \in Seq(Names) /\ Len(stack') = p - 1 /\ DOMAIN stack' = 1..(p - 1)
      /\ \A i \in 1..(p - 1) : i \in DOMAIN stack /\ stack'[i] = stack[i]
  <2> HIDE DEF p
  <2>1. QED BY <1>3, <1>4, Prefix
<1>6. Comp = {stack[k] : k \in p..Len(stack)}
  BY DEF Above
<1> HIDE DEF p, Comp
<1>7. \A i, j \in DOMAIN stack : stack[i] = stack[j] => i = j
  <2> SUFFICES ASSUME NEW i \in DOMAIN stack, NEW j \in DOMAIN stack, stack[i] = stack[j]
               PROVE  i = j
    OBVIOUS
  <2>1. /\ i < j => indices[stack[i]] < indices[stack[j]]
        /\ j < i => indices[stack[j]] < indices[stack[i]]
    BY DEF SearchInv, StackOrdered
  <2>2. indices[stack[i]] \in Int /\ i \in Int /\ j \in Int
    BY <1>1, <1>3
  <2>3. QED BY <2>1, <2>2
<1>8. Comp \subseteq onStack /\ Comp \subseteq Names
  <2>1. \A k \in p..Len(stack) : k \in DOMAIN stack
    BY <1>1, <1>2, <1>3
  <2>2. \A k \in DOMAIN stack : stack[k] \in onStack
    BY DEF SearchInv, StackOrdered
  <2>3. QED BY <2>1, <2>2, <1>1, <1>6
<1>9. onStack' = {stack'[i] : i \in DOMAIN stack'}
  <2>1. ASSUME NEW n \in onStack, n \notin Comp
        PROVE  \E i \in DOMAIN stack' : stack'[i] = n
    <3>1. PICK i \in DOMAIN stack : stack[i] = n
      BY DEF SearchInv, StackOrdered
    <3>2. i < p
      BY <2>1, <3>1, <1>2, <1>3, <1>6
    <3>3. QED BY <3>1, <3>2, <1>3, <1>5
  <2>2. ASSUME NEW i \in DOMAIN stack'
        PROVE  stack'[i] \in onStack /\ stack'[i] \notin Comp
    <3>1. i \in DOMAIN stack /\ stack'[i] = stack[i] /\ i < p
      BY <1>3, <1>5
    <3>2. \A k \in p..Len(stack) : stack[k] # stack[i]
      BY <3>1, <1>2, <1>3, <1>7
    <3>3. QED BY <3>1, <3>2, <1>6 DEF SearchInv, StackOrdered
  <2>3. QED BY <2>1, <2>2, <1>4
<1>10. /\ calls' \in Seq(Frame) /\ Len(calls') = Len(calls) - 1
       /\ DOMAIN calls' = 1..(Len(calls) - 1)
       /\ \A i \in DOMAIN calls' : i \in DOMAIN calls /\ calls'[i] = calls[i]
       /\ lowlink' \in [Names -> Int]
       /\ \A i \in DOMAIN stack : /\ indices[stack[1]] <= lowlink'[stack[i]]
                                  /\ lowlink'[stack[i]] <= indices[stack[i]]
  BY HandUpFacts DEF Close
<1>11. SearchTypeOK'
  <2>1. result' \in SUBSET SUBSET Names /\ onStack' \in SUBSET Names
    BY <1>4, <1>8 DEF SearchInv, SearchTypeOK
  <2>2. edges' \in Graph /\ nodes' \in SUBSET Names /\ index' \in Nat /\ indices' \in [Names -> Int]
    BY <1>4 DEF SearchInv, SearchTypeOK
  <2>3. QED BY <2>1, <2>2, <1>5, <1>10 DEF SearchTypeOK
<1>12. Numbered'
  BY <1>4 DEF SearchInv, Numbered
<1>13. StackOrdered'
  <2>1. \A i \in DOMAIN stack' : indices'[stack'[i]] # None
    BY <1>4, <1>5 DEF SearchInv, StackOrdered, Seen
  <2>2. \A i, j \in DOMAIN stack' : i < j => indices'[stack'[i]] < indices'[stack'[j]]
    BY <1>4, <1>5 DEF SearchInv, StackOrdered
  <2>3. QED BY <1>9, <2>1, <2>2 DEF StackOrdered, Seen
<1>14. Partition'
  <2>1. \A n \in Names : indices'[n] # None <=> n \in onStack' \/ \E c \in result' : n \in c
    BY <1>4, <1>8 DEF SearchInv, Partition, Seen
  <2>2. \A c \in result' : c \cap onStack' = {}
    BY <1>4 DEF SearchInv, Partition
  <2>3. \A c, d \in result' : c # d => c \cap d = {}
    BY <1>4, <1>8 DEF SearchInv, Partition
  <2>4. QED BY <2>1, <2>2, <2>3 DEF Partition, Seen
<1>15. LowBounds'
  <2> SUFFICES ASSUME NEW i \in DOMAIN stack'
               PROVE  /\ indices'[stack'[1]] <= lowlink'[stack'[i]]
                      /\ lowlink'[stack'[i]] <= indices'[stack'[i]]
    BY DEF LowBounds
  <2>1. i \in DOMAIN stack /\ stack'[i] = stack[i] /\ stack'[1] = stack[1]
    BY <1>3, <1>5
  <2>2. QED BY <2>1, <1>4, <1>10
<1>16. CallsOrdered'
  <2>1. \A i \in DOMAIN calls' : indices[calls[i].node] < indices[Top.node] /\ calls[i].node \in onStack
    <3> SUFFICES ASSUME NEW i \in DOMAIN calls'
                 PROVE  indices[calls[i].node] < indices[Top.node] /\ calls[i].node \in onStack
      OBVIOUS
    <3>1. i \in DOMAIN calls /\ i < Len(calls)
      BY <1>1, <1>10
    <3>2. QED BY <3>1, <1>1 DEF SearchInv, CallsOrdered, Top
  <2>2. \A i \in DOMAIN calls' : calls[i].node \in onStack'
    <3> SUFFICES ASSUME NEW i \in DOMAIN calls', calls[i].node \in Comp PROVE FALSE
      BY <2>1, <1>4
    <3>1. PICK k \in p..Len(stack) : calls[i].node = stack[k]
      BY <1>6
    <3>2. k \in DOMAIN stack /\ k \in Int /\ p <= k
      BY <1>1, <1>2, <1>3
    <3>3. k = p \/ indices[stack[p]] < indices[stack[k]]
      BY <3>2, <1>2, <1>3 DEF SearchInv, StackOrdered
    <3>4. indices[stack[p]] \in Int /\ indices[stack[k]] \in Int
      BY <1>1, <1>2, <1>3, <3>2
    <3>5. indices[stack[k]] < indices[stack[p]]
      BY <2>1, <3>1, <1>2
    <3>6. QED BY <3>3, <3>4, <3>5
  <2>3. CASE Len(calls) = 1
    <3>1. Top.node = stack[1]
      BY <2>3, OutermostCloses
    <3>2. p = 1
      BY <3>1, <1>1, <1>2, <1>7
    <3>3. Len(stack') = 0 /\ Len(calls') = 0 /\ DOMAIN calls' = {}
      BY <2>3, <3>2, <1>5, <1>10
    <3>4. stack' = <<>> /\ calls' = <<>>
      BY <3>3, <1>5, <1>10
    <3>5. QED BY <3>3, <3>4 DEF CallsOrdered
  <2>4. CASE Len(calls) > 1
    <3>1. 1 \in DOMAIN calls' /\ calls'[1] = calls[1] /\ calls' # <<>>
      BY <2>4, <1>1, <1>10
    <3>2. calls[1].node = stack[1]
      BY <1>1 DEF SearchInv, CallsOrdered
    <3>3. p # 1
      BY <3>1, <3>2, <2>1, <1>1, <1>2, <1>3
    <3>4. 1 \in DOMAIN stack' /\ stack'[1] = stack[1] /\ stack' # <<>>
      BY <3>3, <1>2, <1>3, <1>5
    <3>5. \A i \in DOMAIN calls' : calls'[i].node \in onStack'
      BY <2>2, <1>10
    <3>6. \A i, j \in DOMAIN calls' : i < j => indices'[calls'[i].node] < indices'[calls'[j].node]
      BY <1>4, <1>10 DEF SearchInv, CallsOrdered
    <3>7. QED BY <3>1, <3>2, <3>4, <3>5, <3>6 DEF CallsOrdered
  <2>5. Len(calls) = 1 \/ Len(calls) > 1
    <3>1. Len(calls) \in Nat \ {0}
      BY <1>1
    <3>2. QED BY <3>1
  <2>6. QED BY <2>3, <2>4, <2>5
<1>17. QED BY <1>11, <1>12, <1>13, <1>14, <1>15, <1>16 DEF SearchInv

(* A visit that is opened from outside, with no other open.                *)
LEMMA StartInv ==
  ASSUME SearchInv, NEW n \in nodes, Start(n)
  PROVE  SearchInv'
<1>1. <<>> \in Seq(Frame) /\ Len(<<>>) = Len(calls) /\ ~Seen(n)
  BY DEF Start
<1>2. \A i \in DOMAIN <<>> : <<>>[i].node = calls[i].node
  OBVIOUS
<1>3. Enter(n, <<>>) /\ UNCHANGED <<edges, nodes, result>>
  BY DEF Start
<1>4. QED BY <1>1, <1>2, <1>3, EnterInv

(* A visit opened by another one, which has one neighbour less to look at. *)
LEMMA DescendInv ==
  ASSUME SearchInv, calls # <<>>, NEW m \in nodes, Descend(m)
  PROVE  SearchInv'
<1>1. Len(calls) \in DOMAIN calls /\ Top \in Frame /\ calls \in Seq(Frame)
  BY TopFacts DEF SearchInv, SearchTypeOK
<1>2. /\ LookedAt(m) \in Seq(Frame) /\ Len(LookedAt(m)) = Len(calls)
      /\ \A i \in DOMAIN LookedAt(m) : LookedAt(m)[i].node = calls[i].node
  BY <1>1 DEF LookedAt, Frame, Top
<1>3. ~Seen(m) /\ Enter(m, LookedAt(m)) /\ UNCHANGED <<edges, nodes, result>>
  BY DEF Descend
<1> HIDE DEF LookedAt
<1>4. QED BY <1>2, <1>3, EnterInv

(* Every step of the search, and the start of the next one, keep the       *)
(* invariant.                                                              *)
LEMMA StepInv == SearchInv /\ [SearchNext]_searchVars => SearchInv'
<1> SUFFICES ASSUME SearchInv, [SearchNext]_searchVars PROVE SearchInv'
  OBVIOUS
<1>1. CASE \E n \in nodes : Start(n)
  BY <1>1, StartInv
<1>2. CASE calls # <<>> /\ \E m \in Top.left \cap nodes : Descend(m)
  BY <1>2, DescendInv
<1>3. CASE calls # <<>> /\ \E m \in Top.left : LookBack(m)
  BY <1>3, LookBackInv
<1>4. CASE calls # <<>> /\ Close
  BY <1>4, CloseInv
<1>5. CASE calls # <<>> /\ Leave
  BY <1>5, LeaveInv
<1>6. CASE \E g \in Graph, ns \in SUBSET Names : Begin(g, ns)
  BY <1>6, FreshInv DEF Begin
<1>7. CASE UNCHANGED searchVars
  BY <1>7 DEF searchVars, SearchInv, SearchTypeOK, Numbered, StackOrdered, Partition,
              LowBounds, CallsOrdered, Seen
<1>8. QED BY <1>1, <1>2, <1>3, <1>4, <1>5, <1>6, <1>7 DEF SearchNext, SearchStep

(* Leading from one node to another is reflexive, transitive, and has      *)
(* every edge; it stays in a set that no edge leaves.                      *)
LEMMA LeadsSelf == ASSUME NEW g, NEW ns, NEW a PROVE Leads(g, ns, a, a)
  BY DEF Leads

LEMMA LeadsEdge ==
  ASSUME NEW g, NEW ns, NEW a, NEW b, b \in g[a] \cap ns
  PROVE  Leads(g, ns, a, b)
  BY DEF Leads

LEMMA LeadsOn ==
  ASSUME NEW g, NEW ns, NEW a, NEW b, NEW c, Leads(g, ns, a, b), Leads(g, ns, b, c)
  PROVE  Leads(g, ns, a, c)
  BY DEF Leads

LEMMA LeadsWithin ==
  ASSUME NEW g, NEW ns, NEW a, NEW b, Leads(g, ns, a, b),
         NEW S \in SUBSET ns, a \in S, \A n \in S : g[n] \cap ns \subseteq S
  PROVE  b \in S
  BY DEF Leads

(* Numbers and names that the next lemmas speak of.                        *)
LEMMA Ranges ==
  ASSUME SearchInv
  PROVE  /\ \A n \in Names : indices[n] \in Int /\ lowlink[n] \in Int
         /\ nodes \subseteq Names /\ onStack \subseteq Names /\ index \in Nat
         /\ \A i \in DOMAIN calls : calls[i].node \in onStack /\ calls[i].node \in Names
         /\ \A n \in onStack : Seen(n) /\ n \in nodes /\ indices[n] < index
         /\ Len(calls) \in Nat /\ DOMAIN calls = 1..Len(calls)
<1>1. /\ \A n \in Names : indices[n] \in Int /\ lowlink[n] \in Int
      /\ nodes \subseteq Names /\ onStack \subseteq Names /\ index \in Nat
      /\ Len(calls) \in Nat /\ DOMAIN calls = 1..Len(calls)
  BY DEF SearchInv, SearchTypeOK
<1>2. \A i \in DOMAIN calls : calls[i].node \in onStack
  BY DEF SearchInv, CallsOrdered
<1>3. \A n \in onStack : Seen(n)
  BY <1>1 DEF SearchInv, Partition
<1>4. \A n \in onStack : n \in nodes /\ indices[n] < index
  <2> SUFFICES ASSUME NEW n \in onStack PROVE n \in nodes /\ indices[n] < index
    OBVIOUS
  <2>1. n \in Names /\ indices[n] # None
    BY <1>1, <1>3 DEF Seen
  <2>2. n \in nodes /\ indices[n] \in 0..(index - 1)
    BY <2>1 DEF SearchInv, Numbered
  <2>3. QED BY <2>1, <2>2, <1>1
<1>5. QED BY <1>1, <1>2, <1>3, <1>4

(* The lowlink of an open visit is not above its index.                    *)
LEMMA LowNotAbove ==
  ASSUME SearchInv
  PROVE  \A i \in DOMAIN calls : lowlink[calls[i].node] <= indices[calls[i].node]
<1>1. \A n \in onStack : lowlink[n] <= indices[n]
  BY DEF SearchInv, LowBounds, StackOrdered
<1>2. QED BY <1>1, Ranges

LEMMA FreshTree == ASSUME NEW g, NEW ns, Fresh(g, ns) PROVE TreeInv'
  BY DEF Fresh, TreeInv, Scanned, LeftEdges, FoundClosed, FoundExact, Chained, Grouped, LowReached, LowLeast, Seen

LEMMA InitTree == SearchInit => TreeInv
  BY DEF SearchInit, TreeInv, Scanned, LeftEdges, FoundClosed, FoundExact, Chained, Grouped, LowReached,
         LowLeast, Seen

(* A visit begins.  Its node owns itself alone, and what was the last open *)
(* visit owns what it owned.                                               *)
LEMMA EnterTree ==
  ASSUME SearchInv, TreeInv, NEW n \in nodes, ~Seen(n),
         NEW below \in Seq(Frame), Len(below) = Len(calls),
         \A i \in DOMAIN below : /\ below[i].node = calls[i].node
                                 /\ below[i].left \subseteq calls[i].left
                                 /\ calls[i].left \subseteq below[i].left \cup {n},
         calls # <<>> => Leads(edges, nodes, Top.node, n),
         Enter(n, below), UNCHANGED <<edges, nodes, result>>
  PROVE  TreeInv'
<1>1. /\ \A k \in Names : indices[k] \in Int /\ lowlink[k] \in Int
      /\ n \in Names /\ onStack \subseteq Names /\ index \in Nat
      /\ \A i \in DOMAIN calls : calls[i].node \in onStack /\ calls[i].node \in Names
      /\ \A k \in onStack : Seen(k) /\ indices[k] < index
      /\ Len(calls) \in Nat /\ DOMAIN calls = 1..Len(calls)
  BY Ranges
<1>0. PICK top \in Nat : top = Len(calls) + 1
  BY <1>1
<1>2. n \notin onStack /\ indices[n] = None
  BY <1>1 DEF Seen
<1>3. /\ indices' \in [Names -> Int] /\ lowlink' \in [Names -> Int]
      /\ indices'[n] = index /\ lowlink'[n] = index
      /\ \A k \in Names \ {n} : indices'[k] = indices[k] /\ lowlink'[k] = lowlink[k]
      /\ onStack' = onStack \cup {n} /\ index # None
  BY <1>1 DEF Enter, SearchInv, SearchTypeOK, None
<1>4. /\ calls' = Append(below, [node |-> n, left |-> edges[n]])
      /\ DOMAIN calls' = 1..top
      /\ calls'[top] = [node |-> n, left |-> edges[n]]
      /\ \A i \in DOMAIN calls : /\ i \in DOMAIN calls' /\ i < top
                                 /\ calls'[i].node = calls[i].node
                                 /\ calls'[i].left \subseteq calls[i].left
                                 /\ calls[i].left \subseteq calls'[i].left \cup {n}
  <2>1. /\ DOMAIN below = 1..Len(calls) /\ calls' = Append(below, [node |-> n, left |-> edges[n]])
        /\ \A i \in DOMAIN below : Append(below, [node |-> n, left |-> edges[n]])[i] = below[i]
    BY <1>1 DEF Enter
  <2>2. QED BY <2>1, <1>0, <1>1
<1>5. calls'[top].node = n /\ calls'[top].left = edges[n]
  BY <1>4
<1>6. \A i \in DOMAIN calls : calls'[i].node # n /\ calls'[i].node \in onStack
  BY <1>1, <1>2, <1>4
<1>7. \A i \in DOMAIN calls' : i \in DOMAIN calls \/ i = top
  BY <1>0, <1>1, <1>4
<1>8. UNCHANGED <<edges, nodes, result>>
  OBVIOUS
<1>9. Scanned'
  <2> SUFFICES ASSUME NEW k \in Names, indices'[k] # None, NEW m \in edges[k] \cap nodes
               PROVE  \/ indices'[m] # None
                      \/ \E i \in DOMAIN calls' : calls'[i].node = k /\ m \in calls'[i].left
    BY <1>8 DEF Scanned, Seen
  <2>1. CASE k = n
    BY <2>1, <1>1, <1>4, <1>5
  <2>2. CASE k # n
    <3>1. m \in Names /\ Seen(k)
      BY <2>2, <1>3, Ranges DEF Seen
    <3>2. Seen(m) \/ \E i \in DOMAIN calls : calls[i].node = k /\ m \in calls[i].left
      BY <3>1 DEF TreeInv, Scanned
    <3>3. CASE Seen(m) \/ m = n
      BY <3>1, <3>3, <1>3 DEF Seen
    <3>4. CASE m # n /\ \E i \in DOMAIN calls : calls[i].node = k /\ m \in calls[i].left
      BY <3>4, <1>4
    <3>5. QED BY <3>2, <3>3, <3>4
  <2>3. QED BY <2>1, <2>2
<1>10. FoundClosed' /\ FoundExact'
  BY <1>8 DEF TreeInv, FoundClosed, FoundExact
<1>11. Chained'
  <2> SUFFICES ASSUME NEW i \in DOMAIN calls', NEW j \in DOMAIN calls', i <= j
               PROVE  Leads(edges, nodes, calls'[i].node, calls'[j].node)
    BY <1>8 DEF Chained
  <2>1. CASE j \in DOMAIN calls
    <3>1. i \in DOMAIN calls
      BY <2>1, <1>0, <1>1, <1>7
    <3>2. QED BY <2>1, <3>1, <1>4 DEF TreeInv, Chained
  <2>2. CASE i = j
    BY <2>2, LeadsSelf
  <2>3. CASE i # j /\ j = top
    <3>1. i \in DOMAIN calls /\ i <= Len(calls) /\ Len(calls) \in DOMAIN calls /\ calls # <<>>
      BY <2>3, <1>0, <1>1, <1>7
    <3>2. Leads(edges, nodes, calls[i].node, calls[Len(calls)].node)
      BY <3>1 DEF TreeInv, Chained
    <3>3. Leads(edges, nodes, calls[Len(calls)].node, n)
      BY <3>1 DEF Top
    <3>4. QED BY <2>3, <3>1, <3>2, <3>3, <1>4, <1>5, LeadsOn
  <2>4. QED BY <2>1, <2>2, <2>3, <1>7
<1>12. \A i \in DOMAIN calls, k \in onStack : Owns(i, k)' <=> Owns(i, k)
  <2> SUFFICES ASSUME NEW i \in DOMAIN calls, NEW k \in onStack PROVE Owns(i, k)' <=> Owns(i, k)
    OBVIOUS
  <2>1. indices'[k] = indices[k] /\ indices'[calls'[i].node] = indices[calls[i].node]
    BY <1>1, <1>2, <1>3, <1>4
  <2>2. \A j \in DOMAIN calls : indices'[calls'[j].node] = indices[calls[j].node]
    BY <1>1, <1>2, <1>3, <1>4
  <2>3. indices[k] < indices'[calls'[top].node]
    BY <1>1, <1>3, <1>5
  <2>4. QED BY <2>1, <2>2, <2>3, <1>4, <1>7 DEF Owns
<1>13. Owns(top, n)'
  <2>1. \A j \in DOMAIN calls' : ~(top < j)
    BY <1>0, <1>1, <1>4
  <2>2. indices'[calls'[top].node] <= indices'[n]
    BY <1>1, <1>3, <1>5
  <2>3. QED BY <2>1, <2>2 DEF Owns
<1>14. \A k \in onStack' : k # n => k \in onStack /\ ~Owns(top, k)'
  <2> SUFFICES ASSUME NEW k \in onStack PROVE ~Owns(top, k)'
    BY <1>3
  <2>1. indices'[k] < indices'[calls'[top].node]
    BY <1>1, <1>2, <1>3, <1>5
  <2>2. indices'[k] \in Int /\ indices'[calls'[top].node] \in Int
    BY <1>1, <1>3, <1>5
  <2>3. QED BY <2>1, <2>2 DEF Owns
<1>15. \A i \in DOMAIN calls : ~Owns(i, n)'
  <2> SUFFICES ASSUME NEW i \in DOMAIN calls, Owns(i, n)' PROVE FALSE
    OBVIOUS
  <2>1. indices'[n] < indices'[calls'[top].node]
    BY <1>1, <1>4 DEF Owns
  <2>2. QED BY <2>1, <1>1, <1>3, <1>5
<1>16. Grouped'
  <2> SUFFICES ASSUME NEW k \in onStack'
               PROVE  \E i \in DOMAIN calls' : /\ Owns(i, k)' /\ Leads(edges, nodes, k, calls'[i].node)
                                               /\ Leads(edges, nodes, calls'[i].node, k)
    BY <1>8 DEF Grouped
  <2>1. CASE k = n
    <3>1. top \in DOMAIN calls' /\ calls'[top].node = n
      BY <1>0, <1>1, <1>4, <1>5
    <3>2. Leads(edges, nodes, n, n)
      BY LeadsSelf
    <3>3. QED BY <2>1, <3>1, <3>2, <1>13
  <2>2. CASE k # n
    <3>1. PICK i \in DOMAIN calls : /\ Owns(i, k) /\ Leads(edges, nodes, k, calls[i].node)
                                    /\ Leads(edges, nodes, calls[i].node, k)
      BY <2>2, <1>14 DEF TreeInv, Grouped
    <3>2. QED BY <2>2, <3>1, <1>4, <1>12, <1>14
  <2>3. QED BY <2>1, <2>2
<1>17. LowReached'
  <2> SUFFICES ASSUME NEW i \in DOMAIN calls'
               PROVE  \E m \in onStack' : /\ indices'[m] = lowlink'[calls'[i].node]
                                          /\ Leads(edges, nodes, calls'[i].node, m)
    BY <1>8 DEF LowReached
  <2>1. CASE i = top
    BY <2>1, <1>3, <1>5, LeadsSelf
  <2>2. CASE i \in DOMAIN calls
    <3>1. PICK m \in onStack : indices[m] = lowlink[calls[i].node] /\ Leads(edges, nodes, calls[i].node, m)
      BY <2>2 DEF TreeInv, LowReached
    <3>2. QED BY <2>2, <3>1, <1>1, <1>2, <1>3, <1>4, <1>6
  <2>3. QED BY <2>1, <2>2, <1>7
<1>18. LowLeast'
  <2> SUFFICES ASSUME NEW i \in DOMAIN calls', NEW k \in onStack', Owns(i, k)',
                      NEW m \in edges[k] \cap nodes \cap onStack'
               PROVE  \/ lowlink'[calls'[i].node] <= indices'[m]
                      \/ calls'[i].node = k /\ m \in calls'[i].left
    BY <1>8 DEF LowLeast
  <2>1. CASE k = n
    <3>1. i = top
      BY <2>1, <1>7, <1>15
    <3>2. QED BY <2>1, <3>1, <1>5
  <2>2. CASE k # n
    <3>1. i \in DOMAIN calls /\ k \in onStack /\ Owns(i, k)
      BY <2>2, <1>7, <1>12, <1>14
    <3>2. calls[i].node \in Names /\ lowlink'[calls'[i].node] = lowlink[calls[i].node]
      BY <3>1, <1>1, <1>3, <1>4, <1>6
    <3>3. CASE m = n
      <4>1. lowlink[calls[i].node] <= indices[calls[i].node] /\ indices[calls[i].node] < index
        BY <3>1, <1>1, LowNotAbove
      <4>2. QED BY <3>2, <3>3, <4>1, <1>1, <1>3
    <3>4. CASE m # n
      <4>1. m \in onStack /\ m \in Names /\ indices'[m] = indices[m]
        BY <3>4, <1>1, <1>3
      <4>2. lowlink[calls[i].node] <= indices[m] \/ (calls[i].node = k /\ m \in calls[i].left)
        BY <3>1, <4>1 DEF TreeInv, LowLeast
      <4>3. QED BY <3>1, <3>2, <3>4, <4>1, <4>2, <1>4
    <3>5. QED BY <3>3, <3>4
  <2>3. QED BY <2>1, <2>2
<1>19. LeftEdges'
  BY <1>4, <1>5, <1>7, <1>8 DEF TreeInv, LeftEdges
<1>20. QED BY <1>19, <1>9, <1>10, <1>11, <1>16, <1>17, <1>18 DEF TreeInv

(* Looking back at a node of the stack is all that an edge to it asks for. *)
LEMMA LookBackTree ==
  ASSUME SearchInv, TreeInv, calls # <<>>, NEW v \in Top.left, LookBack(v)
  PROVE  TreeInv'
<1> DEFINE last == Len(calls)
           t == calls[last].node
<1>1. /\ \A k \in Names : indices[k] \in Int /\ lowlink[k] \in Int
      /\ onStack \subseteq Names /\ nodes \subseteq Names
      /\ \A i \in DOMAIN calls : calls[i].node \in onStack /\ calls[i].node \in Names
      /\ last \in DOMAIN calls /\ DOMAIN calls = 1..last /\ last \in Nat
      /\ calls[last] \in Frame /\ t \in Names /\ t \in onStack
  BY Ranges, TopFacts DEF Top
<1>2. /\ DOMAIN calls' = DOMAIN calls
      /\ calls'[last].node = t /\ calls'[last].left = calls[last].left \ {v}
      /\ \A i \in DOMAIN calls : i # last => calls'[i] = calls[i]
      /\ \A i \in DOMAIN calls : calls'[i].node = calls[i].node
  BY <1>1 DEF LookBack, LookedAt, SearchInv, SearchTypeOK, Frame, Top
<1>3. UNCHANGED <<edges, nodes, index, indices, stack, onStack, result>> /\ (v \in nodes => Seen(v))
  BY DEF LookBack
<1>4. /\ \A k \in Names : k # t => lowlink'[k] = lowlink[k]
      /\ lowlink'[t] \in Int /\ lowlink'[t] <= lowlink[t]
      /\ v \in nodes \cap onStack => lowlink'[t] <= indices[v]
      /\ lowlink'[t] = lowlink[t] \/ (v \in nodes \cap onStack /\ lowlink'[t] = indices[v])
  <2>1. CASE v \in nodes \cap onStack
    <3>1. lowlink' = [lowlink EXCEPT ![t] = Smaller(lowlink[t], indices[v])]
      BY <2>1 DEF LookBack, Top
    <3>2. indices[v] \in Int /\ lowlink[t] \in Int /\ lowlink \in [Names -> Int]
      BY <2>1, <1>1 DEF SearchInv, SearchTypeOK
    <3>3. QED BY <2>1, <3>1, <3>2, <1>1 DEF Smaller
  <2>2. CASE v \notin nodes \cap onStack
    BY <2>2, <1>1 DEF LookBack
  <2>3. QED BY <2>1, <2>2
<1>5. v \in edges[t]
  BY <1>1 DEF TreeInv, LeftEdges, Top
<1>6. Scanned'
  <2> SUFFICES ASSUME NEW k \in Names, Seen(k), NEW m \in edges[k] \cap nodes
               PROVE  Seen(m) \/ \E i \in DOMAIN calls : calls'[i].node = k /\ m \in calls'[i].left
    BY <1>2, <1>3 DEF Scanned, Seen
  <2>1. Seen(m) \/ \E i \in DOMAIN calls : calls[i].node = k /\ m \in calls[i].left
    BY DEF TreeInv, Scanned
  <2>2. CASE m = v
    BY <2>2, <1>3
  <2>3. CASE m # v
    BY <2>1, <2>3, <1>1, <1>2
  <2>4. QED BY <2>2, <2>3
<1>7. LeftEdges' /\ FoundClosed' /\ FoundExact'
  BY <1>1, <1>2, <1>3 DEF TreeInv, LeftEdges, FoundClosed, FoundExact
<1>8. \A i \in DOMAIN calls, k \in onStack : Owns(i, k)' <=> Owns(i, k)
  BY <1>2, <1>3 DEF Owns
<1>9. Chained' /\ Grouped'
  BY <1>2, <1>3, <1>8 DEF TreeInv, Chained, Grouped
<1>10. LowReached'
  <2> SUFFICES ASSUME NEW i \in DOMAIN calls
               PROVE  \E m \in onStack : /\ indices[m] = lowlink'[calls[i].node]
                                         /\ Leads(edges, nodes, calls[i].node, m)
    BY <1>2, <1>3 DEF LowReached
  <2>1. CASE lowlink'[calls[i].node] = lowlink[calls[i].node]
    BY <2>1 DEF TreeInv, LowReached
  <2>2. CASE lowlink'[calls[i].node] # lowlink[calls[i].node]
    <3>1. calls[i].node = t /\ v \in nodes \cap onStack /\ lowlink'[t] = indices[v]
      BY <2>2, <1>1, <1>4
    <3>2. Leads(edges, nodes, t, v)
      BY <3>1, <1>5, LeadsEdge
    <3>3. QED BY <3>1, <3>2
  <2>3. QED BY <2>1, <2>2
<1>11. LowLeast'
  <2> SUFFICES ASSUME NEW i \in DOMAIN calls, NEW k \in onStack, Owns(i, k),
                      NEW m \in edges[k] \cap nodes \cap onStack
               PROVE  \/ lowlink'[calls[i].node] <= indices[m]
                      \/ calls[i].node = k /\ m \in calls'[i].left
    BY <1>2, <1>3, <1>8 DEF LowLeast
  <2>1. lowlink[calls[i].node] <= indices[m] \/ (calls[i].node = k /\ m \in calls[i].left)
    BY DEF TreeInv, LowLeast
  <2>2. CASE lowlink[calls[i].node] <= indices[m]
    <3>1. lowlink'[calls[i].node] <= lowlink[calls[i].node]
      BY <1>1, <1>4
    <3>2. indices[m] \in Int /\ lowlink[calls[i].node] \in Int /\ lowlink'[calls[i].node] \in Int
      BY <1>1, <1>4
    <3>3. QED BY <2>2, <3>1, <3>2
  <2>3. CASE calls[i].node = k /\ m \in calls[i].left
    <3>1. CASE i = last /\ m = v
      BY <3>1, <1>4
    <3>2. CASE i # last \/ m # v
      BY <2>3, <3>2, <1>1, <1>2
    <3>3. QED BY <3>1, <3>2
  <2>4. QED BY <2>1, <2>2, <2>3
<1>12. QED BY <1>6, <1>7, <1>9, <1>10, <1>11 DEF TreeInv

(* The return to the caller, whose lowlink becomes the lesser of the two.  *)
LEMMA HandUpLow ==
  ASSUME SearchInv, calls # <<>>, HandUp, Len(calls) > 1
  PROVE  LET p == calls[Len(calls) - 1].node
         IN /\ Len(calls) - 1 \in DOMAIN calls /\ p \in Names
            /\ \A k \in Names : k # p => lowlink'[k] = lowlink[k]
            /\ lowlink'[p] <= lowlink[p] /\ lowlink'[p] <= lowlink[Top.node]
            /\ lowlink'[p] \in {lowlink[p], lowlink[Top.node]}
<1> DEFINE p == calls[Len(calls) - 1].node
<1>1. Len(calls) \in Nat /\ DOMAIN calls = 1..Len(calls) /\ Top.node \in Names
  BY Ranges, TopFacts
<1>2. Len(calls) - 1 \in DOMAIN calls
  BY <1>1
<1>3. p \in Names /\ lowlink[p] \in Int /\ lowlink[Top.node] \in Int /\ lowlink \in [Names -> Int]
  BY <1>1, <1>2, Ranges DEF SearchInv, SearchTypeOK
<1>4. lowlink' = [lowlink EXCEPT ![p] = Smaller(lowlink[p], lowlink[Top.node])]
  BY DEF HandUp
<1>5. QED BY <1>2, <1>3, <1>4 DEF Smaller

(* A visit that closes nothing returns: its nodes go to its caller, which  *)
(* is before the node that its lowlink stands for or owns it.              *)
LEMMA LeaveTree ==
  ASSUME SearchInv, TreeInv, calls # <<>>, Top.left = {}, Leave
  PROVE  TreeInv'
<1>0. PICK last \in Nat : last = Len(calls)
  BY Ranges
<1> DEFINE w == calls[last].node
           p == calls[last - 1].node
<1>1. /\ \A k \in Names : indices[k] \in Int /\ lowlink[k] \in Int
      /\ onStack \subseteq Names /\ nodes \subseteq Names
      /\ \A i \in DOMAIN calls : calls[i].node \in onStack /\ calls[i].node \in Names
      /\ last \in DOMAIN calls /\ DOMAIN calls = 1..last /\ last \in Nat
      /\ calls[last].left = {} /\ w = Top.node /\ w \in Names /\ w \in onStack
      /\ \A i \in DOMAIN calls : i <= last
  BY <1>0, Ranges, TopFacts DEF Top
<1>2. UNCHANGED <<edges, nodes, index, indices, stack, onStack, result>>
      /\ lowlink[w] # indices[w] /\ HandUp
  BY <1>1 DEF Leave
<1>3. last > 1
  <2>1. ~(Len(calls) = 1)
    BY <1>0, <1>1, <1>2, OutermostCloses
  <2>2. QED BY <2>1, <1>0, <1>1
<1>4. /\ last - 1 \in DOMAIN calls /\ p \in Names /\ p \in onStack
      /\ \A k \in Names : k # p => lowlink'[k] = lowlink[k]
      /\ lowlink'[p] <= lowlink[p] /\ lowlink'[p] <= lowlink[w]
      /\ lowlink'[p] = lowlink[p] \/ lowlink'[p] = lowlink[w]
  BY <1>0, <1>1, <1>2, <1>3, HandUpLow
<1>5. /\ DOMAIN calls' = 1..(last - 1)
      /\ \A i \in DOMAIN calls' : i \in DOMAIN calls /\ i < last /\ calls'[i] = calls[i]
      /\ lowlink' \in [Names -> Int]
      /\ last - 1 \in DOMAIN calls'
  BY <1>0, <1>1, <1>2, <1>3, HandUpFacts
<1>6. \A i, j \in DOMAIN calls : i < j => indices[calls[i].node] < indices[calls[j].node]
  BY DEF SearchInv, CallsOrdered
<1>7. Leads(edges, nodes, p, w)
  BY <1>1, <1>4 DEF TreeInv, Chained
<1>8. \A k \in Names : lowlink'[k] \in Int /\ lowlink'[k] <= lowlink[k]
  BY <1>1, <1>4, <1>5
<1> HIDE DEF w, p
<1>9. PICK low \in onStack : indices[low] = lowlink[w] /\ Leads(edges, nodes, w, low)
  BY <1>1 DEF TreeInv, LowReached, w
<1>10. Leads(edges, nodes, w, p)
  <2>1. lowlink[w] <= indices[w]
    BY <1>1, LowNotAbove DEF w
  <2>2. indices[low] < indices[w]
    BY <2>1, <1>1, <1>2, <1>9
  <2>3. PICK i \in DOMAIN calls : Owns(i, low) /\ Leads(edges, nodes, low, calls[i].node)
    BY DEF TreeInv, Grouped
  <2>4. i # last
    <3>1. SUFFICES ASSUME i = last PROVE FALSE
      OBVIOUS
    <3>2. indices[w] <= indices[low]
      BY <2>3, <3>1 DEF Owns, w
    <3>3. indices[low] \in Int /\ indices[w] \in Int
      BY <1>1
    <3>4. QED BY <2>2, <3>2, <3>3
  <2>5. i <= last - 1
    BY <2>4, <1>1
  <2>6. Leads(edges, nodes, calls[i].node, p)
    BY <2>5, <1>4 DEF TreeInv, Chained, p
  <2>7. QED BY <2>3, <2>6, <1>9, LeadsOn
<1>11. \A i \in DOMAIN calls', k \in onStack :
          Owns(i, k)' => \/ Owns(i, k)
                         \/ i = last - 1 /\ Owns(last, k)
  <2> SUFFICES ASSUME NEW i \in DOMAIN calls', NEW k \in onStack, Owns(i, k)'
               PROVE  Owns(i, k) \/ (i = last - 1 /\ Owns(last, k))
    OBVIOUS
  <2>1. /\ i \in DOMAIN calls /\ indices[calls[i].node] <= indices[k]
        /\ \A j \in DOMAIN calls' : i < j => indices[k] < indices[calls[j].node]
    BY <1>2, <1>5 DEF Owns
  <2>2. \A j \in DOMAIN calls : j = last \/ j \in DOMAIN calls'
    BY <1>1, <1>5
  <2>3. CASE indices[k] < indices[w]
    BY <2>1, <2>2, <2>3 DEF Owns, w
  <2>4. CASE ~(indices[k] < indices[w])
    <3>1. indices[w] <= indices[k]
      BY <2>4, <1>1
    <3>2. Owns(last, k)
      BY <3>1, <1>1 DEF Owns, w
    <3>3. i = last - 1
      <4>1. SUFFICES ASSUME i < last - 1 PROVE FALSE
        BY <1>1, <1>5
      <4>2. indices[k] < indices[p]
        BY <4>1, <2>1, <1>5 DEF p
      <4>3. indices[p] < indices[w]
        BY <1>1, <1>4, <1>6 DEF p, w
      <4>4. QED BY <4>2, <4>3, <2>4, <1>1, <1>4
    <3>4. QED BY <3>2, <3>3
  <2>5. QED BY <2>3, <2>4
<1>12. \A i \in DOMAIN calls', k \in onStack : Owns(i, k) => Owns(i, k)'
  BY <1>2, <1>5 DEF Owns
<1>13. \A k \in onStack : Owns(last, k) => Owns(last - 1, k)'
  <2> SUFFICES ASSUME NEW k \in onStack, Owns(last, k) PROVE Owns(last - 1, k)'
    OBVIOUS
  <2>1. indices[w] <= indices[k]
    BY DEF Owns, w
  <2>2. indices[p] < indices[w]
    BY <1>1, <1>4, <1>6 DEF p, w
  <2>3. indices[p] <= indices[k]
    BY <2>1, <2>2, <1>1, <1>4
  <2>4. calls'[last - 1].node = p
    BY <1>5 DEF p
  <2>5. \A j \in DOMAIN calls' : ~(last - 1 < j)
    BY <1>1, <1>5
  <2>6. QED BY <2>3, <2>4, <2>5, <1>2 DEF Owns
<1>14. Scanned' /\ LeftEdges' /\ FoundClosed' /\ FoundExact'
  <2>1. ASSUME NEW k \in Names, Seen(k), NEW m \in edges[k] \cap nodes
        PROVE  Seen(m) \/ \E i \in DOMAIN calls' : calls'[i].node = k /\ m \in calls'[i].left
    <3>1. Seen(m) \/ \E i \in DOMAIN calls : calls[i].node = k /\ m \in calls[i].left
      BY <2>1 DEF TreeInv, Scanned
    <3>2. \A i \in DOMAIN calls : i = last \/ i \in DOMAIN calls'
      BY <1>1, <1>5
    <3>3. QED BY <3>1, <3>2, <1>1, <1>5
  <2>2. Scanned'
    BY <2>1, <1>2 DEF Scanned, Seen
  <2>3. LeftEdges'
    BY <1>2, <1>5 DEF TreeInv, LeftEdges
  <2>4. FoundClosed' /\ FoundExact'
    BY <1>2 DEF TreeInv, FoundClosed, FoundExact
  <2>5. QED BY <2>2, <2>3, <2>4
<1>15. Chained'
  BY <1>2, <1>5 DEF TreeInv, Chained
<1>16. Grouped'
  <2> SUFFICES ASSUME NEW k \in onStack
               PROVE  \E i \in DOMAIN calls' : /\ Owns(i, k)' /\ Leads(edges, nodes, k, calls[i].node)
                                               /\ Leads(edges, nodes, calls[i].node, k)
    BY <1>2, <1>5 DEF Grouped
  <2>1. PICK i \in DOMAIN calls : /\ Owns(i, k) /\ Leads(edges, nodes, k, calls[i].node)
                                  /\ Leads(edges, nodes, calls[i].node, k)
    BY DEF TreeInv, Grouped
  <2>2. CASE i = last
    <3>1. Leads(edges, nodes, k, p) /\ Leads(edges, nodes, p, k)
      BY <2>1, <2>2, <1>7, <1>10, LeadsOn DEF w
    <3>2. QED BY <2>1, <2>2, <3>1, <1>5, <1>13 DEF p
  <2>3. CASE i # last
    <3>1. i \in DOMAIN calls'
      BY <2>3, <1>1, <1>5
    <3>2. QED BY <2>1, <3>1, <1>12
  <2>4. QED BY <2>2, <2>3
<1>17. LowReached'
  <2> SUFFICES ASSUME NEW i \in DOMAIN calls'
               PROVE  \E m \in onStack : /\ indices[m] = lowlink'[calls[i].node]
                                         /\ Leads(edges, nodes, calls[i].node, m)
    BY <1>2, <1>5 DEF LowReached
  <2>1. i \in DOMAIN calls /\ calls[i].node \in Names
    BY <1>1, <1>5
  <2>2. CASE lowlink'[calls[i].node] = lowlink[calls[i].node]
    BY <2>1, <2>2 DEF TreeInv, LowReached
  <2>3. CASE lowlink'[calls[i].node] # lowlink[calls[i].node]
    <3>1. calls[i].node = p /\ lowlink'[p] = lowlink[w]
      BY <2>1, <2>3, <1>4
    <3>2. Leads(edges, nodes, p, low)
      BY <1>7, <1>9, LeadsOn
    <3>3. QED BY <3>1, <3>2, <1>9
  <2>4. QED BY <2>2, <2>3
<1>18. LowLeast'
  <2> SUFFICES ASSUME NEW i \in DOMAIN calls', NEW k \in onStack, Owns(i, k)',
                      NEW m \in edges[k] \cap nodes \cap onStack
               PROVE  \/ lowlink'[calls[i].node] <= indices[m]
                      \/ calls[i].node = k /\ m \in calls[i].left
    BY <1>2, <1>5 DEF LowLeast
  <2>1. i \in DOMAIN calls /\ calls[i].node \in Names /\ m \in Names
    BY <1>1, <1>5
  <2>2. CASE Owns(i, k)
    <3>1. lowlink[calls[i].node] <= indices[m] \/ (calls[i].node = k /\ m \in calls[i].left)
      BY <2>1, <2>2 DEF TreeInv, LowLeast
    <3>2. QED BY <2>1, <3>1, <1>1, <1>8
  <2>3. CASE i = last - 1 /\ Owns(last, k)
    <3>1. lowlink[w] <= indices[m] \/ m \in calls[last].left
      BY <2>3, <1>1 DEF TreeInv, LowLeast, w
    <3>2. lowlink'[p] <= lowlink[w] /\ calls[i].node = p
      BY <2>3, <1>4 DEF p
    <3>3. QED BY <2>1, <3>1, <3>2, <1>1, <1>8
  <2>4. QED BY <2>2, <2>3, <1>11
<1>19. QED BY <1>14, <1>15, <1>16, <1>17, <1>18 DEF TreeInv

(* What is above a node on the stack was discovered after it.              *)
LEMMA AboveTop ==
  ASSUME SearchInv, calls # <<>>
  PROVE  /\ Above(Top.node) \subseteq onStack
         /\ \A n \in onStack : n \in Above(Top.node) <=> indices[Top.node] <= indices[n]
<1> DEFINE p == Place(Top.node)
<1>1. p \in DOMAIN stack /\ stack[p] = Top.node
  BY PlaceFacts
<1>2. Len(stack) \in Nat /\ DOMAIN stack = 1..Len(stack) /\ p \in Int
  BY <1>1, TopFacts DEF SearchInv, SearchTypeOK
<1>3. \A i \in DOMAIN stack : indices[stack[i]] \in Int /\ stack[i] \in onStack
  BY TopFacts, Ranges DEF SearchInv, StackOrdered
<1>4. \A i, j \in DOMAIN stack : i < j => indices[stack[i]] < indices[stack[j]]
  BY DEF SearchInv, StackOrdered
<1>5. Above(Top.node) = {stack[k] : k \in p..Len(stack)}
  BY DEF Above
<1> HIDE DEF p
<1>6. \A k \in p..Len(stack) : k \in DOMAIN stack
  BY <1>1, <1>2
<1>7. ASSUME NEW n \in onStack PROVE n \in Above(Top.node) <=> indices[Top.node] <= indices[n]
  <2>1. PICK i \in DOMAIN stack : stack[i] = n
    BY DEF SearchInv, StackOrdered
  <2>2. CASE i < p
    <3>1. indices[n] < indices[Top.node]
      BY <2>1, <2>2, <1>1, <1>4
    <3>2. ASSUME n \in Above(Top.node) PROVE FALSE
      <4>1. PICK k \in p..Len(stack) : stack[k] = n
        BY <3>2, <1>5
      <4>2. k \in DOMAIN stack /\ i < k
        BY <4>1, <2>2, <1>2, <1>6
      <4>3. indices[n] < indices[n] /\ indices[n] \in Int
        BY <4>1, <4>2, <2>1, <1>3, <1>4
      <4>4. QED BY <4>3
    <3>3. QED BY <3>1, <3>2, <2>1, <1>1, <1>3
  <2>3. CASE ~(i < p)
    <3>1. i \in p..Len(stack)
      BY <2>1, <2>3, <1>2
    <3>2. i = p \/ indices[Top.node] < indices[n]
      BY <3>1, <2>1, <1>1, <1>2, <1>4
    <3>3. QED BY <3>1, <3>2, <2>1, <1>1, <1>3, <1>5
  <2>4. QED BY <2>2, <2>3
<1>8. QED BY <1>3, <1>5, <1>6, <1>7

(* The nodes above the visited one, all of them its own, lead to each      *)
(* other, and every edge out of them ends in a component found before.     *)
LEMMA CloseTree ==
  ASSUME SearchInv, TreeInv, calls # <<>>, Top.left = {}, Close
  PROVE  TreeInv'
<1>0. PICK last \in Nat : last = Len(calls)
  BY Ranges
<1> DEFINE v == calls[last].node
           Comp == Above(Top.node)
           Old == UNION result
<1>1. /\ \A k \in Names : indices[k] \in Int /\ lowlink[k] \in Int
      /\ onStack \subseteq Names /\ nodes \subseteq Names
      /\ \A i \in DOMAIN calls : calls[i].node \in onStack /\ calls[i].node \in Names
      /\ last \in DOMAIN calls /\ DOMAIN calls = 1..last /\ last \in Nat
      /\ calls[last].left = {} /\ v = Top.node /\ v \in Names /\ v \in onStack
      /\ \A k \in onStack : Seen(k) /\ k \in nodes
  BY <1>0, Ranges, TopFacts DEF Top
<1>2. /\ UNCHANGED <<edges, nodes, index, indices>> /\ result' = result \cup {Comp}
      /\ onStack' = onStack \ Comp /\ lowlink[v] = indices[v] /\ HandUp
  BY <1>1 DEF Close
<1>3. Comp \subseteq onStack /\ \A k \in onStack : k \in Comp <=> indices[v] <= indices[k]
  BY <1>1, AboveTop
<1>4. /\ DOMAIN calls' = 1..(last - 1)
      /\ \A i \in DOMAIN calls' : i \in DOMAIN calls /\ i < last /\ calls'[i] = calls[i]
  BY <1>0, <1>1, <1>2, HandUpFacts
<1> HIDE DEF Comp
<1>5. \A i, j \in DOMAIN calls : i < j => indices[calls[i].node] < indices[calls[j].node]
  BY DEF SearchInv, CallsOrdered
<1>6. \A i \in DOMAIN calls : i # last => indices[calls[i].node] < indices[v]
  BY <1>1, <1>5
<1>7. \A i \in DOMAIN calls' : /\ calls'[i].node \in onStack' /\ calls'[i].node \in Names
                               /\ indices[calls'[i].node] < indices[v]
                               /\ lowlink'[calls'[i].node] = lowlink[calls[i].node]
  <2> SUFFICES ASSUME NEW i \in DOMAIN calls'
               PROVE  /\ calls'[i].node \in onStack' /\ calls'[i].node \in Names
                      /\ indices[calls'[i].node] < indices[v]
                      /\ lowlink'[calls'[i].node] = lowlink[calls[i].node]
    OBVIOUS
  <2>1. i \in DOMAIN calls /\ i < last /\ calls'[i] = calls[i] /\ i # last
    BY <1>1, <1>4
  <2>2. indices[calls[i].node] < indices[v] /\ calls[i].node \in Names /\ calls[i].node \in onStack
    BY <2>1, <1>1, <1>6
  <2>3. calls[i].node \in onStack'
    BY <2>2, <1>1, <1>2, <1>3
  <2>4. last > 1
    BY <2>1, <1>1
  <2>5. lowlink'[calls[i].node] = lowlink[calls[i].node]
    <3> DEFINE p == calls[last - 1].node
    <3>1. /\ last - 1 \in DOMAIN calls /\ p \in Names
          /\ \A k \in Names : k # p => lowlink'[k] = lowlink[k]
          /\ lowlink'[p] <= lowlink[p] /\ lowlink'[p] <= lowlink[v]
          /\ lowlink'[p] \in {lowlink[p], lowlink[v]}
      BY <2>4, <1>0, <1>1, <1>2, HandUpLow
    <3>2. lowlink[p] <= indices[p]
      BY <3>1, LowNotAbove
    <3>3. indices[p] < indices[v]
      BY <3>1, <1>1, <1>6
    <3>4. indices[p] \in Int /\ lowlink[p] \in Int /\ indices[v] \in Int
      BY <3>1, <1>1
    <3> HIDE DEF p
    <3>5. lowlink[p] < lowlink[v]
      BY <3>2, <3>3, <3>4, <1>2
    <3>6. lowlink'[p] = lowlink[p]
      BY <3>1, <3>4, <3>5, <1>2
    <3>7. QED BY <2>2, <3>1, <3>6
  <2>6. QED BY <2>1, <2>2, <2>3, <2>5
<1>8. ASSUME NEW k \in Comp
      PROVE  Owns(last, k) /\ Leads(edges, nodes, k, v) /\ Leads(edges, nodes, v, k)
  <2>1. k \in onStack /\ indices[v] <= indices[k]
    BY <1>3
  <2>2. PICK i \in DOMAIN calls : /\ Owns(i, k) /\ Leads(edges, nodes, k, calls[i].node)
                                  /\ Leads(edges, nodes, calls[i].node, k)
    BY <2>1 DEF TreeInv, Grouped
  <2>3. i = last
    <3> SUFFICES ASSUME i # last PROVE FALSE
      OBVIOUS
    <3>1. indices[k] < indices[v]
      BY <2>2, <1>1 DEF Owns
    <3>2. QED BY <2>1, <3>1, <1>1
  <2>4. QED BY <2>2, <2>3
<1>9. ASSUME NEW k \in Comp, NEW m \in edges[k] \cap nodes PROVE m \in Comp \cup Old
  <2>1. k \in onStack /\ k \in Names /\ Seen(k) /\ Owns(last, k) /\ m \in Names
    BY <1>1, <1>3, <1>8
  <2>2. Seen(m)
    <3> SUFFICES ASSUME NEW i \in DOMAIN calls, calls[i].node = k, m \in calls[i].left PROVE FALSE
      BY <2>1 DEF TreeInv, Scanned
    <3>1. i # last
      BY <1>1
    <3>2. indices[k] < indices[v] /\ indices[v] <= indices[k]
      BY <3>1, <1>3, <1>6
    <3>3. QED BY <3>2, <2>1, <1>1
  <2>3. m \in onStack \/ m \in Old
    BY <2>1, <2>2 DEF SearchInv, Partition
  <2>4. CASE m \in onStack
    <3>1. lowlink[v] <= indices[m] \/ m \in calls[last].left
      BY <2>1, <2>4, <1>1 DEF TreeInv, LowLeast
    <3>2. QED BY <2>4, <3>1, <1>1, <1>2, <1>3
  <2>5. QED BY <2>3, <2>4
<1>10. UNION result' = Old \cup Comp /\ v \in Comp /\ Comp \cap Old = {} /\ Old \subseteq nodes
  <2>1. v \in Comp
    BY <1>1, <1>3
  <2>2. Comp \cap Old = {}
    BY <1>3 DEF SearchInv, Partition
  <2>3. Old \subseteq nodes
    BY DEF SearchInv, Partition, Numbered, SearchTypeOK, Seen
  <2>4. QED BY <2>1, <2>2, <2>3, <1>2
<1>11. Scanned' /\ LeftEdges'
  <2>1. ASSUME NEW k \in Names, Seen(k), NEW m \in edges[k] \cap nodes
        PROVE  Seen(m) \/ \E i \in DOMAIN calls' : calls'[i].node = k /\ m \in calls'[i].left
    <3>1. Seen(m) \/ \E i \in DOMAIN calls : calls[i].node = k /\ m \in calls[i].left
      BY <2>1 DEF TreeInv, Scanned
    <3>2. \A i \in DOMAIN calls : i = last \/ i \in DOMAIN calls'
      BY <1>1, <1>4
    <3>3. QED BY <3>1, <3>2, <1>1, <1>4
  <2>2. Scanned'
    BY <2>1, <1>2 DEF Scanned, Seen
  <2>3. QED BY <2>2, <1>2, <1>4 DEF TreeInv, LeftEdges
<1>12. FoundClosed'
  <2>1. \A k \in Old : edges[k] \cap nodes \subseteq Old
    BY DEF TreeInv, FoundClosed
  <2>2. \A k \in Comp : edges[k] \cap nodes \subseteq Old \cup Comp
    BY <1>9
  <2> HIDE DEF Old
  <2>3. QED BY <2>1, <2>2, <1>2, <1>10 DEF FoundClosed
<1>13. FoundExact'
  <2>1. \A a, b \in Comp : Leads(edges, nodes, a, b)
    BY <1>8, LeadsOn
  <2>2. /\ \A k \in Old : edges[k] \cap nodes \subseteq Old
        /\ \A k \in Comp : edges[k] \cap nodes \subseteq Old \cup Comp
        /\ Old \in SUBSET nodes /\ Old \cap Comp = {} /\ Comp # {}
    BY <1>9, <1>10 DEF TreeInv, FoundClosed
  <2>3. \E S \in SUBSET nodes : /\ S \cap Comp = {}
                                /\ \A n \in S : edges[n] \cap nodes \subseteq S
                                /\ \A n \in Comp : edges[n] \cap nodes \subseteq S \cup Comp
    BY <2>2
  <2>4. ExactIn(edges, nodes, Comp)
    BY <2>1, <2>2, <2>3 DEF ExactIn
  <2>5. QED BY <2>4, <1>2 DEF TreeInv, FoundExact
<1>14. Chained'
  BY <1>2, <1>4 DEF TreeInv, Chained
<1>15. \A i \in DOMAIN calls', k \in onStack' : Owns(i, k) <=> Owns(i, k)'
  <2> SUFFICES ASSUME NEW i \in DOMAIN calls', NEW k \in onStack' PROVE Owns(i, k) <=> Owns(i, k)'
    OBVIOUS
  <2>1. indices[k] < indices[v]
    BY <1>1, <1>2, <1>3
  <2>2. \A j \in DOMAIN calls : j = last \/ j \in DOMAIN calls'
    BY <1>1, <1>4
  <2>3. QED BY <2>1, <2>2, <1>2, <1>4 DEF Owns
<1>16. Grouped'
  <2> SUFFICES ASSUME NEW k \in onStack'
               PROVE  \E i \in DOMAIN calls' : /\ Owns(i, k)' /\ Leads(edges, nodes, k, calls[i].node)
                                               /\ Leads(edges, nodes, calls[i].node, k)
    BY <1>2, <1>4 DEF Grouped
  <2>1. k \in onStack /\ indices[k] < indices[v] /\ k \in Names
    BY <1>1, <1>2, <1>3
  <2>2. PICK i \in DOMAIN calls : /\ Owns(i, k) /\ Leads(edges, nodes, k, calls[i].node)
                                  /\ Leads(edges, nodes, calls[i].node, k)
    BY <2>1 DEF TreeInv, Grouped
  <2>3. i # last
    <3> SUFFICES ASSUME i = last PROVE FALSE
      OBVIOUS
    <3>1. indices[v] <= indices[k]
      BY <2>2 DEF Owns
    <3>2. QED BY <2>1, <3>1, <1>1
  <2>4. i \in DOMAIN calls'
    BY <2>3, <1>1, <1>4
  <2>5. QED BY <2>2, <2>4, <1>15
<1>17. LowReached'
  <2> SUFFICES ASSUME NEW i \in DOMAIN calls'
               PROVE  \E m \in onStack' : /\ indices[m] = lowlink'[calls'[i].node]
                                          /\ Leads(edges, nodes, calls'[i].node, m)
    BY <1>2 DEF LowReached
  <2>1. i \in DOMAIN calls /\ calls'[i] = calls[i]
    BY <1>4
  <2>2. PICK m \in onStack : indices[m] = lowlink[calls[i].node] /\ Leads(edges, nodes, calls[i].node, m)
    BY <2>1 DEF TreeInv, LowReached
  <2>3. lowlink[calls[i].node] <= indices[calls[i].node] /\ indices[calls[i].node] < indices[v]
    BY <2>1, <1>7, LowNotAbove
  <2>4. indices[m] < indices[v]
    BY <2>1, <2>2, <2>3, <1>1
  <2>5. m \in onStack'
    BY <2>2, <2>4, <1>1, <1>2, <1>3
  <2>6. QED BY <2>1, <2>2, <2>5, <1>7
<1>18. LowLeast'
  <2> SUFFICES ASSUME NEW i \in DOMAIN calls', NEW k \in onStack', Owns(i, k)',
                      NEW m \in edges[k] \cap nodes \cap onStack'
               PROVE  \/ lowlink'[calls'[i].node] <= indices[m]
                      \/ calls'[i].node = k /\ m \in calls'[i].left
    BY <1>2 DEF LowLeast
  <2>1. i \in DOMAIN calls /\ k \in onStack /\ m \in onStack /\ Owns(i, k) /\ calls'[i] = calls[i]
    BY <1>2, <1>4, <1>15
  <2>2. lowlink[calls[i].node] <= indices[m] \/ (calls[i].node = k /\ m \in calls[i].left)
    BY <2>1 DEF TreeInv, LowLeast
  <2>3. QED BY <2>1, <2>2, <1>7
<1>19. QED BY <1>11, <1>12, <1>13, <1>14, <1>16, <1>17, <1>18 DEF TreeInv

LEMMA StepTree == SearchInv /\ TreeInv /\ [SearchNext]_searchVars => TreeInv'
<1> SUFFICES ASSUME SearchInv, TreeInv, [SearchNext]_searchVars PROVE TreeInv'
  OBVIOUS
<1>1. ASSUME NEW n \in nodes, Start(n) PROVE TreeInv'
  <2>1. <<>> \in Seq(Frame) /\ Len(<<>>) = Len(calls) /\ ~Seen(n) /\ calls = <<>> /\ DOMAIN <<>> = {}
    BY <1>1 DEF Start
  <2>2. Enter(n, <<>>) /\ UNCHANGED <<edges, nodes, result>>
    BY <1>1 DEF Start
  <2>3. QED BY <2>1, <2>2, EnterTree
<1>2. ASSUME calls # <<>>, NEW m \in Top.left \cap nodes, Descend(m) PROVE TreeInv'
  <2>1. Len(calls) \in DOMAIN calls /\ Top \in Frame /\ calls \in Seq(Frame)
    BY <1>2, TopFacts DEF SearchInv, SearchTypeOK
  <2>2. /\ LookedAt(m) \in Seq(Frame) /\ Len(LookedAt(m)) = Len(calls)
        /\ \A i \in DOMAIN LookedAt(m) : /\ LookedAt(m)[i].node = calls[i].node
                                         /\ LookedAt(m)[i].left \subseteq calls[i].left
                                         /\ calls[i].left \subseteq LookedAt(m)[i].left \cup {m}
    BY <2>1 DEF LookedAt, Frame, Top
  <2>3. ~Seen(m) /\ Enter(m, LookedAt(m)) /\ UNCHANGED <<edges, nodes, result>>
    BY <1>2 DEF Descend
  <2>4. m \in edges[Top.node] \cap nodes
    BY <1>2, <2>1 DEF TreeInv, LeftEdges, Top
  <2>5. Leads(edges, nodes, Top.node, m)
    BY <2>4, LeadsEdge
  <2> HIDE DEF LookedAt
  <2>6. QED BY <1>2, <2>2, <2>3, <2>5, EnterTree
<1>3. CASE calls # <<>> /\ \E m \in Top.left : LookBack(m)
  BY <1>3, LookBackTree
<1>4. CASE calls # <<>> /\ Top.left = {} /\ Close
  BY <1>4, CloseTree
<1>5. CASE calls # <<>> /\ Top.left = {} /\ Leave
  BY <1>5, LeaveTree
<1>6. CASE \E g \in Graph, ns \in SUBSET Names : Begin(g, ns)
  BY <1>6, FreshTree DEF Begin
<1>7. CASE UNCHANGED searchVars
  <2>1. UNCHANGED <<edges, nodes, index, indices, lowlink, stack, onStack, calls, result>>
    BY <1>7 DEF searchVars
  <2>2. Scanned' /\ LeftEdges'
    BY <2>1 DEF TreeInv, Scanned, LeftEdges, Seen
  <2>3. FoundClosed' /\ FoundExact' /\ Chained'
    BY <2>1 DEF TreeInv, FoundClosed, FoundExact, Chained
  <2>4. Grouped' /\ LowReached'
    BY <2>1 DEF TreeInv, Grouped, Owns, LowReached
  <2>5. LowLeast'
    BY <2>1 DEF TreeInv, LowLeast, Owns
  <2>6. QED BY <2>2, <2>3, <2>4, <2>5 DEF TreeInv
<1>8. QED BY <1>1, <1>2, <1>3, <1>4, <1>5, <1>6, <1>7 DEF SearchNext, SearchStep

(* With no visit open, what was discovered is what the components hold.    *)
LEMMA InvPlaced == SearchInv /\ TreeInv => Placed
<1> SUFFICES ASSUME SearchInv, TreeInv PROVE Placed
  OBVIOUS
<1>1. \A c, d \in result : c # d => c \cap d = {}
  BY DEF SearchInv, Partition
<1>2. ASSUME Finished PROVE UNION result = nodes /\ stack = <<>> /\ onStack = {}
  <2>1. stack = <<>>
    BY <1>2 DEF Finished, SearchInv, CallsOrdered
  <2>2. onStack = {}
    BY <2>1 DEF SearchInv, StackOrdered
  <2>3. \A n \in Names : Seen(n) <=> \E c \in result : n \in c
    BY <2>2 DEF SearchInv, Partition
  <2>4. \A n \in Names : Seen(n) <=> n \in nodes
    BY <1>2 DEF Finished, SearchInv, Numbered, Seen, SearchTypeOK
  <2>5. UNION result \subseteq Names /\ nodes \subseteq Names
    BY DEF SearchInv, SearchTypeOK
  <2>6. QED BY <2>1, <2>2, <2>3, <2>4, <2>5
<1>3. ASSUME NEW c \in result, NEW n \in c PROVE c = Mutual(edges, nodes, n)
  <2>1. c \subseteq nodes
    BY DEF SearchInv, Partition, Numbered, SearchTypeOK, Seen
  <2>2. \A a, b \in c : Leads(edges, nodes, a, b)
    BY DEF TreeInv, FoundExact, ExactIn
  <2>3. PICK S \in SUBSET nodes : /\ S \cap c = {}
                                  /\ \A k \in S : edges[k] \cap nodes \subseteq S
                                  /\ \A k \in c : edges[k] \cap nodes \subseteq S \cup c
    BY DEF TreeInv, FoundExact, ExactIn
  <2>4. ASSUME NEW m \in nodes, Leads(edges, nodes, n, m), Leads(edges, nodes, m, n) PROVE m \in c
    <3>1. PICK T \in SUBSET nodes : T = S \cup c
      BY <2>1
    <3>2. n \in T /\ \A k \in T : edges[k] \cap nodes \subseteq T
      BY <2>3, <3>1
    <3>3. m \in S \cup c
      BY <2>4, <3>1, <3>2, LeadsWithin
    <3>4. m \notin S
      <4> SUFFICES ASSUME m \in S PROVE FALSE
        OBVIOUS
      <4>1. n \in S
        BY <2>3, <2>4, LeadsWithin
      <4>2. QED BY <2>3, <4>1
    <3>5. QED BY <3>3, <3>4
  <2>5. QED BY <2>1, <2>2, <2>4 DEF Mutual
<1>4. \A c \in result : c # {}
  BY DEF TreeInv, FoundExact, ExactIn
<1>5. QED BY <1>1, <1>2, <1>3, <1>4 DEF Placed

(* Whatever graphs are searched one after the other, each component that   *)
(* is found is all the nodes that lead to each other; components share no  *)
(* name, and a finished search has put every node in one and emptied the   *)
(* stack.                                                                  *)
THEOREM ComponentsPlaced == SearchSpec => []Placed
<1>1. SearchInit => SearchInv /\ TreeInv
  BY InitInv, InitTree
<1>2. SearchInv /\ TreeInv /\ [SearchNext]_searchVars => (SearchInv /\ TreeInv)'
  BY StepInv, StepTree
<1>3. SearchInv /\ TreeInv => Placed
  BY InvPlaced
<1>4. QED BY <1>1, <1>2, <1>3, PTL DEF SearchSpec

(* The stack, the frames and the maps stay what their types say.           *)
THEOREM SearchTypeCorrect == SearchSpec => []SearchTypeOK
<1>1. SearchInv => SearchTypeOK
  BY DEF SearchInv
<1>2. QED BY <1>1, InitInv, StepInv, PTL DEF SearchSpec

===============================================================================
