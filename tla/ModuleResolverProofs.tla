-------------------------- MODULE ModuleResolverProofs --------------------------
(***************************************************************************)
(* Proofs about ModuleResolver for any set of modules and any documents.   *)
(*                                                                         *)
(* ResolverInv is about the stack only: its modules are distinct and       *)
(* visited (an import that leaves takes out its own entry, which no other  *)
(* frame has), and one of its frames has failed if and only if there is an *)
(* error.  Types, NoRecursion and ErrorsSurvive follow from it.            *)
(*                                                                         *)
(* WalkInv adds what relates the stack to the copies.  The stack is one    *)
(* path of directives (Linked).  While there is no error, the copies are   *)
(* those of the directives that the frames are past and of what is below   *)
(* them (AllSpliced), a copy inside a module being resolved is below a     *)
(* directive its frame is past (Settled), and its tags are those of the    *)
(* directives on its path that have returned (TagsExact); at the end every *)
(* directive has returned.  An included module stays visited and off the   *)
(* stack (IncludedStay).  Frames reach those above them (Descends), the    *)
(* modules of the copies are closed under directives when a module is      *)
(* done, so that none of them is on a cycle (Acyclic), and with imports    *)
(* alone the visited modules are those of the stack (VisitedIsStack).      *)
(***************************************************************************)
EXTENDS ModuleResolver, FiniteSetTheorems, SequenceTheorems, TLAPS

Failing == \E k \in 1..Len(stack) : stack[k].failed = TRUE

ResolverInv ==
  /\ TypeOK
  /\ Len(stack) > 0
  /\ NoRecursion
  /\ errors # {} <=> Failing
  /\ result # "running" => (result = "err" <=> Failing)

LEMMA DocumentFacts ==
  ASSUME TypeOK, NEW m \in Modules
  PROVE  /\ doc.body[m] \in Seq(Seq(Directive))
         /\ Nodes(m) \subseteq Nat
BY DEF TypeOK, Document, Nodes

(* Replacing the innermost frame by one of the same module.                *)
LEMMA ReplaceFacts ==
  ASSUME ResolverInv, NEW f \in Frame, f.module = Top.module, f.failed \/ ~Top.failed
  PROVE  /\ ReplaceTop(f) \in Seq(Frame)
         /\ Len(ReplaceTop(f)) = Len(stack)
         /\ \A k \in 1..Len(stack) : /\ ReplaceTop(f)[k].module = stack[k].module
                                     /\ k # Len(stack) => ReplaceTop(f)[k] = stack[k]
         /\ ReplaceTop(f)[Len(stack)] = f
<1>1. stack \in Seq(Frame) /\ Len(stack) \in 1..Len(stack)
  BY DEF ResolverInv, TypeOK
<1>. QED BY <1>1 DEF ReplaceTop, Top

LEMMA TopFacts ==
  ASSUME ResolverInv
  PROVE  /\ Len(stack) \in Nat \ {0} /\ Top \in Frame /\ Top = stack[Len(stack)]
         /\ Len(stack) > 1 => Below \in Frame /\ Below = stack[Len(stack) - 1]
<1>1. stack \in Seq(Frame) /\ Len(stack) > 0
  BY DEF ResolverInv, TypeOK
<1>. QED BY <1>1 DEF Top, Below

(* Moving a frame on.                                                      *)
LEMMA MoveFacts ==
  ASSUME NEW g \in Frame
  PROVE  /\ PastFailedNode(g) \in Frame /\ PastDirective(g) \in Frame
         /\ [g EXCEPT !.node = @ + 1, !.dir = 1] \in Frame
         /\ PastFailedNode(g).module = g.module /\ PastFailedNode(g).failed
         /\ PastDirective(g).module = g.module /\ PastDirective(g).failed = g.failed
         /\ [g EXCEPT !.node = @ + 1, !.dir = 1].module = g.module
         /\ [g EXCEPT !.node = @ + 1, !.dir = 1].failed = g.failed
<1>1. g.node \in Nat /\ g.dir \in Nat /\ g.node + 1 \in Nat /\ g.dir + 1 \in Nat
  BY DEF Frame
<1>. QED BY <1>1 DEF Frame, PastFailedNode, PastDirective

LEMMA PlaceFacts ==
  ASSUME NEW f \in Frame PROVE PlaceOf(f) \in Place
BY DEF Frame, PlaceOf, Place

LEMMA CurrentFacts ==
  ASSUME TypeOK, NEW f \in Frame, InNode(f) PROVE Current(f) \in Directive
<1>1. f.module \in Modules
  BY DEF Frame
<1>2. doc.body[f.module] \in Seq(Seq(Directive))
  BY <1>1, DocumentFacts
<1>3. f.node \in 1..Len(doc.body[f.module])
  BY DEF InNode, Nodes
<1>4. doc.body[f.module][f.node] \in Seq(Directive)
  BY <1>2, <1>3
<1>. QED BY <1>4 DEF InNode, Current

LEMMA InitInv == Init => ResolverInv
<1> SUFFICES ASSUME Init PROVE ResolverInv
  OBVIOUS
<1> DEFINE frame == [module |-> Root, place |-> <<>>, node |-> 1, dir |-> 1, failed |-> FALSE]
<1>1. frame \in Frame /\ Root \in Modules
  BY ResolverAssumption DEF Frame, Place
<1>2. stack = <<frame>> /\ stack \in Seq(Frame) /\ Len(stack) = 1 /\ stack[1] = frame
  BY <1>1 DEF Init
<1>3. TypeOK
  <2>1. /\ doc \in Document /\ visited = {Root} /\ errors = {} /\ copies = {}
        /\ libraries = <<>> /\ result = "running"
    BY ResolverAssumption DEF Init
  <2>2. libraries \in Seq(Modules)
    BY <2>1
  <2>. QED BY <1>1, <1>2, <2>1, <2>2 DEF TypeOK
<1>. QED BY <1>2, <1>3 DEF Init, ResolverInv, NoRecursion, Failing

(* A directive that fails here.                                            *)
LEMMA FailInv ==
  ASSUME ResolverInv, AtDirective, NEW code \in Codes, FailHere(code),
         visited \subseteq visited', visited' \subseteq Modules
  PROVE  ResolverInv'
<1> DEFINE f == PastFailedNode(Top)
<1>1. f \in Frame /\ f.module = Top.module /\ f.failed
  BY TopFacts, MoveFacts
<1> HIDE DEF f
<1>2. /\ stack' \in Seq(Frame) /\ Len(stack') = Len(stack)
      /\ \A k \in 1..Len(stack) : stack'[k].module = stack[k].module
      /\ stack'[Len(stack)].failed
  <2>1. stack' = ReplaceTop(f)
    BY DEF FailHere, f
  <2>. QED BY <1>1, <2>1, ReplaceFacts
<1>3. errors' \subseteq Codes \X Place /\ errors' # {}
  <2>1. PlaceOf(Top) \in Place
    BY TopFacts, PlaceFacts
  <2>2. errors' = errors \cup {<<code, PlaceOf(Top)>>}
    BY DEF FailHere
  <2>3. errors \subseteq Codes \X Place
    BY DEF ResolverInv, TypeOK
  <2>4. <<code, PlaceOf(Top)>> \in Codes \X Place
    BY <2>1
  <2>. QED BY <2>2, <2>3, <2>4
<1>4. TypeOK'
  <2>1. doc' = doc /\ copies' = copies /\ libraries' = libraries /\ result' = result
    BY DEF FailHere
  <2>. QED BY <1>2, <1>3, <2>1 DEF ResolverInv, TypeOK
<1>5. Failing'
  BY <1>2, TopFacts DEF Failing
<1>6. NoRecursion'
  BY <1>2 DEF ResolverInv, NoRecursion
<1>7. result' = "running"
  BY DEF AtDirective, FailHere
<1>. QED BY <1>2, <1>3, <1>4, <1>5, <1>6, <1>7, TopFacts DEF ResolverInv

LEMMA DescendInv == ASSUME ResolverInv, Descend PROVE ResolverInv'
<1> DEFINE d == Current(Top)
<1> DEFINE f == [module |-> d.target, place |-> PlaceOf(Top), node |-> 1, dir |-> 1, failed |-> FALSE]
<1> DEFINE n == Len(stack)
<1>1. d \in Directive /\ d.target # "nowhere" /\ d.target \notin visited
  BY TopFacts, CurrentFacts DEF Descend, AtDirective, ResolverInv, Unresolvable, Seen
<1>2. d.target \in Modules
  BY <1>1 DEF Directive
<1>3. f \in Frame
  BY <1>2, TopFacts, PlaceFacts DEF Frame
<1>4. stack \in Seq(Frame) /\ n \in Nat \ {0}
  BY TopFacts DEF ResolverInv, TypeOK
<1>5. stack' = Append(stack, f) /\ visited' = visited \cup {d.target}
      /\ UNCHANGED <<doc, errors, copies, libraries, result>> /\ result = "running"
  BY DEF Descend, AtDirective
<1> HIDE DEF f, d
<1>6. /\ stack' \in Seq(Frame) /\ Len(stack') = n + 1
      /\ \A k \in 1..n : stack'[k] = stack[k]
      /\ stack'[n + 1] = f
  BY <1>3, <1>4, <1>5
<1>7. TypeOK'
  BY <1>2, <1>5, <1>6 DEF ResolverInv, TypeOK
<1>8. f.module = d.target /\ ~f.failed
  BY DEF f
<1>9. NoRecursion'
  <2>1. \A k \in 1..n : stack[k].module \in visited
    BY DEF ResolverInv, NoRecursion
  <2>2. ASSUME NEW j \in 1..Len(stack'), NEW k \in 1..Len(stack'),
               stack'[j].module = stack'[k].module
        PROVE  j = k
    <3>1. (j = n + 1 \/ j \in 1..n) /\ (k = n + 1 \/ k \in 1..n)
      BY <1>4, <1>6
    <3>. QED BY <1>1, <1>6, <1>8, <2>1, <2>2, <3>1 DEF ResolverInv, NoRecursion
  <2>3. ASSUME NEW k \in 1..Len(stack') PROVE stack'[k].module \in visited'
    <3>1. k = n + 1 \/ k \in 1..n
      BY <1>4, <1>6
    <3>. QED BY <1>5, <1>6, <1>8, <2>1, <3>1
  <2>. QED BY <2>2, <2>3 DEF NoRecursion
<1>10. Failing' <=> Failing
  <2>1. \A k \in 1..(n + 1) : k = n + 1 \/ k \in 1..n
    BY <1>4
  <2>. QED BY <1>4, <1>6, <1>8, <2>1 DEF Failing
<1>. QED BY <1>4, <1>5, <1>6, <1>7, <1>9, <1>10 DEF ResolverInv

LEMMA NextNodeInv == ASSUME ResolverInv, NextNode PROVE ResolverInv'
<1> DEFINE f == [Top EXCEPT !.node = @ + 1, !.dir = 1]
<1>1. f \in Frame /\ f.module = Top.module /\ f.failed = Top.failed
  BY TopFacts, MoveFacts
<1>2. stack' = ReplaceTop(f) /\ UNCHANGED <<doc, visited, errors, copies, libraries, result>>
  BY DEF NextNode
<1> HIDE DEF f
<1>3. /\ stack' \in Seq(Frame) /\ Len(stack') = Len(stack)
      /\ \A k \in 1..Len(stack) : /\ stack'[k].module = stack[k].module
                                  /\ k # Len(stack) => stack'[k] = stack[k]
      /\ stack'[Len(stack)] = f
  BY <1>1, <1>2, ReplaceFacts, TopFacts DEF Frame
<1>4. TypeOK'
  BY <1>2, <1>3 DEF ResolverInv, TypeOK
<1>5. NoRecursion'
  BY <1>2, <1>3 DEF ResolverInv, NoRecursion
<1>6. Failing' <=> Failing
  BY <1>1, <1>3, TopFacts DEF Failing
<1>. QED BY <1>2, <1>3, <1>4, <1>5, <1>6 DEF ResolverInv

LEMMA Arithmetic ==
  ASSUME NEW n \in Nat, n > 1
  PROVE  /\ n - 2 \in Int /\ n - 1 \in 1..(n - 1)
         /\ (n - 2) - 1 + 1 = n - 2
         /\ (IF 1 <= n - 2 THEN (n - 2) - 1 + 1 ELSE 0) = n - 2
         /\ \A k \in 1..(n - 2) : 1 + k - 1 = k
         /\ \A k \in 1..(n - 1) : k \in 1..n /\ k # n /\ (k # n - 1 => k \in 1..(n - 2))
         /\ \A k \in 1..n : k = n \/ k \in 1..(n - 1)
OBVIOUS

(* The stack that is left when the innermost frame returns: the caller's   *)
(* frame is replaced by one that has moved on.                             *)
LEMMA ReturnFacts ==
  ASSUME ResolverInv, Len(stack) > 1, NEW f \in Frame, f.module = Below.module
  PROVE  LET rest == Append(SubSeq(stack, 1, Len(stack) - 2), f)
         IN /\ rest \in Seq(Frame) /\ Len(rest) = Len(stack) - 1
            /\ \A k \in 1..(Len(stack) - 1) : /\ rest[k].module = stack[k].module
                                              /\ k # Len(stack) - 1 => rest[k] = stack[k]
            /\ rest[Len(stack) - 1] = f
<1> DEFINE n == Len(stack)
<1> DEFINE lower == SubSeq(stack, 1, n - 2)
<1>1. stack \in Seq(Frame) /\ n \in Nat /\ n > 1
  BY TopFacts DEF ResolverInv, TypeOK
<1>2. /\ lower \in Seq(Frame) /\ Len(lower) = n - 2
      /\ \A k \in 1..(n - 2) : lower[k] = stack[k]
  <2> HIDE DEF n
  <2>1. n - 2 \in Int /\ 1 \in Int /\ \A k \in 1..(n - 2) : stack[k] \in Frame
    BY <1>1 DEF n
  <2>2. /\ lower \in Seq(Frame) /\ Len(lower) = IF 1 <= n - 2 THEN (n - 2) - 1 + 1 ELSE 0
        /\ \A k \in 1..((n - 2) - 1 + 1) : lower[k] = stack[1 + k - 1]
    BY <2>1, SubSeqProperties
  <2>3. /\ (n - 2) - 1 + 1 = n - 2 /\ \A k \in 1..(n - 2) : 1 + k - 1 = k
        /\ (IF 1 <= n - 2 THEN (n - 2) - 1 + 1 ELSE 0) = n - 2
    BY <1>1, Arithmetic
  <2>4. Len(lower) = n - 2
    BY <2>2, <2>3, Zenon
  <2>5. \A k \in 1..(n - 2) : lower[k] = stack[k]
    BY <2>2, <2>3, Zenon
  <2>. QED BY <2>2, <2>4, <2>5
<1> HIDE DEF lower
<1>3. /\ Append(lower, f) \in Seq(Frame) /\ Len(Append(lower, f)) = n - 1
      /\ \A k \in 1..(n - 2) : Append(lower, f)[k] = stack[k]
      /\ Append(lower, f)[n - 1] = f
  BY <1>1, <1>2
<1>4. f.module = stack[n - 1].module
  BY <1>1, TopFacts
<1>5. \A k \in 1..(n - 1) : k = n - 1 \/ k \in 1..(n - 2)
  BY <1>1
<1>. QED BY <1>3, <1>4, <1>5 DEF lower

(* Returning from a module leaves the stack's part of the invariant.       *)
LEMMA ReturnInv ==
  ASSUME ResolverInv, Len(stack) > 1, NEW f \in Frame, f.module = Below.module,
         f.failed = (Below.failed \/ Top.failed),
         stack' = Append(SubSeq(stack, 1, Len(stack) - 2), f),
         visited \ {Top.module} \subseteq visited'
  PROVE  stack' \in Seq(Frame) /\ Len(stack') > 0 /\ NoRecursion' /\ (Failing' <=> Failing)
<1> DEFINE n == Len(stack)
<1>1. n \in Nat /\ n > 1 /\ Top = stack[n] /\ Below = stack[n - 1]
  BY TopFacts
<1>2. /\ stack' \in Seq(Frame) /\ Len(stack') = n - 1
      /\ \A k \in 1..(n - 1) : /\ stack'[k].module = stack[k].module
                               /\ k # n - 1 => stack'[k] = stack[k]
      /\ stack'[n - 1] = f
  BY ReturnFacts
<1>3. \A k \in 1..(n - 1) : k \in 1..n /\ k # n
  BY <1>1
<1>4. NoRecursion'
  <2> HIDE DEF n
  <2>1. \A j, k \in 1..(n - 1) : stack[j].module = stack[k].module => j = k
    BY <1>3 DEF ResolverInv, NoRecursion, n
  <2>2. \A k \in 1..(n - 1) : stack[k].module \in visited'
    <3> SUFFICES ASSUME NEW k \in 1..(n - 1) PROVE stack[k].module \in visited'
      OBVIOUS
    <3>1. stack[k].module \in visited /\ stack[k].module # stack[n].module
      BY <1>1, <1>3 DEF ResolverInv, NoRecursion, n
    <3>. QED BY <1>1, <3>1
  <2>3. Len(stack') = n - 1
    BY <1>2, Zenon
  <2>4. ASSUME NEW k \in 1..Len(stack')
        PROVE  k \in 1..(n - 1) /\ stack'[k].module = stack[k].module
    <3>1. k \in 1..(n - 1)
      BY <2>3, Zenon
    <3>2. stack'[k].module = stack[k].module
      BY <3>1, <1>2, Zenon
    <3>. QED BY <3>1, <3>2, Zenon
  <2>5. ASSUME NEW j \in 1..Len(stack'), NEW k \in 1..Len(stack'),
               stack'[j].module = stack'[k].module
        PROVE  j = k
    <3>1. stack[j].module = stack[k].module
      BY <2>4, <2>5, Zenon
    <3>. QED BY <2>1, <2>4, <3>1, Zenon
  <2>6. ASSUME NEW k \in 1..Len(stack')
        PROVE  stack'[k].module \in visited'
    BY <2>2, <2>4, Zenon
  <2>. QED BY <2>5, <2>6, Zenon DEF NoRecursion
<1>5. Failing' => Failing
  <2> SUFFICES ASSUME Failing' PROVE Failing
    OBVIOUS
  <2>0. PICK k \in 1..(n - 1) : stack'[k].failed = TRUE
    BY <1>2 DEF Failing
  <2>1. CASE k = n - 1
    <3>1. stack[n - 1].failed = TRUE \/ stack[n].failed = TRUE
      BY <1>1, <1>2, <2>0, <2>1
    <3>. QED BY <1>1, <3>1 DEF Failing
  <2>2. CASE k # n - 1
    BY <1>2, <1>3, <2>0, <2>2 DEF Failing
  <2>. QED BY <2>1, <2>2
<1>6. Failing => Failing'
  <2> SUFFICES ASSUME Failing PROVE Failing'
    OBVIOUS
  <2>0. PICK k \in 1..n : stack[k].failed = TRUE
    BY DEF Failing
  <2>1. CASE k \in {n - 1, n}
    <3>1. n - 1 \in 1..(n - 1)
      BY <1>1
    <3>2. Below.failed = TRUE \/ Top.failed = TRUE
      BY <1>1, <2>0, <2>1
    <3>3. stack'[n - 1].failed = TRUE
      BY <1>2, <3>2
    <3>. QED BY <1>2, <3>1, <3>3 DEF Failing
  <2>2. CASE k \notin {n - 1, n}
    <3>1. k \in 1..(n - 1) /\ stack'[k].failed = TRUE
      BY <1>1, <1>2, <2>0, <2>2
    <3>. QED BY <1>2, <3>1 DEF Failing
  <2>. QED BY <2>1, <2>2
<1>. QED BY <1>1, <1>2, <1>4, <1>5, <1>6

LEMMA LeaveFacts ==
  ASSUME NEW d, NEW m, TypeOK
  PROVE  Leave(d, m) \subseteq Modules /\ visited \ {m} \subseteq Leave(d, m)
BY DEF Leave, TypeOK

LEMMA SpliceInv == ASSUME ResolverInv, Splice PROVE ResolverInv'
<1> DEFINE d == Current(Below)
<1> DEFINE m == Top.module
<1> DEFINE own == [module |-> m, place |-> Top.place, prunable |-> Nodes(m) \ Kept(d, m)]
<1>1. Len(stack) > 1 /\ ~Top.failed /\ result = "running"
  BY DEF Splice, FrameDone
<1>2. m \in Modules /\ Top.place \in Place /\ Below \in Frame
  BY <1>1, TopFacts DEF Frame
<1>3. /\ PastDirective(Below) \in Frame /\ PastDirective(Below).module = Below.module
      /\ PastDirective(Below).failed = Below.failed
  BY <1>2, MoveFacts
<1>4. visited' = Leave(d, m)
  BY DEF Splice
<1>5. visited' \subseteq Modules /\ visited \ {m} \subseteq visited'
  BY <1>4, LeaveFacts DEF ResolverInv
<1>6. Below.failed = (Below.failed \/ Top.failed)
  BY <1>1, <1>2 DEF Frame
<1>7. stack' \in Seq(Frame) /\ Len(stack') > 0 /\ NoRecursion' /\ (Failing' <=> Failing)
  BY <1>1, <1>3, <1>5, <1>6, ReturnInv DEF Splice
<1>8. copies' \subseteq Copy
  <2>1. own \in Copy
    BY <1>2, DocumentFacts DEF Copy, ResolverInv
  <2>2. \A c \in copies : c \in Copy /\ [c EXCEPT !.prunable = Nodes(c.module)] \in Copy
    <3> SUFFICES ASSUME NEW c \in copies
                 PROVE  c \in Copy /\ [c EXCEPT !.prunable = Nodes(c.module)] \in Copy
      OBVIOUS
    <3>1. c \in Copy /\ c.module \in Modules
      BY DEF ResolverInv, TypeOK, Copy
    <3>2. Nodes(c.module) \subseteq Nat
      BY <3>1, DocumentFacts DEF ResolverInv
    <3>. QED BY <3>1, <3>2 DEF Copy
  <2>3. Tagged(d, m, Top.place) \subseteq Copy
    BY <2>2 DEF Tagged
  <2>4. copies' = Tagged(d, m, Top.place) \cup {own}
    BY DEF Splice
  <2>. QED BY <2>1, <2>3, <2>4
<1>9. libraries' \in Seq(Modules)
  BY <1>2 DEF Splice, ResolverInv, TypeOK
<1>10. doc' = doc /\ errors' = errors /\ result' = result
  BY DEF Splice
<1>11. TypeOK'
  BY <1>5, <1>7, <1>8, <1>9, <1>10 DEF ResolverInv, TypeOK
<1>. QED BY <1>1, <1>7, <1>10, <1>11 DEF ResolverInv

LEMMA GiveUpInv == ASSUME ResolverInv, GiveUp PROVE ResolverInv'
<1>1. Len(stack) > 1 /\ Top.failed /\ result = "running"
  BY DEF GiveUp, FrameDone
<1>2. Below \in Frame
  BY <1>1, TopFacts
<1>3. /\ PastFailedNode(Below) \in Frame /\ PastFailedNode(Below).module = Below.module
      /\ PastFailedNode(Below).failed
  BY <1>2, MoveFacts
<1>4. visited' = Leave(Current(Below), Top.module)
  BY DEF GiveUp
<1>5. visited' \subseteq Modules /\ visited \ {Top.module} \subseteq visited'
  BY <1>4, LeaveFacts DEF ResolverInv
<1>6. PastFailedNode(Below).failed = (Below.failed \/ Top.failed)
  BY <1>1, <1>2, <1>3 DEF Frame, PastFailedNode
<1>7. stack' \in Seq(Frame) /\ Len(stack') > 0 /\ NoRecursion' /\ (Failing' <=> Failing)
  BY <1>1, <1>3, <1>5, <1>6, ReturnInv DEF GiveUp
<1>8. /\ doc' = doc /\ errors' = errors /\ result' = result /\ libraries' = libraries
      /\ copies' \subseteq copies
  BY DEF GiveUp
<1>9. TypeOK'
  BY <1>5, <1>7, <1>8 DEF ResolverInv, TypeOK
<1>. QED BY <1>1, <1>7, <1>8, <1>9 DEF ResolverInv

LEMMA FinishInv == ASSUME ResolverInv, Finish PROVE ResolverInv'
<1>1. Len(stack) = 1 /\ result' = (IF Top.failed THEN "err" ELSE "ok")
      /\ UNCHANGED <<doc, stack, visited, errors, copies, libraries>>
  BY DEF Finish
<1>2. Failing <=> Top.failed
  BY <1>1, TopFacts DEF Failing
<1>. QED BY <1>1, <1>2 DEF ResolverInv, TypeOK, NoRecursion, Failing

LEMMA NextInv == ResolverInv /\ [Next]_vars => ResolverInv'
<1> SUFFICES ASSUME ResolverInv, [Next]_vars PROVE ResolverInv'
  OBVIOUS
<1>1. CASE RejectUnresolvable
  <2>1. visited' = visited /\ visited \subseteq Modules
    BY <1>1 DEF RejectUnresolvable, ResolverInv, TypeOK
  <2>. QED BY <1>1, <2>1, FailInv DEF RejectUnresolvable, Codes
<1>2. CASE RejectSeen
  <2>1. visited' = visited /\ visited \subseteq Modules
    BY <1>2 DEF RejectSeen, ResolverInv, TypeOK
  <2>. QED BY <1>2, <2>1, FailInv DEF RejectSeen, Codes
<1>3. CASE RejectBroken
  <2>1. AtDirective /\ Current(Top) \in Directive /\ Current(Top).target # "nowhere"
    BY <1>3, TopFacts, CurrentFacts DEF RejectBroken, AtDirective, ResolverInv, Unresolvable
  <2>2. visited' = visited \cup {Current(Top).target} /\ visited \subseteq Modules
    BY <1>3 DEF RejectBroken, ResolverInv, TypeOK
  <2>3. visited \subseteq visited' /\ visited' \subseteq Modules
    BY <2>1, <2>2 DEF Directive
  <2>. QED BY <1>3, <2>1, <2>3, FailInv DEF RejectBroken, Codes
<1>4. CASE Descend
  BY <1>4, DescendInv
<1>5. CASE NextNode
  BY <1>5, NextNodeInv
<1>6. CASE Splice
  BY <1>6, SpliceInv
<1>7. CASE GiveUp
  BY <1>7, GiveUpInv
<1>8. CASE Finish
  BY <1>8, FinishInv
<1>9. CASE UNCHANGED vars
  BY <1>9 DEF vars, ResolverInv, TypeOK, NoRecursion, Failing
<1>. QED BY <1>1, <1>2, <1>3, <1>4, <1>5, <1>6, <1>7, <1>8, <1>9 DEF Next

LEMMA Invariance == Spec => []ResolverInv
BY InitInv, NextInv, PTL DEF Spec

(* The state of the walk has its type.                                     *)
THEOREM TypeCorrect == Spec => []TypeOK
<1>1. ResolverInv => TypeOK
  BY DEF ResolverInv
<1>. QED BY <1>1, Invariance, PTL

(* Whatever modules name each other, none is resolved inside itself, so    *)
(* that the recursion is no deeper than there are modules.                 *)
THEOREM NeverInsideItself == Spec => []NoRecursion
<1>1. ResolverInv => NoRecursion
  BY DEF ResolverInv
<1>. QED BY <1>1, Invariance, PTL

(* A walk that reported an error fails, and only such a walk.              *)
THEOREM ErrorsReachTheRoot == Spec => []ErrorsSurvive
<1>1. ResolverInv => ErrorsSurvive
  BY DEF ResolverInv, ErrorsSurvive
<1>. QED BY <1>1, Invariance, PTL
-------------------------------------------------------------------------------
(* The step of a place that a frame is at, and the directive it is.        *)
StepOf(f) == [module |-> f.module, node |-> f.node, dir |-> f.dir]
DirOf(s) == doc.body[s.module][s.node][s.dir]

(* The stack is one path: each frame but the last is at the directive that *)
(* names the module of the next, and the place of a frame is the list of   *)
(* the steps below it.                                                     *)
Linked ==
  /\ stack[1].module = Root
  /\ \A k \in 1..Len(stack) :
       /\ stack[k].node >= 1 /\ stack[k].dir >= 1
       /\ Len(stack[k].place) = k - 1
       /\ \A j \in 1..(k - 1) : stack[k].place[j] = StepOf(stack[j])
  /\ \A k \in 1..(Len(stack) - 1) :
       InNode(stack[k]) /\ Current(stack[k]).target = stack[k + 1].module

CopiesNamed ==
  \A c \in copies : Len(c.place) >= 1 /\ c.module = ModuleAt(c.place) /\ c.module # Root

(* An included copy's module is visited for good: it is not on the stack,  *)
(* from where an import could take it out.                                 *)
IncludedStay ==
  \A c \in copies : DirectiveAt(c.place).kind = "include" =>
    c.module \in visited /\ \A k \in 1..Len(stack) : stack[k].module # c.module

(* A step comes before the directive that a frame is at.                   *)
Before(s, f) == s.node < f.node \/ (s.node = f.node /\ s.dir < f.dir)
Done(f) == {p \in DirectivesOf(f.module, f.place) : Before(p[Len(p)], f)}
Places == {c.place : c \in copies}

(* While there is no error: the copies are of the directives of the copies *)
(* and of those the frames are past, and every one of these has a copy.    *)
AllSpliced ==
  /\ \A c \in copies : DirectivesOf(c.module, c.place) \subseteq Places
  /\ \A k \in 1..Len(stack) : Done(stack[k]) \subseteq Places
  /\ \A c \in copies : \/ \E d \in copies : c.place \in DirectivesOf(d.module, d.place)
                       \/ \E k \in 1..Len(stack) : c.place \in Done(stack[k])
  /\ IsFiniteSet(Done(stack[1])) /\ Len(libraries) = Cardinality(Done(stack[1]))

(* The first k steps of a copy's place lead to a frame of the stack.       *)
Open(c, k) == k < Len(stack) /\ \A i \in 1..k : c.place[i] = StepOf(stack[i])

(* A copy below a frame is below a directive the frame is past, or below   *)
(* the one it is at, inside the next frame.                                *)
Settled ==
  \A c \in copies : \A j \in 1..Len(stack) :
    /\ j <= Len(c.place)
    /\ \A i \in 1..(j - 1) : c.place[i] = StepOf(stack[i])
    => \/ Before(c.place[j], stack[j])
       \/ j < Len(stack) /\ j < Len(c.place) /\ c.place[j] = StepOf(stack[j])

(* A node of a copy is safe from pruning if all directives on the way to   *)
(* it that have returned keep it.                                          *)
StepKeeps(c, n, k) ==
  (IF k = Len(c.place) THEN n ELSE c.place[k + 1].node)
    \in Kept(DirOf(c.place[k]), DirOf(c.place[k]).target)
KeptSoFar(c, n) == \A k \in 1..Len(c.place) : Open(c, k) \/ StepKeeps(c, n, k)
TagsExact == \A c \in copies : \A n \in Nodes(c.module) : n \notin c.prunable <=> KeptSoFar(c, n)

Acyclic == \A c \in copies : c.module \notin Reachable(c.module)
Descends == \A k \in 1..Len(stack) : \A j \in 1..(k - 1) :
              stack[k].module \in Reachable(stack[j].module)

(* With imports alone, a module is visited only while it is on the stack.  *)
VisitedIsStack ==
  OnlySoundImports => /\ visited = {stack[k].module : k \in 1..Len(stack)}
                      /\ errors # {} => Cyclic

LEMMA StackFacts ==
  ASSUME ResolverInv
  PROVE  /\ Len(stack) \in Nat \ {0}
         /\ \A k \in 1..Len(stack) :
              /\ stack[k] \in Frame /\ stack[k].module \in Modules /\ stack[k].place \in Place
              /\ stack[k].node \in Nat /\ stack[k].dir \in Nat /\ stack[k].failed \in BOOLEAN
         /\ Top = stack[Len(stack)]
         /\ Len(stack) > 1 => Below = stack[Len(stack) - 1]
<1>1. stack \in Seq(Frame) /\ Len(stack) > 0
  BY DEF ResolverInv, TypeOK
<1>2. Len(stack) \in Nat \ {0} /\ \A k \in 1..Len(stack) : stack[k] \in Frame
  BY <1>1
<1>3. \A f \in Frame : /\ f.module \in Modules /\ f.place \in Place /\ f.node \in Nat
                       /\ f.dir \in Nat /\ f.failed \in BOOLEAN
  BY DEF Frame
<1>. QED BY <1>2, <1>3 DEF Top, Below

(* Frame g is frame f moved on.                                            *)
MovedOn(f, g) ==
  /\ g \in Frame /\ g.module = f.module /\ g.place = f.place
  /\ g.node >= 1 /\ g.dir >= 1
  /\ \A s : s.node \in Nat /\ s.dir \in Nat /\ Before(s, f) => Before(s, g)

LEMMA MovedFacts ==
  ASSUME NEW f \in Frame, f.node >= 1, f.dir >= 1
  PROVE  /\ MovedOn(f, PastFailedNode(f)) /\ MovedOn(f, PastDirective(f))
         /\ MovedOn(f, [f EXCEPT !.node = @ + 1, !.dir = 1])
<1>1. f.node \in Nat /\ f.dir \in Nat /\ f.failed \in BOOLEAN
  BY DEF Frame
<1>2. /\ PastFailedNode(f) = [f EXCEPT !.node = f.node + 1, !.dir = 1, !.failed = TRUE]
      /\ PastDirective(f) = [f EXCEPT !.dir = f.dir + 1]
  BY DEF PastFailedNode, PastDirective, Frame
<1>3. /\ PastFailedNode(f) \in Frame /\ PastDirective(f) \in Frame
      /\ [f EXCEPT !.node = @ + 1, !.dir = 1] \in Frame
  BY MoveFacts
<1>. QED BY <1>1, <1>2, <1>3 DEF MovedOn, Before, Frame

LEMMA DescendShape ==
  ASSUME ResolverInv, Descend
  PROVE  LET n == Len(stack)
             d == Current(Top)
         IN /\ Len(stack') = n + 1 /\ \A k \in 1..n : stack'[k] = stack[k]
            /\ stack'[n + 1] = [module |-> d.target, place |-> PlaceOf(Top),
                                node |-> 1, dir |-> 1, failed |-> FALSE]
            /\ InNode(Top) /\ d \in Directive /\ d.target \in Modules
            /\ d.target \notin visited /\ visited' = visited \cup {d.target}
            /\ UNCHANGED <<doc, errors, copies, libraries, result>>
<1> DEFINE d == Current(Top)
           f == [module |-> d.target, place |-> PlaceOf(Top), node |-> 1, dir |-> 1, failed |-> FALSE]
<1>1. d \in Directive /\ d.target # "nowhere" /\ d.target \notin visited /\ InNode(Top)
  BY TopFacts, CurrentFacts DEF Descend, AtDirective, ResolverInv, Unresolvable, Seen
<1>2. d.target \in Modules
  BY <1>1 DEF Directive
<1>3. stack \in Seq(Frame) /\ Len(stack) \in Nat
  BY TopFacts DEF ResolverInv, TypeOK
<1>4. stack' = Append(stack, f) /\ visited' = visited \cup {d.target}
      /\ UNCHANGED <<doc, errors, copies, libraries, result>>
  BY DEF Descend
<1> HIDE DEF f, d
<1>5. /\ Len(stack') = Len(stack) + 1 /\ stack'[Len(stack) + 1] = f
      /\ \A k \in 1..Len(stack) : stack'[k] = stack[k]
  BY <1>3, <1>4
<1>. QED BY <1>1, <1>2, <1>4, <1>5 DEF f, d

(* The innermost frame moves on: after a failure, or to the next node.     *)
LEMMA AdvanceShape ==
  ASSUME ResolverInv, Linked, (\E code \in Codes : FailHere(code)) \/ NextNode
  PROVE  LET n == Len(stack)
         IN /\ Len(stack') = n /\ \A k \in 1..(n - 1) : stack'[k] = stack[k]
            /\ MovedOn(Top, stack'[n])
            /\ UNCHANGED <<doc, copies, libraries, result>>
<1>1. PICK f : /\ stack' = ReplaceTop(f) /\ MovedOn(Top, f)
               /\ f.failed \/ ~Top.failed
  <2>1. Top \in Frame /\ Top.node >= 1 /\ Top.dir >= 1
    BY StackFacts DEF Linked
  <2>2. CASE \E code \in Codes : FailHere(code)
    <3>1. PastFailedNode(Top).failed
      BY <2>1, MoveFacts
    <3>. QED BY <2>1, <2>2, <3>1, MovedFacts DEF FailHere
  <2>3. CASE NextNode
    <3>1. [Top EXCEPT !.node = @ + 1, !.dir = 1].failed = Top.failed
      BY <2>1, MoveFacts
    <3>2. Top.failed \in BOOLEAN
      BY <2>1 DEF Frame
    <3>. QED BY <2>1, <2>3, <3>1, <3>2, MovedFacts DEF NextNode
  <2>. QED BY <2>2, <2>3
<1>2. /\ Len(stack') = Len(stack) /\ stack'[Len(stack)] = f
      /\ \A k \in 1..Len(stack) : k # Len(stack) => stack'[k] = stack[k]
  BY <1>1, ReplaceFacts DEF MovedOn
<1>3. \A k \in 1..(Len(stack) - 1) : k \in 1..Len(stack) /\ k # Len(stack)
  BY StackFacts
<1>4. UNCHANGED <<doc, copies, libraries, result>>
  BY DEF FailHere, NextNode
<1>. QED BY <1>1, <1>2, <1>3, <1>4

(* The innermost frame returns, and the one below it moves on.             *)
LEMMA ReturnShape ==
  ASSUME ResolverInv, Linked, Splice \/ GiveUp
  PROVE  LET n == Len(stack)
         IN /\ n > 1 /\ Len(stack') = n - 1 /\ \A k \in 1..(n - 2) : stack'[k] = stack[k]
            /\ MovedOn(Below, stack'[n - 1])
            /\ Splice => stack'[n - 1] = PastDirective(Below)
            /\ Top.node \notin Nodes(Top.module)
            /\ visited' = Leave(Current(Below), Top.module)
            /\ UNCHANGED <<doc, errors, result>>
<1> DEFINE n == Len(stack)
<1>1. n \in Nat /\ n > 1 /\ Below = stack[n - 1] /\ n - 1 \in 1..n
  BY StackFacts DEF Splice, GiveUp
<1>2. Below \in Frame /\ Below.node >= 1 /\ Below.dir >= 1
  BY <1>1, StackFacts DEF Linked
<1>3. PICK f : /\ stack' = Append(SubSeq(stack, 1, n - 2), f) /\ MovedOn(Below, f)
               /\ Splice => f = PastDirective(Below)
  <2>1. CASE Splice
    BY <1>2, <2>1, MovedFacts DEF Splice
  <2>2. CASE GiveUp /\ ~Splice
    BY <1>2, <2>2, MovedFacts DEF GiveUp
  <2>. QED BY <2>1, <2>2
<1>4. /\ Len(stack') = n - 1 /\ stack'[n - 1] = f
      /\ \A k \in 1..(n - 1) : k # n - 1 => stack'[k] = stack[k]
  BY <1>1, <1>3, ReturnFacts DEF MovedOn
<1>5. \A k \in 1..(n - 2) : k \in 1..(n - 1) /\ k # n - 1
  BY <1>1
<1>6. /\ Top.node \notin Nodes(Top.module) /\ visited' = Leave(Current(Below), Top.module)
      /\ UNCHANGED <<doc, errors, result>>
  BY DEF Splice, GiveUp, FrameDone
<1>. QED BY <1>1, <1>3, <1>4, <1>5, <1>6

LEMMA DocConstant == ASSUME [Next]_vars PROVE doc' = doc
BY DEF Next, vars, RejectUnresolvable, RejectSeen, RejectBroken, FailHere, Descend, NextNode,
   Splice, GiveUp, Finish

(* The steps, by what they do to the stack.                                *)
LEMMA StepCases ==
  ASSUME [Next]_vars
  PROVE  \/ Descend \/ Splice \/ GiveUp \/ NextNode
         \/ \E code \in Codes : FailHere(code)
         \/ UNCHANGED <<doc, stack, visited, errors, copies, libraries>>
<1>1. {"E002", "E009", "E010", "E011"} \subseteq Codes
  BY DEF Codes
<1>2. RejectUnresolvable \/ RejectSeen \/ RejectBroken => \E code \in Codes : FailHere(code)
  BY <1>1 DEF RejectUnresolvable, RejectSeen, RejectBroken
<1>. QED BY <1>2 DEF Next, vars, Finish

LEMMA LinkedDescend == ASSUME ResolverInv, Linked, Descend PROVE Linked'
<1> DEFINE n == Len(stack)
           g == stack'[n + 1]
<1>1. /\ n \in Nat \ {0} /\ Len(stack') = n + 1 /\ \A k \in 1..n : stack'[k] = stack[k]
      /\ g.module = Current(Top).target /\ g.place = PlaceOf(Top) /\ g.node = 1 /\ g.dir = 1
      /\ InNode(Top) /\ doc' = doc /\ Top = stack[n]
  BY StackFacts, DescendShape
<1> HIDE DEF g
<1>2. g = stack'[n + 1]
  BY DEF g
<1>3. stack[n].place \in Place /\ Len(stack[n].place) = n - 1
  BY <1>1, StackFacts DEF Linked
<1>4. Len(g.place) = n /\ \A j \in 1..n : g.place[j] = StepOf(stack[j])
  <2>1. g.place = Append(stack[n].place, StepOf(stack[n]))
    BY <1>1 DEF PlaceOf, StepOf
  <2>2. \A j \in 1..(n - 1) : stack[n].place[j] = StepOf(stack[j])
    <3>1. n \in 1..n
      BY <1>1
    <3>. QED BY <3>1 DEF Linked
  <2>3. stack[n].place \in Seq([module : Modules, node : Nat, dir : Nat])
    BY <1>3 DEF Place
  <2>4. Len(g.place) = n /\ g.place[n] = StepOf(stack[n])
        /\ \A j \in 1..(n - 1) : g.place[j] = stack[n].place[j]
    BY <1>1, <1>3, <2>1, <2>3
  <2>5. \A j \in 1..n : j = n \/ j \in 1..(n - 1)
    BY <1>1
  <2>. QED BY <2>2, <2>4, <2>5
<1>5. ASSUME NEW k \in 1..Len(stack')
      PROVE  /\ stack'[k].node >= 1 /\ stack'[k].dir >= 1
             /\ Len(stack'[k].place) = k - 1
             /\ \A j \in 1..(k - 1) : stack'[k].place[j] = StepOf(stack'[j])
  <2>1. CASE k \in 1..n
    <3>1. \A j \in 1..(k - 1) : j \in 1..n
      BY <1>1, <2>1
    <3>. QED BY <1>1, <2>1, <3>1 DEF Linked
  <2>2. CASE k = n + 1
    <3>1. k - 1 = n
      BY <1>1, <2>2
    <3>. QED BY <1>1, <1>2, <1>4, <2>2, <3>1
  <2>. QED BY <1>1, <2>1, <2>2
<1>6. ASSUME NEW k \in 1..(Len(stack') - 1)
      PROVE  (InNode(stack[k]) /\ Current(stack[k]).target = stack'[k + 1].module)
             /\ stack'[k] = stack[k]
  <2>1. k \in 1..n
    BY <1>1
  <2>2. CASE k = n
    BY <1>1, <1>2, <2>1, <2>2
  <2>3. CASE k # n
    <3>1. k \in 1..(n - 1) /\ k + 1 \in 1..n
      BY <1>1, <2>1, <2>3
    <3>. QED BY <1>1, <2>1, <3>1 DEF Linked
  <2>. QED BY <2>2, <2>3
<1>7. stack'[1].module = Root
  BY <1>1 DEF Linked
<1>. QED BY <1>1, <1>5, <1>6, <1>7 DEF Linked, InNode, Current, Nodes

(* A stack whose last frame has moved on is linked as the old one was.     *)
LEMMA LinkedAdvance ==
  ASSUME ResolverInv, Linked, doc' = doc, NEW m \in 1..Len(stack), Len(stack') = m,
         \A k \in 1..(m - 1) : stack'[k] = stack[k], MovedOn(stack[m], stack'[m])
  PROVE  Linked'
<1>0. m \in Nat \ {0} /\ Len(stack) \in Nat /\ m <= Len(stack)
  BY StackFacts
<1>1. /\ stack'[m].module = stack[m].module /\ stack'[m].place = stack[m].place
      /\ stack'[m].node >= 1 /\ stack'[m].dir >= 1
  BY DEF MovedOn
<1>2. \A k \in 1..m : k = m \/ k \in 1..(m - 1)
  BY <1>0
<1>3. ASSUME NEW k \in 1..m
      PROVE  /\ stack'[k].node >= 1 /\ stack'[k].dir >= 1
             /\ Len(stack'[k].place) = k - 1
             /\ \A j \in 1..(k - 1) : stack'[k].place[j] = StepOf(stack'[j])
  <2>1. k \in 1..Len(stack) /\ \A j \in 1..(k - 1) : j \in 1..(m - 1)
    BY <1>0
  <2>. QED BY <1>1, <1>2, <2>1 DEF Linked
<1>4. ASSUME NEW k \in 1..(m - 1)
      PROVE  /\ stack'[k] = stack[k]
             /\ InNode(stack[k]) /\ Current(stack[k]).target = stack'[k + 1].module
  <2>1. k \in 1..(Len(stack) - 1) /\ k + 1 \in 1..m
    BY <1>0
  <2>. QED BY <1>1, <1>2, <2>1 DEF Linked
<1>5. stack'[1].module = Root
  <2>1. 1 = m \/ 1 \in 1..(m - 1)
    BY <1>0
  <2>. QED BY <1>1, <2>1 DEF Linked
<1>. QED BY <1>3, <1>4, <1>5 DEF Linked, InNode, Current, Nodes

LEMMA LinkedStep == ASSUME ResolverInv, Linked, [Next]_vars PROVE Linked'
<1>1. CASE Descend
  BY <1>1, LinkedDescend
<1>2. CASE Splice \/ GiveUp
  <2>1. Len(stack) - 1 \in 1..Len(stack) /\ (Len(stack) - 1) - 1 = Len(stack) - 2
        /\ Below = stack[Len(stack) - 1]
    BY <1>2, ReturnShape, StackFacts
  <2>. QED BY <1>2, <2>1, ReturnShape, LinkedAdvance
<1>3. CASE (\E code \in Codes : FailHere(code)) \/ NextNode
  <2>1. Len(stack) \in 1..Len(stack) /\ Top = stack[Len(stack)]
    BY StackFacts
  <2>. QED BY <1>3, <2>1, AdvanceShape, LinkedAdvance
<1>4. CASE UNCHANGED <<doc, stack, visited, errors, copies, libraries>>
  BY <1>4 DEF Linked, InNode, Current, Nodes
<1>. QED BY <1>1, <1>2, <1>3, <1>4, StepCases

LEMMA LinkedInit == Init => Linked
BY DEF Init, Linked, InNode, Current
-------------------------------------------------------------------------------
LEMMA AppendFacts ==
  ASSUME NEW S, NEW s \in Seq(S), NEW e \in S, NEW m \in Nat, Len(s) = m
  PROVE  /\ Append(s, e) \in Seq(S) /\ Len(Append(s, e)) = m + 1 /\ Append(s, e)[m + 1] = e
         /\ \A j \in 1..m : Append(s, e)[j] = s[j]
         /\ \A j \in 1..(m + 1) : j = m + 1 \/ j \in 1..m
OBVIOUS

(* Returning to the place of the innermost frame.                          *)
LEMMA TopPlace ==
  ASSUME ResolverInv, Linked, Len(stack) > 1
  PROVE  LET n == Len(stack)
         IN /\ Top.place = PlaceOf(Below) /\ Len(Top.place) = n - 1
            /\ Top.place[n - 1] = StepOf(Below)
            /\ \A j \in 1..(n - 1) : Top.place[j] = StepOf(stack[j])
            /\ InNode(Below) /\ Current(Below).target = Top.module
            /\ Current(Below) \in Directive /\ Below \in Frame
            /\ DirectiveAt(Top.place) = Current(Below)
<1> DEFINE n == Len(stack)
<1>1. n \in Nat /\ n > 1 /\ Top = stack[n] /\ Below = stack[n - 1]
      /\ n \in 1..n /\ n - 1 \in 1..n /\ n - 1 \in 1..(n - 1) /\ (n - 1) + 1 = n
  BY StackFacts
<1>2. /\ Len(Top.place) = n - 1 /\ \A j \in 1..(n - 1) : Top.place[j] = StepOf(stack[j])
      /\ Len(Below.place) = (n - 1) - 1
      /\ \A j \in 1..((n - 1) - 1) : Below.place[j] = StepOf(stack[j])
  BY <1>1 DEF Linked
<1>3. InNode(Below) /\ Current(Below).target = Top.module
  BY <1>1 DEF Linked
<1>4. Below \in Frame /\ Top.place \in Place /\ Below.place \in Place
  BY <1>1, StackFacts
<1>5. Top.place = PlaceOf(Below)
  <2> DEFINE S == [module : Modules, node : Nat, dir : Nat]
             q == Append(Below.place, StepOf(Below))
  <2>1. Top.place \in Seq(S) /\ Below.place \in Seq(S) /\ StepOf(Below) \in S
    BY <1>4 DEF Place, Frame, StepOf
  <2> HIDE DEF S
  <2>2. PICK m \in Nat : n = m + 2
    <3>1. n - 2 \in Nat /\ n = (n - 2) + 2
      BY <1>1
    <3>. QED BY <3>1
  <2>3. n - 1 = m + 1 /\ (n - 1) - 1 = m
    BY <2>2
  <2>4. Len(q) = Len(Top.place) /\ q \in Seq(S) /\ \A j \in 1..Len(q) : q[j] = Top.place[j]
    <3>1. Len(Below.place) = m /\ Len(Top.place) = m + 1 /\ Below = stack[m + 1]
      BY <1>1, <1>2, <2>3
    <3>2. /\ q \in Seq(S) /\ Len(q) = m + 1 /\ q[m + 1] = StepOf(Below)
          /\ \A j \in 1..m : q[j] = Below.place[j]
          /\ \A j \in 1..(m + 1) : j = m + 1 \/ j \in 1..m
      BY <2>1, <3>1, AppendFacts
    <3> HIDE DEF q
    <3>3. /\ \A j \in 1..(m + 1) : Top.place[j] = StepOf(stack[j])
          /\ \A j \in 1..m : Below.place[j] = StepOf(stack[j])
      BY <1>2, <2>3
    <3>. QED BY <3>1, <3>2, <3>3
  <2> HIDE DEF q
  <2>5. q = Top.place
    BY <2>1, <2>4, SeqEqual
  <2>. QED BY <2>5 DEF PlaceOf, StepOf, q
<1>6. Top.place[n - 1] = StepOf(Below)
  BY <1>1, <1>2
<1>7. DirectiveAt(Top.place) = Current(Below)
  BY <1>2, <1>6 DEF DirectiveAt, StepOf, Current
<1>8. Current(Below) \in Directive
  BY <1>3, <1>4, CurrentFacts DEF ResolverInv
<1>. QED BY <1>1, <1>2, <1>3, <1>4, <1>5, <1>6, <1>7, <1>8

(* What a splice adds to the copies: tags aside, the copy of the module.   *)
Spliced == [module |-> Top.module, place |-> Top.place,
            prunable |-> Nodes(Top.module) \ Kept(Current(Below), Top.module)]

LEMMA SpliceCopies ==
  ASSUME ResolverInv, Splice
  PROVE  /\ Spliced \in copies'
         /\ \A c \in copies' : c = Spliced \/ \E b \in copies : c.module = b.module /\ c.place = b.place
         /\ \A b \in copies : \E c \in copies' : c.module = b.module /\ c.place = b.place
<1>1. copies' = Tagged(Current(Below), Top.module, Top.place) \cup {Spliced}
  BY DEF Splice, Spliced
<1>2. \A b \in copies : /\ [b EXCEPT !.prunable = Nodes(b.module)].module = b.module
                        /\ [b EXCEPT !.prunable = Nodes(b.module)].place = b.place
  BY DEF ResolverInv, TypeOK, Copy
<1>3. \A c \in Tagged(Current(Below), Top.module, Top.place) :
        \E b \in copies : c.module = b.module /\ c.place = b.place
  BY <1>2 DEF Tagged
<1>4. \A b \in copies : \E c \in Tagged(Current(Below), Top.module, Top.place) :
        c.module = b.module /\ c.place = b.place
  BY <1>2 DEF Tagged
<1>. QED BY <1>1, <1>3, <1>4

LEMMA OtherSteps ==
  ASSUME [Next]_vars
  PROVE  Splice \/ copies' \subseteq copies
<1>. QED BY StepCases DEF Descend, NextNode, GiveUp, FailHere

LEMMA CopiesNamedStep ==
  ASSUME ResolverInv, Linked, CopiesNamed, [Next]_vars PROVE CopiesNamed'
<1>1. doc' = doc
  BY DocConstant
<1>2. CASE ~Splice
  BY <1>1, <1>2, OtherSteps DEF CopiesNamed, ModuleAt, DirectiveAt
<1>3. CASE Splice
  <2>1. /\ Len(stack) > 1 /\ Len(Top.place) >= 1 /\ Top.module = ModuleAt(Top.place)
    BY <1>3, TopPlace, ReturnShape, StackFacts DEF ModuleAt
  <2>2. Top.module # Root
    <3>1. /\ Len(stack) \in 1..Len(stack) /\ 1 \in 1..Len(stack) /\ Len(stack) # 1
          /\ stack[1].module = Root /\ Top = stack[Len(stack)]
      BY <2>1, StackFacts DEF Linked
    <3>. QED BY <3>1 DEF ResolverInv, NoRecursion
  <2>3. Spliced.place = Top.place /\ Spliced.module = Top.module
    BY DEF Spliced
  <2>4. ASSUME NEW c \in copies'
        PROVE  Len(c.place) >= 1 /\ c.module = ModuleAt(c.place) /\ c.module # Root
    BY <1>3, <2>1, <2>2, <2>3, SpliceCopies DEF CopiesNamed
  <2>. QED BY <1>1, <2>4 DEF CopiesNamed, ModuleAt, DirectiveAt
<1>. QED BY <1>2, <1>3

LEMMA IncludedStayStep ==
  ASSUME ResolverInv, Linked, IncludedStay, IncludedOnce, [Next]_vars
  PROVE  IncludedStay' /\ IncludedOnce'
<1>1. doc' = doc
  BY DocConstant
<1>2. \A p : DirectiveAt(p)' = DirectiveAt(p)
  BY <1>1 DEF DirectiveAt
<1> DEFINE n == Len(stack)
           Fine(c) == DirectiveAt(c.place).kind = "include" =>
                        c.module \in visited' /\ \A k \in 1..Len(stack') : stack'[k].module # c.module
<1>3. CASE copies' = copies /\ visited \subseteq visited' /\ Len(stack') = n
           /\ \A k \in 1..n : stack'[k].module = stack[k].module
  BY <1>1, <1>3 DEF IncludedStay, IncludedOnce, DirectiveAt
<1>4. CASE Descend
  <2>1. /\ Len(stack') = n + 1 /\ \A k \in 1..n : stack'[k] = stack[k]
        /\ stack'[n + 1].module = Current(Top).target /\ Current(Top).target \notin visited
        /\ visited' = visited \cup {Current(Top).target} /\ copies' = copies /\ n \in Nat
    BY <1>4, DescendShape, StackFacts
  <2>2. \A k \in 1..(n + 1) : k = n + 1 \/ k \in 1..n
    BY <2>1
  <2>3. IncludedStay'
    BY <1>2, <2>1, <2>2 DEF IncludedStay
  <2>4. IncludedOnce'
    BY <1>2, <2>1 DEF IncludedOnce
  <2>. QED BY <2>3, <2>4
<1>5. ASSUME Splice \/ GiveUp
      PROVE  /\ n > 1 /\ n \in Nat /\ Top = stack[n] /\ Len(stack') = n - 1
             /\ \A k \in 1..(n - 1) : stack'[k].module = stack[k].module /\ stack[k].module # Top.module
             /\ visited' = Leave(Current(Below), Top.module)
             /\ \A c \in copies : Fine(c)
  <2>1. /\ n > 1 /\ n \in Nat /\ Top = stack[n] /\ Below = stack[n - 1] /\ Len(stack') = n - 1
        /\ \A k \in 1..(n - 2) : stack'[k] = stack[k]
        /\ stack'[n - 1].module = Below.module
        /\ visited' = Leave(Current(Below), Top.module)
    BY <1>5, ReturnShape, StackFacts DEF MovedOn
  <2>2. \A k \in 1..(n - 1) : k \in 1..n /\ k # n /\ (k = n - 1 \/ k \in 1..(n - 2))
    BY <2>1
  <2>3. n \in 1..n
    BY <2>1
  <2>4. \A k \in 1..(n - 1) : stack'[k].module = stack[k].module /\ stack[k].module # Top.module
    BY <2>1, <2>2, <2>3 DEF ResolverInv, NoRecursion
  <2>5. ASSUME NEW c \in copies, DirectiveAt(c.place).kind = "include"
        PROVE  c.module \in visited' /\ \A k \in 1..Len(stack') : stack'[k].module # c.module
    <3>1. c.module \in visited /\ \A k \in 1..n : stack[k].module # c.module
      BY <2>5 DEF IncludedStay
    <3>2. c.module # Top.module
      BY <2>1, <2>3, <3>1
    <3>3. c.module \in visited'
      BY <2>1, <3>1, <3>2 DEF Leave
    <3>. QED BY <2>1, <2>2, <2>4, <3>1, <3>3
  <2>. QED BY <2>1, <2>4, <2>5
<1>6. CASE GiveUp
  <2>1. copies' \subseteq copies
    BY <1>6 DEF GiveUp
  <2>2. \A c \in copies : Fine(c)
    BY <1>5, <1>6
  <2>3. IncludedStay'
    BY <1>2, <2>1, <2>2 DEF IncludedStay
  <2>4. IncludedOnce'
    BY <1>2, <2>1 DEF IncludedOnce
  <2>. QED BY <2>3, <2>4
<1>7. CASE Splice
  <2>1. Spliced.module = Top.module /\ Spliced.place = Top.place
    BY DEF Spliced
  <2>2. DirectiveAt(Top.place) = Current(Below)
    BY <1>5, <1>7, TopPlace
  <2>3. Top.module \in visited
    <3>1. n \in 1..n /\ Top = stack[n]
      BY <1>5, <1>7
    <3>. QED BY <3>1 DEF ResolverInv, NoRecursion
  <2>4. Fine(Spliced)
    <3> SUFFICES ASSUME DirectiveAt(Spliced.place).kind = "include"
                 PROVE  /\ Spliced.module \in visited'
                        /\ \A k \in 1..Len(stack') : stack'[k].module # Spliced.module
      OBVIOUS
    <3>1. Current(Below).kind # "import"
      BY <2>1, <2>2
    <3>2. visited' = visited
      BY <1>5, <1>7, <3>1 DEF Leave
    <3>. QED BY <1>5, <1>7, <2>1, <2>3, <3>2
  <2>5. \A c \in copies : Fine(c)
    BY <1>5, <1>7
  <2>6. \A c \in copies' : \/ c.place = Spliced.place /\ c.module = Spliced.module
                         \/ \E b \in copies : c.module = b.module /\ c.place = b.place
    BY <1>7, SpliceCopies
  <2>7. \A c \in copies' : Fine(c)
    BY <2>4, <2>5, <2>6
  <2>8. IncludedStay'
    BY <1>2, <2>7 DEF IncludedStay
  <2>9. \A c \in copies : c.module = Top.module => DirectiveAt(c.place).kind # "include"
    <3>1. n \in 1..n /\ Top = stack[n]
      BY <1>5, <1>7
    <3>. QED BY <3>1 DEF IncludedStay
  <2>10. IncludedOnce'
    <3> SUFFICES ASSUME NEW c \in copies', NEW d \in copies',
                        c.module = d.module, c.place # d.place,
                        DirectiveAt(c.place).kind = "include", DirectiveAt(d.place).kind = "include"
                 PROVE  FALSE
      BY <1>2 DEF IncludedOnce
    <3>1. CASE c.place = Spliced.place /\ c.module = Spliced.module
      BY <2>1, <2>6, <2>9, <3>1
    <3>2. CASE d.place = Spliced.place /\ d.module = Spliced.module
      BY <2>1, <2>6, <2>9, <3>2
    <3>3. CASE ~(c.place = Spliced.place /\ c.module = Spliced.module)
               /\ ~(d.place = Spliced.place /\ d.module = Spliced.module)
      BY <2>6, <3>3 DEF IncludedOnce
    <3>. QED BY <3>1, <3>2, <3>3
  <2>. QED BY <2>8, <2>10
<1>8. CASE (\E code \in Codes : FailHere(code)) \/ NextNode
  <2>1. /\ Len(stack') = n /\ \A k \in 1..(n - 1) : stack'[k] = stack[k]
        /\ stack'[n].module = stack[n].module /\ copies' = copies /\ n \in Nat \ {0}
    BY <1>8, AdvanceShape, StackFacts DEF MovedOn
  <2>2. \A k \in 1..n : k = n \/ k \in 1..(n - 1)
    BY <2>1
  <2>3. CASE visited \subseteq visited'
    BY <1>3, <2>1, <2>2, <2>3
  <2>4. CASE ~(visited \subseteq visited')
    BY <1>4, <1>6, <1>7, <2>4
      DEF Next, vars, RejectUnresolvable, RejectSeen, RejectBroken, NextNode, Finish
  <2>. QED BY <2>3, <2>4
<1>9. CASE UNCHANGED <<doc, stack, visited, errors, copies, libraries>>
  BY <1>3, <1>9
<1>. QED BY <1>4, <1>6, <1>7, <1>8, <1>9, StepCases
-------------------------------------------------------------------------------
(* The directives a frame is past, as it moves on.                         *)
Step(m, n, k) == [module |-> m, node |-> n, dir |-> k]

LEMMA DirectivesFacts ==
  ASSUME TypeOK, NEW m \in Modules, NEW place \in Place
  PROVE  /\ \A p : p \in DirectivesOf(m, place) <=>
              \E n \in Nodes(m) : \E k \in 1..Len(doc.body[m][n]) : p = Append(place, Step(m, n, k))
         /\ \A n \in Nodes(m) : n \in Nat /\ n >= 1 /\ Len(doc.body[m][n]) \in Nat
         /\ \A n \in Nat, k \in Nat :
              /\ Append(place, Step(m, n, k)) \in Place
              /\ Len(Append(place, Step(m, n, k))) = Len(place) + 1
              /\ Append(place, Step(m, n, k))[Len(place) + 1] = Step(m, n, k)
              /\ \A j \in 1..Len(place) : Append(place, Step(m, n, k))[j] = place[j]
         /\ Len(place) \in Nat
<1> DEFINE S == [module : Modules, node : Nat, dir : Nat]
<1>1. \A p : p \in DirectivesOf(m, place) <=>
              \E n \in Nodes(m) : \E k \in 1..Len(doc.body[m][n]) : p = Append(place, Step(m, n, k))
  BY DEF DirectivesOf, Step
<1>2. doc.body[m] \in Seq(Seq(Directive))
  BY DocumentFacts
<1>3. \A n \in Nodes(m) : n \in Nat /\ n >= 1 /\ Len(doc.body[m][n]) \in Nat
  BY <1>2 DEF Nodes
<1>4. place \in Seq(S) /\ \A n \in Nat, k \in Nat : Step(m, n, k) \in S
  BY DEF Place, Step
<1> HIDE DEF S
<1>5. Len(place) \in Nat /\ \A s \in S :
        /\ Append(place, s) \in Seq(S) /\ Len(Append(place, s)) = Len(place) + 1
        /\ Append(place, s)[Len(place) + 1] = s
        /\ \A j \in 1..Len(place) : Append(place, s)[j] = place[j]
  <2>1. Len(place) \in Nat
    BY <1>4
  <2>. QED BY <1>4, <2>1, AppendFacts
<1>. QED BY <1>1, <1>3, <1>4, <1>5 DEF Place, S

LEMMA DirectivesIff ==
  ASSUME NEW m, NEW place, NEW p
  PROVE  p \in DirectivesOf(m, place) <=>
           \E n \in Nodes(m) : \E k \in 1..Len(doc.body[m][n]) : p = Append(place, Step(m, n, k))
BY DEF DirectivesOf, Step

LEMMA DoneFacts ==
  ASSUME TypeOK, NEW f \in Frame, NEW p
  PROVE  p \in Done(f) <=>
           \E n \in Nodes(f.module) : \E k \in 1..Len(doc.body[f.module][n]) :
              /\ p = Append(f.place, Step(f.module, n, k))
              /\ n < f.node \/ (n = f.node /\ k < f.dir)
<1>1. f.module \in Modules /\ f.place \in Place
  BY DEF Frame
<1>2. ASSUME NEW n \in Nodes(f.module), NEW k \in 1..Len(doc.body[f.module][n]),
             p = Append(f.place, Step(f.module, n, k))
      PROVE  Before(p[Len(p)], f) <=> (n < f.node \/ (n = f.node /\ k < f.dir))
  <2>1. n \in Nat /\ k \in Nat
    BY <1>1, DirectivesFacts
  <2>2. p[Len(p)] = Step(f.module, n, k)
    BY <1>1, <1>2, <2>1, DirectivesFacts
  <2>. QED BY <2>2 DEF Before, Step
<1>3. p \in DirectivesOf(f.module, f.place) <=>
        \E n \in Nodes(f.module) : \E k \in 1..Len(doc.body[f.module][n]) :
           p = Append(f.place, Step(f.module, n, k))
  BY DirectivesIff
<1>. QED BY <1>2, <1>3 DEF Done

LEMMA DoneMoves ==
  ASSUME TypeOK, NEW f \in Frame, f.node >= 1, f.dir >= 1
  PROVE  /\ f.node = 1 /\ f.dir = 1 => Done(f) = {}
         /\ f.node \notin Nodes(f.module) => Done(f) = DirectivesOf(f.module, f.place)
         /\ InNode(f) => /\ Done(PastDirective(f)) = Done(f) \cup {PlaceOf(f)}
                         /\ PlaceOf(f) \notin Done(f)
         /\ ~InNode(f) /\ f.node \in Nodes(f.module) =>
              Done([f EXCEPT !.node = @ + 1, !.dir = 1]) = Done(f)
<1>1. f.module \in Modules /\ f.place \in Place /\ f.node \in Nat /\ f.dir \in Nat
  BY DEF Frame
<1>2. \A n \in Nodes(f.module) : n \in Nat /\ n >= 1 /\ Len(doc.body[f.module][n]) \in Nat
  BY <1>1, DirectivesFacts
<1>3. f.node = 1 /\ f.dir = 1 => Done(f) = {}
  <2> SUFFICES ASSUME f.node = 1, f.dir = 1, NEW p \in Done(f) PROVE FALSE
    OBVIOUS
  <2>. QED BY <1>2, DoneFacts
<1>4. f.node \notin Nodes(f.module) => Done(f) = DirectivesOf(f.module, f.place)
  <2> SUFFICES ASSUME f.node \notin Nodes(f.module), NEW p
               PROVE  p \in Done(f) <=> p \in DirectivesOf(f.module, f.place)
    BY DEF Done
  <2>1. Len(doc.body[f.module]) \in Nat
    BY <1>1, DocumentFacts
  <2>2. \A n \in Nodes(f.module) : n < f.node
    BY <1>1, <2>1 DEF Nodes
  <2>3. p \in DirectivesOf(f.module, f.place) <=>
          \E n \in Nodes(f.module) : \E k \in 1..Len(doc.body[f.module][n]) :
             p = Append(f.place, Step(f.module, n, k))
    BY DirectivesIff
  <2>4. p \in Done(f) <=>
          \E n \in Nodes(f.module) : \E k \in 1..Len(doc.body[f.module][n]) :
             /\ p = Append(f.place, Step(f.module, n, k))
             /\ n < f.node \/ (n = f.node /\ k < f.dir)
    BY DoneFacts
  <2>. QED BY <2>2, <2>3, <2>4
<1>5. ASSUME InNode(f)
      PROVE  /\ Done(PastDirective(f)) = Done(f) \cup {PlaceOf(f)}
             /\ PlaceOf(f) \notin Done(f)
  <2> DEFINE g == PastDirective(f)
  <2>1. /\ g \in Frame /\ g.module = f.module /\ g.place = f.place
        /\ g.node = f.node /\ g.dir = f.dir + 1
    BY <1>1, MoveFacts DEF PastDirective, Frame
  <2>2. f.node \in Nodes(f.module) /\ f.dir \in 1..Len(doc.body[f.module][f.node])
    BY <1>5 DEF InNode
  <2>3. PlaceOf(f) = Append(f.place, Step(f.module, f.node, f.dir))
    BY DEF PlaceOf, Step
  <2> HIDE DEF g
  <2>4. \A n \in Nat, k \in Nat :
          Append(f.place, Step(f.module, n, k)) = PlaceOf(f) => n = f.node /\ k = f.dir
    <3> SUFFICES ASSUME NEW n \in Nat, NEW k \in Nat,
                        Append(f.place, Step(f.module, n, k)) = PlaceOf(f)
                 PROVE  n = f.node /\ k = f.dir
      OBVIOUS
    <3>1. Step(f.module, n, k) = Step(f.module, f.node, f.dir)
      BY <1>1, <2>3, DirectivesFacts
    <3>. QED BY <3>1 DEF Step
  <2>5. PlaceOf(f) \notin Done(f)
    <3> SUFFICES ASSUME PlaceOf(f) \in Done(f) PROVE FALSE
      OBVIOUS
    <3>1. PICK n \in Nodes(f.module) : \E k \in 1..Len(doc.body[f.module][n]) :
              /\ PlaceOf(f) = Append(f.place, Step(f.module, n, k))
              /\ n < f.node \/ (n = f.node /\ k < f.dir)
      BY DoneFacts
    <3>2. PICK k \in 1..Len(doc.body[f.module][n]) :
              /\ PlaceOf(f) = Append(f.place, Step(f.module, n, k))
              /\ n < f.node \/ (n = f.node /\ k < f.dir)
      BY <3>1
    <3>3. n \in Nat /\ k \in Nat
      BY <1>2
    <3>4. n = f.node /\ k = f.dir
      BY <2>4, <3>2, <3>3
    <3>. QED BY <1>1, <3>2, <3>4
  <2>6. ASSUME NEW p PROVE p \in Done(g) <=> p \in Done(f) \cup {PlaceOf(f)}
    <3>1. p \in Done(g) <=>
           \E n \in Nodes(f.module) : \E k \in 1..Len(doc.body[f.module][n]) :
              /\ p = Append(f.place, Step(f.module, n, k))
              /\ n < f.node \/ (n = f.node /\ k < f.dir + 1)
      <4>1. p \in Done(g) <=>
             \E n \in Nodes(g.module) : \E k \in 1..Len(doc.body[g.module][n]) :
                /\ p = Append(g.place, Step(g.module, n, k))
                /\ n < g.node \/ (n = g.node /\ k < g.dir)
        BY <2>1, DoneFacts
      <4>. QED BY <2>1, <4>1 DEF Nodes
    <3>2. \A n \in Nodes(f.module) : \A k \in 1..Len(doc.body[f.module][n]) :
             n < f.node \/ (n = f.node /\ k < f.dir + 1) <=>
               (n < f.node \/ (n = f.node /\ k < f.dir)) \/ (n = f.node /\ k = f.dir)
      BY <1>1, <1>2
    <3>3. p = PlaceOf(f) <=>
           \E n \in Nodes(f.module) : \E k \in 1..Len(doc.body[f.module][n]) :
              p = Append(f.place, Step(f.module, n, k)) /\ n = f.node /\ k = f.dir
      BY <2>2, <2>3
    <3>4. p \in Done(f) <=>
           \E n \in Nodes(f.module) : \E k \in 1..Len(doc.body[f.module][n]) :
              /\ p = Append(f.place, Step(f.module, n, k))
              /\ n < f.node \/ (n = f.node /\ k < f.dir)
      BY DoneFacts
    <3>5. p \in Done(g) => p \in Done(f) \/ p = PlaceOf(f)
      BY <3>1, <3>2, <3>3, <3>4
    <3>6. p \in Done(f) \/ p = PlaceOf(f) => p \in Done(g)
      BY <3>1, <3>2, <3>3, <3>4
    <3>. QED BY <3>5, <3>6
  <2>7. Done(g) = Done(f) \cup {PlaceOf(f)}
    BY <2>6
  <2>. QED BY <2>5, <2>7 DEF g
<1>6. ASSUME ~InNode(f), f.node \in Nodes(f.module)
      PROVE  Done([f EXCEPT !.node = @ + 1, !.dir = 1]) = Done(f)
  <2> DEFINE g == [f EXCEPT !.node = @ + 1, !.dir = 1]
  <2>1. /\ g \in Frame /\ g.module = f.module /\ g.place = f.place
        /\ g.node = f.node + 1 /\ g.dir = 1
    BY <1>1, MoveFacts DEF Frame
  <2>2. \A k \in 1..Len(doc.body[f.module][f.node]) : k < f.dir
    BY <1>1, <1>2, <1>6 DEF InNode
  <2> HIDE DEF g
  <2>3. ASSUME NEW p PROVE p \in Done(g) <=> p \in Done(f)
    <3>1. \A n \in Nodes(f.module) : \A k \in 1..Len(doc.body[f.module][n]) :
             n < f.node + 1 \/ (n = f.node + 1 /\ k < 1) <=>
             n < f.node \/ (n = f.node /\ k < f.dir)
      BY <1>1, <1>2, <2>2
    <3>2. p \in Done(g) <=>
           \E n \in Nodes(f.module) : \E k \in 1..Len(doc.body[f.module][n]) :
              /\ p = Append(f.place, Step(f.module, n, k))
              /\ n < f.node + 1 \/ (n = f.node + 1 /\ k < 1)
      <4>1. p \in Done(g) <=>
             \E n \in Nodes(g.module) : \E k \in 1..Len(doc.body[g.module][n]) :
                /\ p = Append(g.place, Step(g.module, n, k))
                /\ n < g.node \/ (n = g.node /\ k < g.dir)
        BY <2>1, DoneFacts
      <4>. QED BY <2>1, <4>1 DEF Nodes
    <3>3. p \in Done(f) <=>
           \E n \in Nodes(f.module) : \E k \in 1..Len(doc.body[f.module][n]) :
              /\ p = Append(f.place, Step(f.module, n, k))
              /\ n < f.node \/ (n = f.node /\ k < f.dir)
      BY DoneFacts
    <3>. QED BY <3>1, <3>2, <3>3
  <2>4. Done(g) = Done(f)
    BY <2>3 DEF Done
  <2>. QED BY <2>4 DEF g
<1>. QED BY <1>3, <1>4, <1>5, <1>6
-------------------------------------------------------------------------------
(* AllSpliced of a stack, copies and libraries, under the documents as     *)
(* they are: what a step has to establish.                                 *)
AllSplicedFor(st, cs, libs) ==
  /\ \A c \in cs : \A p \in DirectivesOf(c.module, c.place) : \E d \in cs : d.place = p
  /\ \A k \in 1..Len(st) : \A p \in Done(st[k]) : \E d \in cs : d.place = p
  /\ \A c \in cs : \/ \E d \in cs : c.place \in DirectivesOf(d.module, d.place)
                   \/ \E k \in 1..Len(st) : c.place \in Done(st[k])
  /\ IsFiniteSet(Done(st[1])) /\ Len(libs) = Cardinality(Done(st[1]))

LEMMA AllSplicedIs ==
  /\ AllSpliced <=> AllSplicedFor(stack, copies, libraries)
  /\ doc' = doc => (AllSpliced' <=> AllSplicedFor(stack', copies', libraries'))
<1>1. AllSpliced <=> AllSplicedFor(stack, copies, libraries)
  BY DEF AllSpliced, AllSplicedFor, Places
<1>2. ASSUME doc' = doc PROVE AllSpliced' <=> AllSplicedFor(stack', copies', libraries')
  <2>1. \A m, p : DirectivesOf(m, p)' = DirectivesOf(m, p)
    BY <1>2 DEF DirectivesOf, Nodes
  <2>2. \A f : Done(f)' = Done(f)
    BY <2>1 DEF Done, Before
  <2>. QED BY <2>1, <2>2 DEF AllSpliced, AllSplicedFor, Places
<1>. QED BY <1>1, <1>2

LEMMA FreshDone ==
  ASSUME TypeOK, NEW f \in Frame, f.node = 1, f.dir = 1 PROVE Done(f) = {}
<1>1. 1 >= 1
  OBVIOUS
<1>2. f.node >= 1 /\ f.dir >= 1
  BY <1>1
<1>. QED BY <1>2, DoneMoves

LEMMA DescendSplices ==
  ASSUME ResolverInv, Linked, AllSpliced, Descend PROVE AllSpliced'
<1> DEFINE n == Len(stack)
<1>1. /\ n \in Nat \ {0} /\ Len(stack') = n + 1 /\ \A k \in 1..n : stack'[k] = stack[k]
      /\ stack'[n + 1].node = 1 /\ stack'[n + 1].dir = 1
      /\ doc' = doc /\ copies' = copies /\ libraries' = libraries
  BY StackFacts, DescendShape
<1>2. stack'[n + 1] \in Frame
  <2>1. ResolverInv'
    BY NextInv DEF Next
  <2>2. stack' \in Seq(Frame)
    BY <2>1 DEF ResolverInv, TypeOK
  <2>. QED BY <1>1, <2>2
<1>3. Done(stack'[n + 1]) = {}
  BY <1>1, <1>2, FreshDone DEF ResolverInv
<1>4. \A k \in 1..(n + 1) : k = n + 1 \/ k \in 1..n
  BY <1>1
<1>5. stack'[1] = stack[1] /\ \A k \in 1..n : k \in 1..(n + 1)
  BY <1>1
<1>6. AllSplicedFor(stack, copies, libraries)
  BY AllSplicedIs
<1>7. AllSplicedFor(stack', copies, libraries)
  <2>1. \A k \in 1..Len(stack') : \A p \in Done(stack'[k]) : \E d \in copies : d.place = p
    BY <1>1, <1>3, <1>4, <1>6 DEF AllSplicedFor
  <2>2. \A c \in copies : \/ \E d \in copies : c.place \in DirectivesOf(d.module, d.place)
                          \/ \E k \in 1..Len(stack') : c.place \in Done(stack'[k])
    BY <1>1, <1>5, <1>6 DEF AllSplicedFor
  <2>. QED BY <1>5, <1>6, <2>1, <2>2 DEF AllSplicedFor
<1>. QED BY <1>1, <1>7, AllSplicedIs

LEMMA NextNodeSplices ==
  ASSUME ResolverInv, Linked, AllSpliced, NextNode PROVE AllSpliced'
<1> DEFINE n == Len(stack)
           f == [Top EXCEPT !.node = @ + 1, !.dir = 1]
<1>1. /\ n \in Nat \ {0} /\ n \in 1..n /\ Top = stack[n] /\ Top \in Frame
      /\ Top.node >= 1 /\ Top.dir >= 1
  BY StackFacts DEF Linked
<1>2. Done(f) = Done(Top)
  BY <1>1, DoneMoves DEF NextNode, ResolverInv
<1>3. f \in Frame /\ f.module = Top.module /\ (f.failed \/ ~Top.failed)
  BY <1>1, MoveFacts DEF Frame
<1>4. stack' = ReplaceTop(f) /\ doc' = doc /\ copies' = copies /\ libraries' = libraries
  BY DEF NextNode
<1> HIDE DEF f
<1>5. /\ Len(stack') = n /\ stack'[n] = f
      /\ \A k \in 1..n : k # n => stack'[k] = stack[k]
  BY <1>3, <1>4, ReplaceFacts
<1>6. \A k \in 1..n : Done(stack'[k]) = Done(stack[k])
  BY <1>1, <1>2, <1>5
<1>7. 1 \in 1..n
  BY <1>1
<1>8. AllSplicedFor(stack, copies, libraries)
  BY AllSplicedIs
<1>9. AllSplicedFor(stack', copies, libraries)
  BY <1>5, <1>6, <1>7, <1>8 DEF AllSplicedFor
<1>. QED BY <1>4, <1>9, AllSplicedIs

(* A splice, as far as the places go.                                      *)
LEMMA SpliceDone ==
  ASSUME ResolverInv, Linked, Splice
  PROVE  LET n == Len(stack)
         IN /\ n \in Nat /\ n > 1 /\ Len(stack') = n - 1
            /\ \A k \in 1..(n - 2) : stack'[k] = stack[k]
            /\ \A k \in 1..(n - 1) : k = n - 1 \/ k \in 1..(n - 2)
            /\ \A k \in 1..n : k = n \/ k = n - 1 \/ k \in 1..(n - 2)
            /\ n \in 1..n /\ n - 1 \in 1..n /\ n - 1 \in 1..(n - 1)
            /\ \A k \in 1..(n - 2) : k \in 1..n /\ k \in 1..(n - 1)
            /\ stack'[n - 1] = PastDirective(Below)
            /\ Top = stack[n] /\ Below = stack[n - 1]
            /\ Done(Top) = DirectivesOf(Top.module, Top.place)
            /\ Done(stack'[n - 1]) = Done(Below) \cup {Top.place}
            /\ Top.place \notin Done(Below)
            /\ doc' = doc
<1> DEFINE n == Len(stack)
<1>1. /\ n \in Nat /\ n > 1 /\ Len(stack') = n - 1
      /\ \A k \in 1..(n - 2) : stack'[k] = stack[k]
      /\ stack'[n - 1] = PastDirective(Below)
      /\ Top = stack[n] /\ Below = stack[n - 1]
      /\ Top.node \notin Nodes(Top.module) /\ doc' = doc
  BY StackFacts, ReturnShape
<1>2. /\ \A k \in 1..(n - 1) : k = n - 1 \/ k \in 1..(n - 2)
      /\ \A k \in 1..n : k = n \/ k = n - 1 \/ k \in 1..(n - 2)
      /\ n \in 1..n /\ n - 1 \in 1..n /\ n - 1 \in 1..(n - 1)
      /\ \A k \in 1..(n - 2) : k \in 1..n /\ k \in 1..(n - 1)
  BY <1>1
<1>3. /\ Top \in Frame /\ Top.node >= 1 /\ Top.dir >= 1
      /\ Below \in Frame /\ Below.node >= 1 /\ Below.dir >= 1
  BY <1>1, <1>2, StackFacts DEF Linked
<1>4. TypeOK
  BY DEF ResolverInv
<1>5. Done(Top) = DirectivesOf(Top.module, Top.place)
  BY <1>1, <1>3, <1>4, DoneMoves
<1>6. Top.place = PlaceOf(Below) /\ InNode(Below)
  BY <1>1, TopPlace
<1>7. /\ Done(PastDirective(Below)) = Done(Below) \cup {Top.place}
      /\ Top.place \notin Done(Below)
  BY <1>3, <1>4, <1>6, DoneMoves
<1>. QED BY <1>1, <1>2, <1>5, <1>7

LEMMA SpliceSplices ==
  ASSUME ResolverInv, Linked, AllSpliced, Splice PROVE AllSpliced'
<1> DEFINE n == Len(stack)
<1>1. AllSplicedFor(stack, copies, libraries)
  BY AllSplicedIs
<1>2. /\ \A c \in copies' : \/ c.module = Top.module /\ c.place = Top.place
                            \/ \E b \in copies : c.module = b.module /\ c.place = b.place
      /\ \A b \in copies : \E c \in copies' : c.module = b.module /\ c.place = b.place
      /\ \E c \in copies' : c.module = Top.module /\ c.place = Top.place
  BY SpliceCopies DEF Spliced
<1>3. \A p \in Done(Top) : \E d \in copies : d.place = p
  BY <1>1, SpliceDone DEF AllSplicedFor
<1>4. \A c \in copies' : \A p \in DirectivesOf(c.module, c.place) : \E d \in copies' : d.place = p
  <2> SUFFICES ASSUME NEW c \in copies', NEW p \in DirectivesOf(c.module, c.place)
               PROVE  \E d \in copies' : d.place = p
    OBVIOUS
  <2>1. \E d \in copies : d.place = p
    <3>1. CASE c.module = Top.module /\ c.place = Top.place
      BY <1>3, <3>1, SpliceDone
    <3>2. CASE \E b \in copies : c.module = b.module /\ c.place = b.place
      BY <1>1, <3>2 DEF AllSplicedFor
    <3>. QED BY <1>2, <3>1, <3>2
  <2>. QED BY <1>2, <2>1
<1>5. \A k \in 1..(n - 1) : \A p \in Done(stack'[k]) : \E d \in copies' : d.place = p
  <2> SUFFICES ASSUME NEW k \in 1..(n - 1), NEW p \in Done(stack'[k])
               PROVE  \E d \in copies' : d.place = p
    OBVIOUS
  <2>1. CASE p = Top.place
    BY <1>2, <2>1
  <2>2. CASE p # Top.place
    <3>1. \E j \in 1..n : p \in Done(stack[j])
      <4>1. CASE k = n - 1
        BY <2>2, <4>1, SpliceDone
      <4>2. CASE k \in 1..(n - 2)
        BY <4>2, SpliceDone
      <4>. QED BY <4>1, <4>2, SpliceDone
    <3>2. PICK d \in copies : d.place = p
      BY <1>1, <3>1 DEF AllSplicedFor
    <3>. QED BY <1>2, <3>2
  <2>. QED BY <2>1, <2>2
<1>6. ASSUME NEW c \in copies'
      PROVE  \/ \E d \in copies' : c.place \in DirectivesOf(d.module, d.place)
             \/ \E k \in 1..(n - 1) : c.place \in Done(stack'[k])
  <2>1. CASE c.place = Top.place
    BY <2>1, SpliceDone
  <2>2. CASE \E b \in copies : c.module = b.module /\ c.place = b.place
    <3>1. \/ \E d \in copies : c.place \in DirectivesOf(d.module, d.place)
          \/ \E k \in 1..n : c.place \in Done(stack[k])
      BY <1>1, <2>2 DEF AllSplicedFor
    <3>2. CASE \E d \in copies : c.place \in DirectivesOf(d.module, d.place)
      BY <1>2, <3>2
    <3>3. CASE c.place \in Done(Top)
      <4>1. c.place \in DirectivesOf(Top.module, Top.place)
        BY <3>3, SpliceDone
      <4>2. PICK d \in copies' : d.module = Top.module /\ d.place = Top.place
        BY <1>2
      <4>. QED BY <4>1, <4>2
    <3>4. CASE \E k \in 1..n : k # n /\ c.place \in Done(stack[k])
      <4>1. PICK k \in 1..n : k # n /\ c.place \in Done(stack[k])
        BY <3>4
      <4>2. CASE k = n - 1
        BY <4>1, <4>2, SpliceDone
      <4>3. CASE k \in 1..(n - 2)
        BY <4>1, <4>3, SpliceDone
      <4>. QED BY <4>1, <4>2, <4>3, SpliceDone
    <3>. QED BY <3>1, <3>2, <3>3, <3>4, SpliceDone
  <2>. QED BY <1>2, <2>1, <2>2
<1>7. IsFiniteSet(Done(stack'[1])) /\ Len(libraries') = Cardinality(Done(stack'[1]))
  <2>1. IsFiniteSet(Done(stack[1])) /\ Len(libraries) = Cardinality(Done(stack[1]))
    BY <1>1 DEF AllSplicedFor
  <2>2. CASE n = 2
    <3>1. Done(stack'[1]) = Done(stack[1]) \cup {Top.place} /\ Top.place \notin Done(stack[1])
      <4>1. n - 1 = 1
        BY <2>2
      <4>. QED BY <4>1, SpliceDone
    <3>2. libraries' = Append(libraries, Top.module) /\ libraries \in Seq(Modules)
          /\ Top.module \in Modules
      <4>1. n \in 1..n /\ Top = stack[n]
        BY SpliceDone
      <4>. QED BY <2>2, <4>1, StackFacts DEF Splice, ResolverInv, TypeOK
    <3>3. Len(libraries') = Len(libraries) + 1
      BY <3>2
    <3>. QED BY <2>1, <3>1, <3>3, FS_AddElement
  <2>3. CASE n # 2
    <3>1. 1 \in 1..(n - 2) /\ libraries' = libraries
      BY <2>3, SpliceDone DEF Splice
    <3>. QED BY <2>1, <3>1, SpliceDone
  <2>. QED BY <2>2, <2>3
<1>8. AllSplicedFor(stack', copies', libraries')
  BY <1>4, <1>5, <1>6, <1>7, SpliceDone DEF AllSplicedFor
<1>. QED BY <1>8, SpliceDone, AllSplicedIs

(* A step that leaves no error is none of the others.                      *)
LEMMA NoErrorYet ==
  ASSUME ResolverInv, [Next]_vars, errors' = {}
  PROVE  /\ errors = {}
         /\ \/ Descend \/ Splice \/ NextNode
            \/ UNCHANGED <<doc, stack, visited, errors, copies, libraries>>
<1>1. ~\E code \in Codes : FailHere(code)
  BY DEF FailHere
<1>2. ASSUME GiveUp PROVE FALSE
  <2>1. Top.failed = TRUE
    BY <1>2, StackFacts DEF GiveUp
  <2>2. Failing
    BY <2>1, StackFacts DEF Failing
  <2>. QED BY <1>2, <2>2 DEF GiveUp, ResolverInv
<1>. QED BY <1>1, <1>2, StepCases DEF Descend, Splice, NextNode

LEMMA AllSplicedStep ==
  ASSUME ResolverInv, Linked, AllSpliced, [Next]_vars, errors' = {} PROVE AllSpliced'
<1>1. CASE UNCHANGED <<doc, stack, visited, errors, copies, libraries>>
  BY <1>1, AllSplicedIs
<1>. QED BY <1>1, NoErrorYet, DescendSplices, NextNodeSplices, SpliceSplices

LEMMA AllSplicedInit == Init => AllSpliced
<1> SUFFICES ASSUME Init PROVE AllSplicedFor(stack, copies, libraries)
  BY AllSplicedIs
<1>1. /\ Len(stack) = 1 /\ stack[1] \in Frame /\ stack[1].node = 1 /\ stack[1].dir = 1
      /\ copies = {} /\ libraries = <<>>
  <2>1. /\ Len(stack) = 1 /\ stack[1].node = 1 /\ stack[1].dir = 1
        /\ copies = {} /\ libraries = <<>>
    BY DEF Init
  <2>2. stack[1] \in Frame
    BY <2>1, InitInv, StackFacts
  <2>. QED BY <2>1, <2>2
<1>2. Done(stack[1]) = {}
  <2>1. TypeOK
    BY InitInv DEF ResolverInv
  <2>. QED BY <1>1, <2>1, FreshDone
<1>3. \A k \in 1..Len(stack) : k = 1
  BY <1>1
<1>4. IsFiniteSet({}) /\ Cardinality({}) = 0 /\ Len(<<>>) = 0
  BY FS_EmptySet
<1>. QED BY <1>1, <1>2, <1>3, <1>4 DEF AllSplicedFor

(* The walk ends at the end of the root.                                   *)
Ended == result # "running" => Len(stack) = 1 /\ Top.node \notin Nodes(Top.module)

LEMMA EndedStep == ASSUME Ended, [Next]_vars PROVE Ended'
<1>1. CASE result' = "running"
  BY <1>1 DEF Ended
<1>2. CASE result' # "running"
  <2>1. Finish \/ UNCHANGED vars
    BY <1>2 DEF Next, vars, RejectUnresolvable, RejectSeen, RejectBroken, FailHere, AtDirective,
       Descend, NextNode, Splice, GiveUp, FrameDone
  <2>. QED BY <2>1 DEF Ended, Finish, FrameDone, vars, Top, Nodes
<1>. QED BY <1>1, <1>2

LEMMA OkFromInvariant ==
  ASSUME ResolverInv, Linked, Ended, errors = {} => AllSpliced PROVE OkIsComplete
<1> SUFFICES ASSUME result = "ok"
             PROVE  /\ errors = {}
                    /\ {c.place : c \in copies} =
                         UNION ({DirectivesOf(c.module, c.place) : c \in copies}
                                \cup {DirectivesOf(Root, <<>>)})
                    /\ Len(libraries) = Cardinality(DirectivesOf(Root, <<>>))
  BY DEF OkIsComplete
<1>1. errors = {} /\ AllSplicedFor(stack, copies, libraries)
  BY AllSplicedIs DEF ResolverInv
<1>2. Len(stack) = 1 /\ Top = stack[1] /\ Top.node \notin Nodes(Top.module)
  BY StackFacts DEF Ended
<1>3. /\ Top \in Frame /\ Top.node >= 1 /\ Top.dir >= 1 /\ Top.module = Root
      /\ Len(Top.place) = 0 /\ Top.place \in Place
  BY <1>2, StackFacts DEF Linked
<1>4. Top.place = <<>>
  BY <1>3 DEF Place
<1>5. Done(stack[1]) = DirectivesOf(Root, <<>>)
  BY <1>2, <1>3, <1>4, DoneMoves DEF ResolverInv
<1>6. /\ \A c \in copies : \A p \in DirectivesOf(c.module, c.place) : \E d \in copies : d.place = p
      /\ \A p \in DirectivesOf(Root, <<>>) : \E d \in copies : d.place = p
      /\ \A c \in copies : \/ \E d \in copies : c.place \in DirectivesOf(d.module, d.place)
                           \/ c.place \in DirectivesOf(Root, <<>>)
      /\ Len(libraries) = Cardinality(DirectivesOf(Root, <<>>))
  <2>1. \A k \in 1..Len(stack) : k = 1
    BY <1>2
  <2>2. 1 \in 1..Len(stack)
    BY <1>2
  <2>. QED BY <1>1, <1>5, <2>1, <2>2 DEF AllSplicedFor
<1>7. ASSUME NEW p
      PROVE  p \in {c.place : c \in copies} <=>
               p \in UNION ({DirectivesOf(c.module, c.place) : c \in copies}
                            \cup {DirectivesOf(Root, <<>>)})
  <2>1. p \in {c.place : c \in copies} <=> \E d \in copies : d.place = p
    OBVIOUS
  <2>2. p \in UNION ({DirectivesOf(c.module, c.place) : c \in copies}
                     \cup {DirectivesOf(Root, <<>>)})
          <=> \/ \E c \in copies : p \in DirectivesOf(c.module, c.place)
              \/ p \in DirectivesOf(Root, <<>>)
    OBVIOUS
  <2>3. (\E d \in copies : d.place = p) =>
          \/ \E c \in copies : p \in DirectivesOf(c.module, c.place)
          \/ p \in DirectivesOf(Root, <<>>)
    BY <1>6
  <2>4. (\E c \in copies : p \in DirectivesOf(c.module, c.place))
        \/ p \in DirectivesOf(Root, <<>>) => \E d \in copies : d.place = p
    BY <1>6
  <2>. QED BY <2>1, <2>2, <2>3, <2>4
<1>8. {c.place : c \in copies} =
        UNION ({DirectivesOf(c.module, c.place) : c \in copies} \cup {DirectivesOf(Root, <<>>)})
  BY <1>7
<1>. QED BY <1>1, <1>6, <1>8
-------------------------------------------------------------------------------
LEMMA StepFacts ==
  ASSUME TypeOK, NEW c \in copies
  PROVE  /\ Len(c.place) \in Nat /\ c.place \in Place /\ c.module \in Modules
         /\ \A j \in 1..Len(c.place) : c.place[j].node \in Nat /\ c.place[j].dir \in Nat
<1>1. c.place \in Place /\ c.module \in Modules
  BY DEF TypeOK, Copy
<1> DEFINE S == [module : Modules, node : Nat, dir : Nat]
<1>2. c.place \in Seq(S) /\ \A s \in S : s.node \in Nat /\ s.dir \in Nat
  BY <1>1 DEF Place
<1> HIDE DEF S
<1>3. Len(c.place) \in Nat /\ \A j \in 1..Len(c.place) : c.place[j] \in S
  BY <1>2
<1>. QED BY <1>1, <1>2, <1>3

(* A frame that is past a directive is past it for ever.                   *)
LEMMA BeforeFacts ==
  ASSUME NEW f \in Frame
  PROVE  /\ ~Before(StepOf(f), f)
         /\ Before(StepOf(f), PastDirective(f))
<1>1. f.node \in Nat /\ f.dir \in Nat
  BY DEF Frame
<1>2. PastDirective(f).node = f.node /\ PastDirective(f).dir = f.dir + 1
  BY DEF PastDirective, Frame
<1>. QED BY <1>1, <1>2 DEF Before, StepOf

OnPath(st, c, k) == \A i \in 1..k : c.place[i] = StepOf(st[i])
SettledFor(st, cs) ==
  \A c \in cs : \A j \in 1..Len(st) :
    j <= Len(c.place) /\ OnPath(st, c, j - 1) =>
      \/ Before(c.place[j], st[j])
      \/ j < Len(st) /\ j < Len(c.place) /\ c.place[j] = StepOf(st[j])

LEMMA SettledIs ==
  (Settled <=> SettledFor(stack, copies)) /\ (Settled' <=> SettledFor(stack', copies'))
BY DEF Settled, SettledFor, OnPath, Before, StepOf

LEMMA DescendSettles ==
  ASSUME ResolverInv, Linked, Settled, Descend PROVE SettledFor(stack', copies')
<1> DEFINE n == Len(stack)
<1>1. /\ n \in Nat \ {0} /\ Len(stack') = n + 1 /\ \A k \in 1..n : stack'[k] = stack[k]
      /\ copies' = copies /\ n \in 1..n
  BY StackFacts, DescendShape
<1> SUFFICES ASSUME NEW c \in copies, NEW j \in 1..(n + 1),
                    j <= Len(c.place), OnPath(stack', c, j - 1)
             PROVE  \/ Before(c.place[j], stack'[j])
                    \/ j < n + 1 /\ j < Len(c.place) /\ c.place[j] = StepOf(stack'[j])
  BY <1>1 DEF SettledFor
<1>2. SettledFor(stack, copies) /\ Len(c.place) \in Nat
  BY SettledIs, StepFacts DEF ResolverInv
<1>3. CASE j \in 1..n
  <2>1. OnPath(stack, c, j - 1)
    <3>1. \A i \in 1..(j - 1) : i \in 1..n
      BY <1>1, <1>3
    <3>. QED BY <1>1, <3>1 DEF OnPath
  <2>2. j < n => j < n + 1
    BY <1>1, <1>3
  <2>. QED BY <1>1, <1>2, <1>3, <2>1, <2>2 DEF SettledFor
<1>4. CASE j = n + 1
  <2>1. \A i \in 1..n : c.place[i] = StepOf(stack[i])
    BY <1>1, <1>4 DEF OnPath
  <2>2. n <= Len(c.place) /\ OnPath(stack, c, n - 1) /\ c.place[n] = StepOf(stack[n])
    BY <1>1, <1>2, <1>4, <2>1 DEF OnPath
  <2>3. Before(c.place[n], stack[n])
    BY <1>1, <1>2, <2>2 DEF SettledFor
  <2>. QED BY <1>1, <2>2, <2>3, BeforeFacts, StackFacts
<1>. QED BY <1>1, <1>3, <1>4

LEMMA NextNodeSettles ==
  ASSUME ResolverInv, Linked, Settled, NextNode PROVE SettledFor(stack', copies')
<1> DEFINE n == Len(stack)
<1>1. /\ n \in Nat \ {0} /\ Len(stack') = n /\ \A k \in 1..(n - 1) : stack'[k] = stack[k]
      /\ MovedOn(stack[n], stack'[n]) /\ copies' = copies /\ n \in 1..n
      /\ \A k \in 1..n : k = n \/ k \in 1..(n - 1)
  BY StackFacts, AdvanceShape
<1> SUFFICES ASSUME NEW c \in copies, NEW j \in 1..n,
                    j <= Len(c.place), OnPath(stack', c, j - 1)
             PROVE  \/ Before(c.place[j], stack'[j])
                    \/ j < n /\ j < Len(c.place) /\ c.place[j] = StepOf(stack'[j])
  BY <1>1 DEF SettledFor
<1>2. SettledFor(stack, copies) /\ Len(c.place) \in Nat
  BY SettledIs, StepFacts DEF ResolverInv
<1>3. OnPath(stack, c, j - 1)
  <2>1. \A i \in 1..(j - 1) : i \in 1..(n - 1)
    BY <1>1
  <2>. QED BY <1>1, <2>1 DEF OnPath
<1>4. \/ Before(c.place[j], stack[j])
      \/ j < n /\ j < Len(c.place) /\ c.place[j] = StepOf(stack[j])
  BY <1>2, <1>3 DEF SettledFor
<1>5. j \in 1..Len(c.place)
  BY <1>2
<1>6. c.place[j].node \in Nat /\ c.place[j].dir \in Nat
  BY <1>5, StepFacts DEF ResolverInv
<1>7. CASE j = n
  BY <1>1, <1>4, <1>6, <1>7 DEF MovedOn
<1>8. CASE j \in 1..(n - 1)
  BY <1>1, <1>4, <1>8
<1>. QED BY <1>1, <1>7, <1>8

(* A copy is inside the module that returns if its place leads to it.      *)
Inside(c) == Len(stack) - 1 <= Len(c.place) /\ OnPath(stack, c, Len(stack) - 1)

LEMMA SpliceSettles ==
  ASSUME ResolverInv, Linked, Settled, Splice PROVE SettledFor(stack', copies')
<1> DEFINE n == Len(stack)
<1>1. /\ n \in Nat /\ n > 1 /\ Len(stack') = n - 1 /\ \A k \in 1..(n - 2) : stack'[k] = stack[k]
      /\ stack'[n - 1] = PastDirective(Below) /\ Below = stack[n - 1] /\ Below \in Frame
      /\ \A k \in 1..(n - 1) : k = n - 1 \/ k \in 1..(n - 2)
      /\ n - 1 \in 1..n
  BY SpliceDone, TopFacts
<1>2. /\ Before(StepOf(Below), stack'[n - 1])
      /\ MovedOn(Below, stack'[n - 1])
  BY <1>1, BeforeFacts, ReturnShape
<1> SUFFICES ASSUME NEW c \in copies', NEW j \in 1..(n - 1),
                    j <= Len(c.place), OnPath(stack', c, j - 1)
             PROVE  \/ Before(c.place[j], stack'[j])
                    \/ j < n - 1 /\ j < Len(c.place) /\ c.place[j] = StepOf(stack'[j])
  BY <1>1 DEF SettledFor
<1>3. CASE c = Spliced
  <2>1. c.place = Top.place
    BY <1>3 DEF Spliced
  <2>2. Len(c.place) = n - 1 /\ \A i \in 1..(n - 1) : c.place[i] = StepOf(stack[i])
    BY <1>1, <2>1, TopPlace
  <2>3. CASE j = n - 1
    BY <1>1, <1>2, <2>2, <2>3
  <2>4. CASE j \in 1..(n - 2)
    <3>1. j < n - 1 /\ stack'[j] = stack[j]
      BY <1>1, <2>4
    <3>. QED BY <2>2, <3>1
  <2>. QED BY <1>1, <2>3, <2>4
<1>4. CASE \E b \in copies : c.module = b.module /\ c.place = b.place
  <2>1. PICK b \in copies : c.module = b.module /\ c.place = b.place
    BY <1>4
  <2>2. SettledFor(stack, copies) /\ Len(c.place) \in Nat
    BY <2>1, SettledIs, StepFacts DEF ResolverInv
  <2>3. OnPath(stack, b, j - 1)
    <3>1. \A i \in 1..(j - 1) : i \in 1..(n - 2)
      BY <1>1
    <3>. QED BY <1>1, <2>1, <3>1 DEF OnPath
  <2>4. \/ Before(c.place[j], stack[j])
        \/ j < n /\ j < Len(c.place) /\ c.place[j] = StepOf(stack[j])
    <3>1. j \in 1..n
      BY <1>1
    <3>. QED BY <2>1, <2>2, <2>3, <3>1 DEF SettledFor
  <2>5. c.place[j].node \in Nat /\ c.place[j].dir \in Nat
    <3>1. j \in 1..Len(c.place)
      BY <2>2
    <3>. QED BY <2>1, <3>1, StepFacts DEF ResolverInv
  <2>6. CASE j = n - 1
    BY <1>1, <1>2, <2>4, <2>5, <2>6 DEF MovedOn
  <2>7. CASE j \in 1..(n - 2)
    <3>1. j < n - 1 /\ stack'[j] = stack[j]
      BY <1>1, <2>7
    <3>. QED BY <2>4, <3>1
  <2>. QED BY <1>1, <2>6, <2>7
<1>. QED BY <1>3, <1>4, SpliceCopies

LEMMA SettledStep ==
  ASSUME ResolverInv, Linked, Settled, [Next]_vars, errors' = {} PROVE Settled'
<1>1. CASE UNCHANGED <<doc, stack, visited, errors, copies, libraries>>
  BY <1>1, SettledIs
<1>. QED BY <1>1, NoErrorYet, DescendSettles, NextNodeSettles, SpliceSettles, SettledIs
-------------------------------------------------------------------------------
(* The tags of a set of copies under a stack.                              *)
KeptUnder(st, c, x) ==
  \A k \in 1..Len(c.place) : (k < Len(st) /\ OnPath(st, c, k)) \/ StepKeeps(c, x, k)
TagsFor(st, cs) ==
  \A c \in cs : \A x \in Nodes(c.module) : x \notin c.prunable <=> KeptUnder(st, c, x)

LEMMA TagsIs ==
  /\ TagsExact <=> TagsFor(stack, copies)
  /\ doc' = doc => (TagsExact' <=> TagsFor(stack', copies'))
<1>1. TagsExact <=> TagsFor(stack, copies)
  BY DEF TagsExact, TagsFor, KeptSoFar, KeptUnder, Open, OnPath
<1>2. ASSUME doc' = doc PROVE TagsExact' <=> TagsFor(stack', copies')
  <2>1. \A c, k : Open(c, k)' <=> (k < Len(stack') /\ OnPath(stack', c, k))
    BY DEF Open, OnPath, StepOf
  <2>2. \A d, m : Kept(d, m)' = Kept(d, m)
    BY <1>2 DEF Kept, Nodes
  <2>3. \A c, x, k : StepKeeps(c, x, k)' <=> StepKeeps(c, x, k)
    BY <1>2, <2>2 DEF StepKeeps, DirOf
  <2>4. \A c, x : KeptSoFar(c, x)' <=> KeptUnder(stack', c, x)
    BY <2>1, <2>3 DEF KeptSoFar, KeptUnder
  <2>5. \A m : Nodes(m)' = Nodes(m)
    BY <1>2 DEF Nodes
  <2>. QED BY <2>4, <2>5 DEF TagsExact, TagsFor
<1>. QED BY <1>1, <1>2

LEMMA DescendTags ==
  ASSUME ResolverInv, Linked, Settled, TagsExact, Descend PROVE TagsExact'
<1> DEFINE n == Len(stack)
<1>1. /\ n \in Nat \ {0} /\ Len(stack') = n + 1 /\ \A k \in 1..n : stack'[k] = stack[k]
      /\ copies' = copies /\ n \in 1..n /\ doc' = doc
  BY StackFacts, DescendShape
<1>2. ASSUME NEW c \in copies, NEW k \in 1..Len(c.place)
      PROVE  (k < n + 1 /\ OnPath(stack', c, k)) <=> (k < n /\ OnPath(stack, c, k))
  <2>1. SettledFor(stack, copies) /\ Len(c.place) \in Nat
    BY SettledIs, StepFacts DEF ResolverInv
  <2>2. k <= n => (OnPath(stack', c, k) <=> OnPath(stack, c, k))
    <3> SUFFICES ASSUME k <= n PROVE \A i \in 1..k : i \in 1..n
      BY <1>1 DEF OnPath
    <3>. QED BY <1>1
  <2>3. ~(k = n /\ OnPath(stack, c, k))
    <3> SUFFICES ASSUME k = n, OnPath(stack, c, n) PROVE FALSE
      OBVIOUS
    <3>1. n <= Len(c.place) /\ OnPath(stack, c, n - 1) /\ c.place[n] = StepOf(stack[n])
      BY <1>1, <2>1 DEF OnPath
    <3>2. Before(c.place[n], stack[n])
      BY <1>1, <2>1, <3>1 DEF SettledFor
    <3>. QED BY <1>1, <3>1, <3>2, BeforeFacts, StackFacts
  <2>4. (k < n + 1 <=> k <= n) /\ (k <= n <=> k < n \/ k = n)
    BY <1>1, <2>1
  <2>. QED BY <2>2, <2>3, <2>4
<1>3. \A c \in copies : \A x : KeptUnder(stack', c, x) <=> KeptUnder(stack, c, x)
  BY <1>1, <1>2 DEF KeptUnder
<1>. QED BY <1>1, <1>3, TagsIs DEF TagsFor

LEMMA NextNodeTags ==
  ASSUME ResolverInv, Linked, TagsExact, NextNode PROVE TagsExact'
<1> DEFINE n == Len(stack)
<1>1. /\ n \in Nat \ {0} /\ Len(stack') = n /\ \A k \in 1..(n - 1) : stack'[k] = stack[k]
      /\ copies' = copies /\ doc' = doc
  BY StackFacts, AdvanceShape
<1>2. ASSUME NEW c \in copies, NEW k \in 1..Len(c.place)
      PROVE  (k < n /\ OnPath(stack', c, k)) <=> (k < n /\ OnPath(stack, c, k))
  <2>1. k < n => \A i \in 1..k : i \in 1..(n - 1)
    BY <1>1, StepFacts DEF ResolverInv
  <2>. QED BY <1>1, <2>1 DEF OnPath
<1>3. \A c \in copies : \A x : KeptUnder(stack', c, x) <=> KeptUnder(stack, c, x)
  BY <1>1, <1>2 DEF KeptUnder
<1>. QED BY <1>1, <1>3, TagsIs DEF TagsFor

LEMMA Prefix ==
  ASSUME NEW S, NEW s \in Seq(S), NEW k \in 0..Len(s)
  PROVE  /\ SubSeq(s, 1, k) \in Seq(S) /\ Len(SubSeq(s, 1, k)) = k
         /\ \A i \in 1..k : SubSeq(s, 1, k)[i] = s[i]
OBVIOUS

(* While there is no error, the copies that a splice tags are those inside *)
(* the module that returns.                                                *)
LEMMA WithinIs ==
  ASSUME ResolverInv, Linked, Settled, Len(stack) > 1, NEW c \in copies
  PROVE  /\ Within(c.place, Top.place) <=> Inside(c)
         /\ Inside(c) => Len(stack) - 1 < Len(c.place)
<1> DEFINE n == Len(stack)
           S == [module : Modules, node : Nat, dir : Nat]
<1>1. /\ n \in Nat /\ n > 1 /\ n - 1 \in 1..n /\ Below = stack[n - 1] /\ Below \in Frame
      /\ n \in 1..n /\ n - 1 \in Nat /\ (n - 1) - 1 = n - 2 /\ n \in 1..n
      /\ \A i \in 1..(n - 2) : i \in 1..(n - 1)
  BY TopFacts
<1>2. /\ Len(Top.place) = n - 1 /\ \A i \in 1..(n - 1) : Top.place[i] = StepOf(stack[i])
  BY TopPlace
<1>3. c.place \in Seq(S) /\ Top.place \in Seq(S) /\ Len(c.place) \in Nat
  BY <1>1, StepFacts, StackFacts DEF Place, ResolverInv
<1> HIDE DEF S
<1>4. ASSUME Inside(c) PROVE n - 1 < Len(c.place)
  <2>1. SettledFor(stack, copies)
    BY SettledIs
  <2>2. n - 1 <= Len(c.place) /\ OnPath(stack, c, (n - 1) - 1) /\ c.place[n - 1] = StepOf(Below)
    BY <1>1, <1>4 DEF Inside, OnPath
  <2>3. ~Before(c.place[n - 1], Below)
    BY <1>1, <2>2, BeforeFacts
  <2>. QED BY <1>1, <2>1, <2>2, <2>3 DEF SettledFor
<1>5. ASSUME n - 1 < Len(c.place)
      PROVE  SubSeq(c.place, 1, n - 1) = Top.place <=> OnPath(stack, c, n - 1)
  <2>1. n - 1 \in 0..Len(c.place)
    BY <1>1, <1>3, <1>5
  <2>2. /\ SubSeq(c.place, 1, n - 1) \in Seq(S) /\ Len(SubSeq(c.place, 1, n - 1)) = n - 1
        /\ \A i \in 1..(n - 1) : SubSeq(c.place, 1, n - 1)[i] = c.place[i]
    BY <1>3, <2>1, Prefix
  <2>3. SubSeq(c.place, 1, n - 1) = Top.place => OnPath(stack, c, n - 1)
    BY <1>2, <2>2 DEF OnPath
  <2>4. ASSUME OnPath(stack, c, n - 1) PROVE SubSeq(c.place, 1, n - 1) = Top.place
    <3> DEFINE q == SubSeq(c.place, 1, n - 1)
    <3>1. \A i \in 1..(n - 1) : q[i] = Top.place[i]
      BY <1>2, <2>2, <2>4 DEF OnPath
    <3>2. q \in Seq(S) /\ Len(q) = Len(Top.place) /\ \A i \in 1..Len(q) : q[i] = Top.place[i]
      BY <1>2, <2>2, <3>1
    <3> HIDE DEF q
    <3>3. q = Top.place
      BY <1>3, <3>2, SeqEqual
    <3>. QED BY <3>3 DEF q
  <2>. QED BY <2>3, <2>4
<1>6. n - 1 < Len(c.place) => n - 1 <= Len(c.place)
  BY <1>1, <1>3
<1>7. n - 1 < Len(c.place) <=> Len(c.place) > n - 1
  BY <1>1, <1>3
<1>. QED BY <1>2, <1>4, <1>5, <1>6, <1>7 DEF Within, Inside

LEMMA SpliceTagged ==
  ASSUME ResolverInv, Splice, NEW c \in copies'
  PROVE  \/ c = Spliced
         \/ \E b \in copies :
              /\ c.module = b.module /\ c.place = b.place
              /\ c.prunable = IF Within(b.place, Top.place)
                                  /\ b.place[Len(Top.place) + 1].node
                                       \notin Kept(Current(Below), Top.module)
                                THEN Nodes(b.module) ELSE b.prunable
<1>1. copies' = Tagged(Current(Below), Top.module, Top.place) \cup {Spliced}
  BY DEF Splice, Spliced
<1>2. \A b \in copies : /\ [b EXCEPT !.prunable = Nodes(b.module)].module = b.module
                        /\ [b EXCEPT !.prunable = Nodes(b.module)].place = b.place
                        /\ [b EXCEPT !.prunable = Nodes(b.module)].prunable = Nodes(b.module)
  BY DEF ResolverInv, TypeOK, Copy
<1>3. CASE c \in Tagged(Current(Below), Top.module, Top.place)
  <2>1. PICK b \in copies :
          c = IF Within(b.place, Top.place)
                 /\ b.place[Len(Top.place) + 1].node \notin Kept(Current(Below), Top.module)
              THEN [b EXCEPT !.prunable = Nodes(b.module)] ELSE b
    BY <1>3 DEF Tagged
  <2>. QED BY <1>2, <2>1
<1>. QED BY <1>1, <1>3

LEMMA SpliceTags ==
  ASSUME ResolverInv, Linked, Settled, TagsExact, Splice PROVE TagsExact'
<1> DEFINE n == Len(stack)
           d == Current(Below)
<1>1. /\ n \in Nat /\ n > 1 /\ Len(stack') = n - 1 /\ \A k \in 1..(n - 2) : stack'[k] = stack[k]
      /\ Below = stack[n - 1] /\ n - 1 \in Nat /\ n - 1 >= 1 /\ n - 1 \in 1..(n - 1)
      /\ \A k \in 1..(n - 1) : k = n - 1 \/ k < n - 1
      /\ doc' = doc
  BY SpliceDone
<1>2. /\ Len(Top.place) = n - 1 /\ \A i \in 1..(n - 1) : Top.place[i] = StepOf(stack[i])
      /\ d.target = Top.module /\ DirOf(StepOf(Below)) = d
  BY <1>1, TopPlace DEF DirOf, StepOf, Current
<1>3. ASSUME NEW c, NEW k \in Nat
      PROVE  (k < n - 1 /\ OnPath(stack', c, k)) <=> (k < n - 1 /\ OnPath(stack, c, k))
  <2>1. k < n - 1 => \A i \in 1..k : i \in 1..(n - 2)
    BY <1>1
  <2>. QED BY <1>1, <2>1 DEF OnPath
<1>4. ASSUME NEW x \in Nodes(Spliced.module)
      PROVE  x \notin Spliced.prunable <=> KeptUnder(stack', Spliced, x)
  <2>1. /\ Spliced.module = Top.module /\ Spliced.place = Top.place
        /\ Spliced.prunable = Nodes(Top.module) \ Kept(d, Top.module)
    BY DEF Spliced
  <2>2. \A k \in 1..(n - 1) : k < n - 1 => OnPath(stack', Spliced, k)
    <3> SUFFICES ASSUME NEW k \in 1..(n - 1), k < n - 1 PROVE OnPath(stack', Spliced, k)
      OBVIOUS
    <3>1. \A i \in 1..k : i \in 1..(n - 2) /\ i \in 1..(n - 1)
      BY <1>1
    <3>. QED BY <1>1, <1>2, <2>1, <3>1 DEF OnPath
  <2>3. StepKeeps(Spliced, x, n - 1) <=> x \in Kept(d, Top.module)
    <3>1. Spliced.place[n - 1] = StepOf(Below) /\ Len(Spliced.place) = n - 1
      BY <1>1, <1>2, <2>1
    <3>. QED BY <1>2, <3>1 DEF StepKeeps
  <2>4. ~(n - 1 < n - 1)
    BY <1>1
  <2>5. KeptUnder(stack', Spliced, x) <=> StepKeeps(Spliced, x, n - 1)
    BY <1>1, <1>2, <2>1, <2>2, <2>4 DEF KeptUnder
  <2>. QED BY <2>1, <2>3, <2>5
<1>5. ASSUME NEW b \in copies, NEW c, c.module = b.module, c.place = b.place,
             c.prunable = IF Within(b.place, Top.place)
                             /\ b.place[Len(Top.place) + 1].node \notin Kept(d, Top.module)
                          THEN Nodes(b.module) ELSE b.prunable,
             NEW x \in Nodes(c.module)
      PROVE  x \notin c.prunable <=> KeptUnder(stack', c, x)
  <2>1. x \notin b.prunable <=> KeptUnder(stack, b, x)
    BY <1>5, TagsIs DEF TagsFor
  <2>2. Len(b.place) \in Nat
    BY StepFacts DEF ResolverInv
  <2>3. \A k : /\ OnPath(stack', c, k) <=> OnPath(stack', b, k)
               /\ StepKeeps(c, x, k) <=> StepKeeps(b, x, k)
    BY <1>5 DEF OnPath, StepKeeps
  <2>4. KeptUnder(stack', c, x) <=>
          \A k \in 1..Len(b.place) : (k < n - 1 /\ OnPath(stack', b, k)) \/ StepKeeps(b, x, k)
    BY <1>1, <1>5, <2>3 DEF KeptUnder
  <2>5. KeptUnder(stack', c, x) <=>
          \A k \in 1..Len(b.place) : (k < n - 1 /\ OnPath(stack, b, k)) \/ StepKeeps(b, x, k)
    <3>1. \A k \in 1..Len(b.place) : k \in Nat
      BY <2>2
    <3>. QED BY <1>3, <2>4, <3>1
  <2>6. KeptUnder(stack, b, x) <=>
          \A k \in 1..Len(b.place) : (k < n /\ OnPath(stack, b, k)) \/ StepKeeps(b, x, k)
    BY DEF KeptUnder
  <2>7. \A k \in 1..Len(b.place) : k < n <=> k < n - 1 \/ k = n - 1
    BY <1>1, <2>2
  <2>8. Within(b.place, Top.place) <=> Inside(b)
    BY <1>1, WithinIs
  <2>9. CASE ~Inside(b)
    <3>1. \A k \in 1..Len(b.place) : ~(k = n - 1 /\ OnPath(stack, b, k))
      BY <1>1, <2>2, <2>9 DEF Inside
    <3>2. KeptUnder(stack', c, x) <=> KeptUnder(stack, b, x)
      BY <2>5, <2>6, <2>7, <3>1
    <3>. QED BY <1>5, <2>1, <2>8, <2>9, <3>2
  <2>10. CASE Inside(b)
    <3>1. n - 1 < Len(b.place) /\ n - 1 \in 1..Len(b.place) /\ OnPath(stack, b, n - 1)
      <4>1. n - 1 < Len(b.place)
        BY <1>1, <2>10, WithinIs
      <4>. QED BY <1>1, <2>2, <2>10, <4>1 DEF Inside
    <3>2. StepKeeps(b, x, n - 1) <=> b.place[(n - 1) + 1].node \in Kept(d, Top.module)
      <4>1. b.place[n - 1] = StepOf(Below)
        BY <1>1, <3>1 DEF OnPath
      <4>2. n - 1 # Len(b.place)
        BY <1>1, <2>2, <3>1
      <4>. QED BY <1>2, <4>1, <4>2 DEF StepKeeps
    <3>3. ~(n - 1 < n - 1)
      BY <1>1
    <3>4. KeptUnder(stack', c, x) <=> KeptUnder(stack, b, x) /\ StepKeeps(b, x, n - 1)
      <4>1. KeptUnder(stack', c, x) => StepKeeps(b, x, n - 1)
        BY <2>5, <3>1, <3>3
      <4>. QED BY <2>5, <2>6, <2>7, <3>1, <4>1
    <3>5. c.prunable = IF b.place[(n - 1) + 1].node \notin Kept(d, Top.module)
                       THEN Nodes(b.module) ELSE b.prunable
      BY <1>2, <1>5, <2>8, <2>10
    <3>. QED BY <1>5, <2>1, <3>2, <3>4, <3>5
  <2>. QED BY <2>9, <2>10
<1>6. ASSUME NEW c \in copies', NEW x \in Nodes(c.module)
      PROVE  x \notin c.prunable <=> KeptUnder(stack', c, x)
  BY <1>4, <1>5, SpliceTagged
<1>. QED BY <1>1, <1>6, TagsIs DEF TagsFor

LEMMA TagsStep ==
  ASSUME ResolverInv, Linked, Settled, TagsExact, [Next]_vars, errors' = {} PROVE TagsExact'
<1>1. CASE UNCHANGED <<doc, stack, visited, errors, copies, libraries>>
  BY <1>1, TagsIs
<1>. QED BY <1>1, NoErrorYet, DescendTags, NextNodeTags, SpliceTags

LEMMA PrunableFromInvariant ==
  ASSUME ResolverInv, Ended, errors = {} => TagsExact PROVE PrunableExactly
<1> SUFFICES ASSUME result = "ok", NEW c \in copies, NEW x \in Nodes(c.module)
             PROVE  x \notin c.prunable <=> KeptThroughout(c, x)
  BY DEF PrunableExactly
<1>1. errors = {} /\ Len(stack) = 1
  BY DEF Ended, ResolverInv
<1>2. x \notin c.prunable <=> KeptUnder(stack, c, x)
  BY <1>1, TagsIs DEF TagsFor
<1> DEFINE S == [module : Modules, node : Nat, dir : Nat]
<1>3. c.place \in Seq(S) /\ Len(c.place) \in Nat
  BY StepFacts DEF Place, ResolverInv
<1> HIDE DEF S
<1>4. ASSUME NEW k \in 1..Len(c.place)
      PROVE  /\ DirectiveAt(SubSeq(c.place, 1, k)) = DirOf(c.place[k])
             /\ ~(k < Len(stack))
  <2>1. k \in 0..Len(c.place) /\ k \in 1..k /\ ~(k < 1)
    BY <1>3
  <2>2. Len(SubSeq(c.place, 1, k)) = k /\ SubSeq(c.place, 1, k)[k] = c.place[k]
    BY <1>3, <2>1, Prefix
  <2>. QED BY <1>1, <2>1, <2>2 DEF DirectiveAt, DirOf
<1>5. KeptThroughout(c, x) <=> \A k \in 1..Len(c.place) : StepKeeps(c, x, k)
  BY <1>4 DEF KeptThroughout, StepKeeps, ModuleAt
<1>6. KeptUnder(stack, c, x) <=> \A k \in 1..Len(c.place) : StepKeeps(c, x, k)
  BY <1>4 DEF KeptUnder
<1>. QED BY <1>2, <1>5, <1>6
-------------------------------------------------------------------------------
(* What directives say of reachability.                                    *)
LEMMA AtFacts ==
  ASSUME TypeOK, NEW m \in Modules, NEW place \in Place, NEW n \in Nat, NEW k \in Nat
  PROVE  /\ DirectiveAt(Append(place, Step(m, n, k))) = doc.body[m][n][k]
         /\ ModuleAt(Append(place, Step(m, n, k))) = doc.body[m][n][k].target
<1>1. /\ Len(Append(place, Step(m, n, k))) = Len(place) + 1
      /\ Append(place, Step(m, n, k))[Len(place) + 1] = Step(m, n, k)
  BY DirectivesFacts
<1>. QED BY <1>1 DEF DirectiveAt, ModuleAt, Step

LEMMA DirectivesInIs ==
  ASSUME TypeOK, NEW m \in Modules, NEW d
  PROVE  d \in DirectivesIn(m) <=>
           \E n \in Nodes(m) : \E k \in 1..Len(doc.body[m][n]) : d = doc.body[m][n][k]
<1>1. <<>> \in Place
  BY DEF Place
<1>2. \A n \in Nodes(m) : n \in Nat /\ Len(doc.body[m][n]) \in Nat
  BY <1>1, DirectivesFacts
<1>3. ASSUME NEW n \in Nodes(m), NEW k \in 1..Len(doc.body[m][n])
      PROVE  DirectiveAt(Append(<<>>, Step(m, n, k))) = doc.body[m][n][k]
  <2>1. n \in Nat /\ k \in Nat
    BY <1>2
  <2>. QED BY <1>1, <2>1, AtFacts
<1>4. \A p : p \in DirectivesOf(m, <<>>) <=>
        \E n \in Nodes(m) : \E k \in 1..Len(doc.body[m][n]) : p = Append(<<>>, Step(m, n, k))
  BY DirectivesIff
<1>5. d \in DirectivesIn(m) <=> \E p \in DirectivesOf(m, <<>>) : d = DirectiveAt(p)
  BY DEF DirectivesIn
<1>6. d \in DirectivesIn(m) =>
        \E n \in Nodes(m) : \E k \in 1..Len(doc.body[m][n]) : d = doc.body[m][n][k]
  BY <1>3, <1>4, <1>5
<1>7. ASSUME NEW n \in Nodes(m), NEW k \in 1..Len(doc.body[m][n]), d = doc.body[m][n][k]
      PROVE  d \in DirectivesIn(m)
  <2>1. Append(<<>>, Step(m, n, k)) \in DirectivesOf(m, <<>>)
    BY <1>4
  <2>. QED BY <1>3, <1>5, <1>7, <2>1
<1>. QED BY <1>6, <1>7

LEMMA TargetsIs ==
  ASSUME TypeOK, NEW m \in Modules, NEW t
  PROVE  t \in Targets(m) <=>
           t \in Modules /\ \E n \in Nodes(m) : \E k \in 1..Len(doc.body[m][n]) :
                              t = doc.body[m][n][k].target
<1>1. t \in Targets(m) <=> t \in Modules /\ \E d \in DirectivesIn(m) : t = d.target
  BY DEF Targets
<1>. QED BY <1>1, DirectivesInIs

LEMMA ReachFacts ==
  ASSUME NEW m \in Modules
  PROVE  /\ Targets(m) \subseteq Reachable(m)
         /\ \A u \in Reachable(m) : Targets(u) \subseteq Reachable(m) /\ u \in Modules
         /\ \A u \in Reachable(m) : Reachable(u) \subseteq Reachable(m)
         /\ \A S \in SUBSET Modules : Targets(m) \subseteq S /\ Closed(S) => Reachable(m) \subseteq S
<1>1. \A u : Targets(u) \subseteq Modules
  BY DEF Targets
<1>2. Targets(m) \subseteq Reachable(m)
  BY <1>1 DEF Reachable
<1>3. ASSUME NEW u \in Reachable(m) PROVE Targets(u) \subseteq Reachable(m) /\ u \in Modules
  BY <1>1, <1>3 DEF Reachable, Closed
<1>4. ASSUME NEW u \in Reachable(m) PROVE Reachable(u) \subseteq Reachable(m)
  <2>1. Reachable(m) \in SUBSET Modules /\ Closed(Reachable(m)) /\ Targets(u) \subseteq Reachable(m)
    BY <1>3, <1>4 DEF Closed, Reachable
  <2> SUFFICES ASSUME NEW t \in Reachable(u) PROVE t \in Reachable(m)
    OBVIOUS
  <2>. QED BY <2>1 DEF Reachable
<1>5. \A S \in SUBSET Modules : Targets(m) \subseteq S /\ Closed(S) => Reachable(m) \subseteq S
  BY DEF Reachable
<1>. QED BY <1>2, <1>3, <1>4, <1>5

LEMMA ReachSame ==
  ASSUME doc' = doc
  PROVE  /\ \A m : Reachable(m)' = Reachable(m)
         /\ OnlySoundImports' <=> OnlySoundImports
         /\ Cyclic' <=> Cyclic
<1>1. \A m, p : DirectivesOf(m, p)' = DirectivesOf(m, p)
  BY DEF DirectivesOf, Nodes
<1>2. \A p : DirectiveAt(p)' = DirectiveAt(p)
  BY DEF DirectiveAt
<1>3. \A m : DirectivesIn(m)' = DirectivesIn(m)
  BY <1>1, <1>2 DEF DirectivesIn
<1>4. \A m : Targets(m)' = Targets(m)
  BY <1>3 DEF Targets
<1>5. \A S : Closed(S)' <=> Closed(S)
  BY <1>4 DEF Closed
<1>6. \A m : Reachable(m)' = Reachable(m)
  BY <1>4, <1>5 DEF Reachable
<1>7. OnlySoundImports' <=> OnlySoundImports
  BY <1>3, <1>6 DEF OnlySoundImports, Unresolvable
<1>8. Cyclic' <=> Cyclic
  BY <1>6 DEF Cyclic
<1>. QED BY <1>6, <1>7, <1>8

(* What the innermost frame is at.                                         *)
LEMMA CurrentReach ==
  ASSUME TypeOK, NEW f \in Frame, InNode(f)
  PROVE  /\ Current(f) \in DirectivesIn(f.module)
         /\ Current(f).target \in Modules => Current(f).target \in Targets(f.module)
<1>1. f.module \in Modules /\ f.node \in Nodes(f.module)
      /\ f.dir \in 1..Len(doc.body[f.module][f.node])
      /\ Current(f) = doc.body[f.module][f.node][f.dir]
  BY DEF Frame, InNode, Current
<1>2. Current(f) \in DirectivesIn(f.module)
  BY <1>1, DirectivesInIs
<1>. QED BY <1>1, <1>2 DEF Targets

DescendsFor(st) ==
  \A k \in 1..Len(st) : \A j \in 1..(k - 1) : st[k].module \in Reachable(st[j].module)

LEMMA DescendsIs ==
  /\ Descends <=> DescendsFor(stack)
  /\ doc' = doc => (Descends' <=> DescendsFor(stack'))
<1>1. Descends <=> DescendsFor(stack)
  BY DEF Descends, DescendsFor
<1>2. ASSUME doc' = doc PROVE Descends' <=> DescendsFor(stack')
  BY <1>2, ReachSame DEF Descends, DescendsFor
<1>. QED BY <1>1, <1>2

LEMMA DescendsStep ==
  ASSUME ResolverInv, Linked, Descends, [Next]_vars PROVE Descends'
<1> DEFINE n == Len(stack)
<1>1. doc' = doc /\ DescendsFor(stack) /\ n \in Nat \ {0}
  BY DocConstant, DescendsIs, StackFacts
<1>2. CASE Descend
  <2>1. /\ Len(stack') = n + 1 /\ \A k \in 1..n : stack'[k] = stack[k]
        /\ stack'[n + 1].module = Current(Top).target /\ Top = stack[n]
        /\ InNode(Top) /\ Current(Top).target \in Modules
    BY <1>2, StackFacts, DescendShape
  <2>2. n \in 1..n /\ Top \in Frame /\ Top.module \in Modules
    BY <1>1, StackFacts
  <2>3. stack'[n + 1].module \in Targets(Top.module)
    BY <2>1, <2>2, CurrentReach DEF ResolverInv
  <2>4. \A j \in 1..n : stack'[n + 1].module \in Reachable(stack[j].module)
    <3> SUFFICES ASSUME NEW j \in 1..n PROVE stack'[n + 1].module \in Reachable(stack[j].module)
      OBVIOUS
    <3>1. stack[j].module \in Modules
      BY StackFacts
    <3>2. CASE j = n
      BY <2>1, <2>3, <3>1, <3>2, ReachFacts
    <3>3. CASE j \in 1..(n - 1)
      <4>1. Top.module \in Reachable(stack[j].module)
        BY <1>1, <2>1, <2>2, <3>3 DEF DescendsFor
      <4>. QED BY <2>3, <3>1, <4>1, ReachFacts
    <3>. QED BY <1>1, <3>2, <3>3
  <2>5. \A k \in 1..(n + 1) : k = n + 1 \/ k \in 1..n
    BY <1>1
  <2>6. (n + 1) - 1 = n /\ \A k \in 1..n : \A j \in 1..(k - 1) : j \in 1..n
    BY <1>1
  <2>7. DescendsFor(stack')
    BY <1>1, <2>1, <2>4, <2>5, <2>6 DEF DescendsFor
  <2>. QED BY <1>1, <2>7, DescendsIs
<1>3. ASSUME NEW m \in 1..n, Len(stack') = m, \A k \in 1..m : stack'[k].module = stack[k].module
      PROVE  Descends'
  <2>1. \A k \in 1..m : k \in 1..n /\ \A j \in 1..(k - 1) : j \in 1..m
    BY <1>1
  <2>2. DescendsFor(stack')
    BY <1>1, <1>3, <2>1 DEF DescendsFor
  <2>. QED BY <1>1, <2>2, DescendsIs
<1>4. CASE Splice \/ GiveUp
  <2>1. /\ n > 1 /\ Len(stack') = n - 1 /\ \A k \in 1..(n - 2) : stack'[k] = stack[k]
        /\ stack'[n - 1].module = stack[n - 1].module
    BY <1>4, ReturnShape, StackFacts DEF MovedOn
  <2>2. n - 1 \in 1..n /\ \A k \in 1..(n - 1) : k = n - 1 \/ k \in 1..(n - 2)
    BY <1>1, <2>1
  <2>. QED BY <1>3, <2>1, <2>2
<1>5. CASE (\E code \in Codes : FailHere(code)) \/ NextNode
  <2>1. /\ Len(stack') = n /\ \A k \in 1..(n - 1) : stack'[k] = stack[k]
        /\ stack'[n].module = stack[n].module
    BY <1>5, AdvanceShape, StackFacts DEF MovedOn
  <2>2. n \in 1..n /\ \A k \in 1..n : k = n \/ k \in 1..(n - 1)
    BY <1>1
  <2>. QED BY <1>3, <2>1, <2>2
<1>6. CASE UNCHANGED <<doc, stack, visited, errors, copies, libraries>>
  BY <1>1, <1>6, DescendsIs
<1>. QED BY <1>2, <1>4, <1>5, <1>6, StepCases
-------------------------------------------------------------------------------
(* The modules of the copies, once a module is done.                       *)
Spread == {c.module : c \in copies}

LEMMA SpreadClosed ==
  ASSUME ResolverInv, AllSpliced, CopiesNamed, NEW f \in Frame, f.node >= 1, f.dir >= 1,
         f.node \notin Nodes(f.module), Done(f) \subseteq Places
  PROVE  Reachable(f.module) \subseteq Spread
<1>1. TypeOK /\ Spread \subseteq Modules
  BY StepFacts DEF ResolverInv, Spread
<1>2. ASSUME NEW m \in Modules, NEW place \in Place, DirectivesOf(m, place) \subseteq Places
      PROVE  Targets(m) \subseteq Spread
  <2> SUFFICES ASSUME NEW t \in Targets(m) PROVE t \in Spread
    OBVIOUS
  <2>1. PICK n \in Nodes(m) : \E k \in 1..Len(doc.body[m][n]) : t = doc.body[m][n][k].target
    BY <1>1, TargetsIs
  <2>2. PICK k \in 1..Len(doc.body[m][n]) : t = doc.body[m][n][k].target
    BY <2>1
  <2>3. n \in Nat /\ k \in Nat
    BY <1>1, <1>2, DirectivesFacts
  <2>4. Append(place, Step(m, n, k)) \in DirectivesOf(m, place)
    BY DirectivesIff
  <2>5. PICK c \in copies : c.place = Append(place, Step(m, n, k))
    BY <1>2, <2>4 DEF Places
  <2>6. c.module = t
    <3>1. c.module = ModuleAt(c.place)
      BY DEF CopiesNamed
    <3>2. ModuleAt(Append(place, Step(m, n, k))) = doc.body[m][n][k].target
      BY <1>1, <2>3, AtFacts
    <3>. QED BY <2>2, <2>5, <3>1, <3>2
  <2>. QED BY <2>6 DEF Spread
<1>3. Closed(Spread)
  <2> SUFFICES ASSUME NEW c \in copies PROVE Targets(c.module) \subseteq Spread
    BY DEF Closed, Spread
  <2>. QED BY <1>1, <1>2, StepFacts DEF AllSpliced
<1>4. f.module \in Modules /\ f.place \in Place
  BY DEF Frame
<1>5. Targets(f.module) \subseteq Spread
  BY <1>1, <1>2, <1>4, DoneMoves
<1>. QED BY <1>1, <1>3, <1>4, <1>5, ReachFacts

LEMMA AcyclicStep ==
  ASSUME ResolverInv, Linked, CopiesNamed, AllSpliced, Acyclic, [Next]_vars, errors' = {}
  PROVE  Acyclic'
<1>1. doc' = doc
  BY DocConstant
<1>2. CASE ~Splice
  <2>1. copies' \subseteq copies
    BY <1>2, OtherSteps
  <2>. QED BY <1>1, <2>1, ReachSame DEF Acyclic
<1>3. CASE Splice
  <2>1. Reachable(Top.module) \subseteq Spread
    <3>1. Len(stack) \in 1..Len(stack) /\ Top = stack[Len(stack)] /\ Top \in Frame
          /\ Top.node >= 1 /\ Top.dir >= 1
      BY StackFacts DEF Linked
    <3>2. Done(Top) \subseteq Places
      BY <3>1 DEF AllSpliced
    <3>. QED BY <1>3, <3>1, <3>2, SpreadClosed DEF Splice, FrameDone
  <2>2. Top.module \notin Reachable(Top.module)
    BY <2>1 DEF Acyclic, Spread
  <2>3. \A c \in copies' : c.module = Top.module \/ \E b \in copies : c.module = b.module
    BY <1>3, SpliceCopies DEF Spliced
  <2>4. \A c \in copies' : c.module \notin Reachable(c.module)
    BY <2>2, <2>3 DEF Acyclic
  <2>. QED BY <1>1, <2>4, ReachSame DEF Acyclic
<1>. QED BY <1>2, <1>3
-------------------------------------------------------------------------------
(* With sound imports alone, what a step on the stack finds.               *)
LEMMA SoundHere ==
  ASSUME ResolverInv, Linked, Descends, OnlySoundImports, NEW j \in 1..Len(stack)
  PROVE  /\ stack[j].module \in Reachable(Root) \cup {Root}
         /\ InNode(stack[j]) =>
              /\ Current(stack[j]).kind = "import" /\ ~Unresolvable(Current(stack[j]))
              /\ Current(stack[j]).target \in Targets(stack[j].module)
              /\ Current(stack[j]).target \in Reachable(Root)
<1>1. /\ stack[j] \in Frame /\ stack[j].module \in Modules /\ Root \in Modules
      /\ Len(stack) \in Nat \ {0}
  BY StackFacts, ResolverAssumption
<1>2. stack[j].module \in Reachable(Root) \cup {Root}
  <2>1. j = 1 \/ 1 \in 1..(j - 1)
    BY <1>1
  <2>. QED BY <2>1 DEF Descends, Linked
<1>3. ASSUME InNode(stack[j])
      PROVE  /\ Current(stack[j]).kind = "import" /\ ~Unresolvable(Current(stack[j]))
             /\ Current(stack[j]).target \in Targets(stack[j].module)
             /\ Current(stack[j]).target \in Reachable(Root)
  <2>1. Current(stack[j]) \in DirectivesIn(stack[j].module) /\ Current(stack[j]) \in Directive
    BY <1>1, <1>3, CurrentReach, CurrentFacts DEF ResolverInv
  <2>2. Current(stack[j]).kind = "import" /\ ~Unresolvable(Current(stack[j]))
    BY <1>2, <2>1 DEF OnlySoundImports
  <2>3. Current(stack[j]).target \in Modules
    BY <2>1, <2>2 DEF Directive, Unresolvable
  <2>4. Current(stack[j]).target \in Targets(stack[j].module)
    BY <1>1, <1>3, <2>3, CurrentReach DEF ResolverInv
  <2>. QED BY <1>1, <1>2, <2>2, <2>4, ReachFacts
<1>. QED BY <1>2, <1>3

(* The modules on a stack.                                                 *)
OnStack(st) == {st[k].module : k \in 1..Len(st)}

LEMMA VisitedIs ==
  /\ VisitedIsStack <=> (OnlySoundImports => visited = OnStack(stack) /\ (errors # {} => Cyclic))
  /\ doc' = doc =>
       (VisitedIsStack' <=>
          (OnlySoundImports => visited' = OnStack(stack') /\ (errors' # {} => Cyclic)))
<1>1. VisitedIsStack <=> (OnlySoundImports => visited = OnStack(stack) /\ (errors # {} => Cyclic))
  BY DEF VisitedIsStack, OnStack
<1>2. ASSUME doc' = doc
      PROVE  VisitedIsStack' <=>
               (OnlySoundImports => visited' = OnStack(stack') /\ (errors' # {} => Cyclic))
  BY <1>2, ReachSame DEF VisitedIsStack, OnStack
<1>. QED BY <1>1, <1>2

LEMMA FailsOnCycle ==
  ASSUME ResolverInv, Linked, Descends, VisitedIsStack, OnlySoundImports,
         RejectUnresolvable \/ RejectSeen \/ RejectBroken
  PROVE  RejectSeen /\ Cyclic
<1> DEFINE n == Len(stack)
           d == Current(Top)
<1>1. n \in Nat \ {0} /\ n \in 1..n /\ 1 \in 1..n /\ Top = stack[n] /\ InNode(Top)
  BY StackFacts DEF RejectUnresolvable, RejectSeen, RejectBroken, AtDirective
<1>2. /\ ~Unresolvable(d) /\ d.target \in Targets(Top.module) /\ d.target \in Reachable(Root)
  BY <1>1, SoundHere
<1>3. ~RejectUnresolvable
  BY <1>2 DEF RejectUnresolvable
<1>4. ~RejectBroken
  <2> SUFFICES ASSUME RejectBroken PROVE FALSE
    OBVIOUS
  <2>1. d.target \notin visited /\ doc.condition[d.target] # "good"
    BY DEF RejectBroken, Seen
  <2>2. Root \in visited
    BY <1>1 DEF ResolverInv, NoRecursion, Linked
  <2>. QED BY <1>2, <2>1, <2>2 DEF OnlySoundImports
<1>5. RejectSeen
  BY <1>3, <1>4
<1>6. PICK j \in 1..n : d.target = stack[j].module
  <2>1. d.target \in visited
    BY <1>5 DEF RejectSeen, Seen
  <2>. QED BY <2>1, VisitedIs DEF OnStack
<1>7. stack[j].module \in Modules
  BY StackFacts
<1>8. stack[j].module \in Reachable(stack[j].module)
  <2>1. CASE j = n
    BY <1>1, <1>2, <1>6, <1>7, <2>1, ReachFacts
  <2>2. CASE j \in 1..(n - 1)
    <3>1. Top.module \in Reachable(stack[j].module)
      BY <1>1, <2>2 DEF Descends
    <3>. QED BY <1>2, <1>6, <1>7, <3>1, ReachFacts
  <2>. QED BY <1>1, <2>1, <2>2
<1>9. stack[j].module \in Reachable(Root) \cup {Root}
  BY SoundHere
<1>. QED BY <1>5, <1>8, <1>9 DEF Cyclic

LEMMA VisitedStep ==
  ASSUME ResolverInv, Linked, Descends, VisitedIsStack, [Next]_vars PROVE VisitedIsStack'
<1> DEFINE n == Len(stack)
<1>1. doc' = doc /\ n \in Nat \ {0}
  BY DocConstant, StackFacts
<1> SUFFICES ASSUME OnlySoundImports
             PROVE  visited' = OnStack(stack') /\ (errors' # {} => Cyclic)
  BY <1>1, VisitedIs
<1>2. visited = OnStack(stack) /\ (errors # {} => Cyclic)
  BY VisitedIs
<1>3. CASE Descend
  <2>1. /\ Len(stack') = n + 1 /\ \A k \in 1..n : stack'[k] = stack[k]
        /\ stack'[n + 1].module = Current(Top).target
        /\ visited' = visited \cup {Current(Top).target} /\ errors' = errors
    BY <1>3, DescendShape
  <2>2. n + 1 \in 1..(n + 1) /\ \A k : k \in 1..(n + 1) <=> k = n + 1 \/ k \in 1..n
    BY <1>1
  <2>3. OnStack(stack') = OnStack(stack) \cup {Current(Top).target}
    <3> SUFFICES ASSUME NEW m
                 PROVE  (\E k \in 1..(n + 1) : m = stack'[k].module) <=>
                          (\E k \in 1..n : m = stack[k].module) \/ m = Current(Top).target
      BY <2>1 DEF OnStack
    <3>. QED BY <2>1, <2>2
  <2>. QED BY <1>2, <2>1, <2>3
<1>4. CASE Splice \/ GiveUp
  <2>1. /\ n > 1 /\ Len(stack') = n - 1 /\ \A k \in 1..(n - 2) : stack'[k] = stack[k]
        /\ stack'[n - 1].module = stack[n - 1].module /\ Below = stack[n - 1] /\ Top = stack[n]
        /\ visited' = Leave(Current(Below), Top.module) /\ errors' = errors
    BY <1>4, ReturnShape, StackFacts DEF MovedOn
  <2>2. /\ n - 1 \in 1..n /\ n \in 1..n /\ \A k : k \in 1..n <=> k = n \/ k \in 1..(n - 1)
        /\ \A k \in 1..(n - 1) : k = n - 1 \/ k \in 1..(n - 2)
        /\ \A k \in 1..(n - 1) : k # n
    BY <1>1, <2>1
  <2>3. Current(Below).kind = "import"
    BY <2>1, <2>2, TopPlace, SoundHere
  <2>4. visited' = OnStack(stack) \ {Top.module}
    BY <1>2, <2>1, <2>3 DEF Leave
  <2>5. \A k \in 1..(n - 1) : stack'[k].module = stack[k].module /\ stack[k].module # Top.module
    BY <2>1, <2>2 DEF ResolverInv, NoRecursion
  <2>6. OnStack(stack') = OnStack(stack) \ {Top.module}
    <3>1. ASSUME NEW m PROVE m \in OnStack(stack') <=> m \in OnStack(stack) /\ m # Top.module
      <4>1. m \in OnStack(stack') <=> \E k \in 1..(n - 1) : m = stack'[k].module
        BY <2>1 DEF OnStack
      <4>2. m \in OnStack(stack) <=> \E k \in 1..n : m = stack[k].module
        BY DEF OnStack
      <4>. QED BY <2>1, <2>2, <2>5, <4>1, <4>2
    <3>. QED BY <3>1
  <2>. QED BY <1>2, <2>1, <2>4, <2>6
<1>5. CASE RejectUnresolvable \/ RejectSeen \/ RejectBroken \/ NextNode
  <2>1. /\ visited' = visited /\ (errors' = errors \/ Cyclic)
        /\ (\E code \in Codes : FailHere(code)) \/ NextNode
    <3>1. CASE NextNode
      BY <3>1 DEF NextNode
    <3>2. CASE RejectUnresolvable \/ RejectSeen \/ RejectBroken
      <4>1. RejectSeen /\ Cyclic
        BY <3>2, FailsOnCycle
      <4>. QED BY <4>1 DEF RejectSeen, Codes
    <3>. QED BY <1>5, <3>1, <3>2
  <2>2. /\ Len(stack') = n /\ \A k \in 1..(n - 1) : stack'[k] = stack[k]
        /\ stack'[n].module = stack[n].module
    BY <2>1, AdvanceShape, StackFacts DEF MovedOn
  <2>3. \A k \in 1..n : stack'[k].module = stack[k].module
    <3>1. \A k \in 1..n : k = n \/ k \in 1..(n - 1)
      BY <1>1
    <3>. QED BY <2>2, <3>1
  <2>4. OnStack(stack') = OnStack(stack)
    BY <2>2, <2>3 DEF OnStack
  <2>. QED BY <1>2, <2>1, <2>4
<1>6. CASE Finish \/ UNCHANGED vars
  BY <1>2, <1>6 DEF Finish, vars
<1>. QED BY <1>3, <1>4, <1>5, <1>6 DEF Next

LEMMA FailFromInvariant ==
  ASSUME ResolverInv, Ended, Linked, CopiesNamed, VisitedIsStack,
         errors = {} => AllSpliced /\ Acyclic
  PROVE  ImportsFailOnCyclesOnly
<1> SUFFICES ASSUME result # "running", OnlySoundImports PROVE result = "err" <=> Cyclic
  BY DEF ImportsFailOnCyclesOnly
<1>1. result = "err" <=> errors # {}
  BY DEF ResolverInv
<1>2. errors # {} => Cyclic
  BY VisitedIs
<1>3. ASSUME errors = {} PROVE ~Cyclic
  <2>1. Len(stack) = 1 /\ Top = stack[1] /\ Top.node \notin Nodes(Top.module) /\ 1 \in 1..Len(stack)
    <3>1. Len(stack) = 1 /\ Top.node \notin Nodes(Top.module)
      BY DEF Ended
    <3>2. Top = stack[Len(stack)]
      BY StackFacts
    <3>3. 1 \in 1..1
      OBVIOUS
    <3>. QED BY <3>1, <3>2, <3>3
  <2>2. Top \in Frame /\ Top.node >= 1 /\ Top.dir >= 1 /\ Top.module = Root
    BY <2>1, StackFacts DEF Linked
  <2>3. Done(Top) \subseteq Places
    BY <1>3, <2>1 DEF AllSpliced
  <2>4. Reachable(Root) \subseteq Spread
    BY <1>3, <2>1, <2>2, <2>3, SpreadClosed
  <2>5. Root \notin Spread
    BY DEF CopiesNamed, Spread
  <2>. QED BY <1>3, <2>4, <2>5 DEF Cyclic, Acyclic, Spread
<1>. QED BY <1>1, <1>2, <1>3

-------------------------------------------------------------------------------
(* The invariant of the walk.                                              *)
WalkInv ==
  /\ ResolverInv /\ Ended /\ Linked /\ CopiesNamed /\ IncludedStay /\ IncludedOnce
  /\ Descends /\ VisitedIsStack
  /\ errors = {} => AllSpliced /\ Settled /\ TagsExact /\ Acyclic

LEMMA WalkInit == Init => WalkInv
<1> SUFFICES ASSUME Init PROVE WalkInv
  OBVIOUS
<1>1. copies = {} /\ errors = {} /\ Len(stack) = 1 /\ stack[1].module = Root
      /\ visited = {Root} /\ result = "running"
  BY DEF Init
<1>2. CopiesNamed /\ IncludedStay /\ IncludedOnce /\ Settled /\ TagsExact /\ Acyclic /\ Ended
  BY <1>1 DEF CopiesNamed, IncludedStay, IncludedOnce, Settled, TagsExact, Acyclic, Ended
<1>3. \A k \in 1..Len(stack) : k = 1
  BY <1>1
<1>4. Descends
  <2>1. \A k \in 1..1 : \A j \in 1..(k - 1) : FALSE
    OBVIOUS
  <2>. QED BY <1>1, <2>1 DEF Descends
<1>5. VisitedIsStack
  <2>1. OnStack(stack) = {Root}
    BY <1>1 DEF OnStack
  <2>. QED BY <1>1, <2>1, VisitedIs
<1>. QED BY <1>2, <1>4, <1>5, InitInv, LinkedInit, AllSplicedInit DEF WalkInv

LEMMA WalkStep == WalkInv /\ [Next]_vars => WalkInv'
<1> SUFFICES ASSUME WalkInv, [Next]_vars PROVE WalkInv'
  OBVIOUS
<1>1. /\ ResolverInv /\ Ended /\ Linked /\ CopiesNamed /\ IncludedStay /\ IncludedOnce
      /\ Descends /\ VisitedIsStack
      /\ errors = {} => AllSpliced /\ Settled /\ TagsExact /\ Acyclic
  BY DEF WalkInv
<1>2. ResolverInv' /\ Ended' /\ Linked'
  BY <1>1, NextInv, EndedStep, LinkedStep
<1>3. CopiesNamed' /\ IncludedStay' /\ IncludedOnce'
  BY <1>1, CopiesNamedStep, IncludedStayStep
<1>4. Descends' /\ VisitedIsStack'
  BY <1>1, DescendsStep, VisitedStep
<1>5. ASSUME errors' = {} PROVE AllSpliced' /\ Settled' /\ TagsExact' /\ Acyclic'
  <2>1. errors = {}
    BY <1>1, <1>5, NoErrorYet
  <2>. QED BY <1>1, <1>5, <2>1, AllSplicedStep, SettledStep, TagsStep, AcyclicStep
<1>. QED BY <1>2, <1>3, <1>4, <1>5 DEF WalkInv

LEMMA WalkInvariance == Spec => []WalkInv
BY WalkInit, WalkStep, PTL DEF Spec

(* The set of visited files that all scopes share refuses exactly what it  *)
(* should: no file is included twice anywhere in a document, and a         *)
(* document that only imports, from modules that can be read, is refused   *)
(* exactly if its imports have a cycle (`check_visited`, and the entry     *)
(* that `resolve_directive` takes out again after an import).              *)
THEOREM VisitedIsExact == Spec => []VisitedExactly
<1>1. WalkInv => VisitedExactly
  BY FailFromInvariant DEF WalkInv, VisitedExactly
<1>. QED BY <1>1, WalkInvariance, PTL

(* A walk that ends well has spliced the module of every directive, at its *)
(* place and of those alone, has recorded one library per directive of the *)
(* document, and has tagged as prunable exactly the nodes that some        *)
(* directive on the way to them does not keep (`tag_tree_prunable`).       *)
THEOREM SplicedIsExact == Spec => []SplicedExactly
<1>1. WalkInv => SplicedExactly
  BY OkFromInvariant, PrunableFromInvariant DEF WalkInv, SplicedExactly
<1>. QED BY <1>1, WalkInvariance, PTL
===============================================================================
