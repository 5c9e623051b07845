-------------------------- MODULE FixedPointProofs --------------------------
(***************************************************************************)
(* What is proved of the fixed-point engine, for any set of goals, any     *)
(* overflow depth, with or without a cache and whatever an iteration asks  *)
(* for and answers.                                                        *)
(*                                                                         *)
(* Structure is inductive by itself and gives the types,                   *)
(* the consistency of the search graph, the match of stack and calls, and  *)
(* the clean end.  Dependencies adds what the links say about the goals    *)
(* that a result depends on; it needs that every call passes its minimums  *)
(* on, and gives the assertions of move_to_cache and Stack::pop.           *)
(***************************************************************************)
EXTENDS FixedPoint, SequenceTheorems, TLAPS

-----------------------------------------------------------------------------
(***************************************************************************)
(* Helper lemmas.                                                          *)
(***************************************************************************)

\* Cutting a sequence short (Vec::truncate, Vec::pop).
LEMMA Shorten ==
  ASSUME NEW S, NEW s \in Seq(S), NEW n \in 0..Len(s)
  PROVE  /\ SubSeq(s, 1, n) \in Seq(S)
         /\ Len(SubSeq(s, 1, n)) = n
         /\ \A j \in 1..n : SubSeq(s, 1, n)[j] = s[j]
  BY SubSeqProperties

\* What a frame (the locals of a solve_goal call) is made of.
LEMMA FrameFacts ==
  ASSUME NEW fs \in Seq(Frame), NEW d \in 1..Len(fs)
  PROVE  /\ fs[d] \in Frame
         /\ fs[d].dfn \in Nat /\ fs[d].depth \in Nat /\ fs[d].goal \in Goals
         /\ fs[d].minimums \in 0..MAX /\ fs[d].minimums \in Int
         /\ fs[d].tracked \in BOOLEAN
<1>1. fs[d] \in Frame
  BY ElementOfSeq
<1> QED
  BY <1>1, FixedPointAssumption, SMTT(30) DEF Frame

\* What a node of the search graph is made of.
LEMMA NodeFacts ==
  ASSUME NEW ns \in Seq(Node), NEW i \in 1..Len(ns)
  PROVE  /\ ns[i] \in Node
         /\ ns[i].goal \in Goals /\ ns[i].solution \in Solutions
         /\ ns[i].links \in 0..MAX /\ ns[i].links \in Int
         /\ ns[i].stack_depth \in Nat \cup {None}
<1>1. ns[i] \in Node
  BY ElementOfSeq
<1> QED
  BY <1>1, FixedPointAssumption DEF Node

\* Minimums::update_from changes the minimums of the last frame and nothing else.
LEMMA UpdateMinimumsFacts ==
  ASSUME NEW fs \in Seq(Frame), NEW tracked \in BOOLEAN, NEW links \in 0..MAX
  PROVE  LET new == UpdateMinimums(fs, tracked, links)
         IN  /\ new \in Seq(Frame)
             /\ Len(new) = Len(fs)
             /\ \A d \in 1..Len(fs) :
                  /\ new[d].goal = fs[d].goal
                  /\ new[d].depth = fs[d].depth
                  /\ new[d].dfn = fs[d].dfn
                  /\ new[d].tracked = fs[d].tracked
                  /\ new[d].minimums <= fs[d].minimums
                  /\ d < Len(fs) => new[d].minimums = fs[d].minimums
                  /\ d = Len(fs) /\ tracked => new[d].minimums <= links
<1>1. CASE tracked /\ fs # <<>>
  <2> DEFINE n == Len(fs)
             e == [fs[n] EXCEPT !.minimums = MinOf(fs[n].minimums, links)]
  <2>1. n \in 1..Len(fs) /\ fs[n] \in Frame
    BY <1>1, EmptySeq, LenProperties, ElementOfSeq
  <2>2. e \in Frame
    BY <2>1, FixedPointAssumption, Zenon DEF Frame, MinOf
  <2>3. UpdateMinimums(fs, tracked, links) = [fs EXCEPT ![n] = e]
    BY <1>1 DEF UpdateMinimums
  <2>4. /\ e.goal = fs[n].goal /\ e.depth = fs[n].depth /\ e.dfn = fs[n].dfn
        /\ e.tracked = fs[n].tracked
        /\ e.minimums <= fs[n].minimums /\ e.minimums <= links
    BY <2>1, FixedPointAssumption, SMTT(30) DEF Frame, MinOf
  <2>5. \A d \in 1..Len(fs) : fs[d].minimums \in Int
    BY FrameFacts
  <2> HIDE DEF n, e
  <2>6. /\ [fs EXCEPT ![n] = e] \in Seq(Frame)
        /\ Len([fs EXCEPT ![n] = e]) = Len(fs)
        /\ \A j \in 1..Len(fs) : [fs EXCEPT ![n] = e][j] = IF j = n THEN e ELSE fs[j]
    BY <2>1, <2>2, ExceptSeq
  <2>7. n = Len(fs)
    BY DEF n
  <2> QED
    BY <2>3, <2>4, <2>5, <2>6, <2>7
<1>2. CASE ~(tracked /\ fs # <<>>)
  <2>1. \A d \in 1..Len(fs) : fs[d].minimums \in Int /\ fs # <<>>
    BY FrameFacts, EmptySeq
  <2> QED
    BY <1>2, <2>1 DEF UpdateMinimums
<1> QED
  BY <1>1, <1>2

-----------------------------------------------------------------------------
(***************************************************************************)
(* The structure of stack and search graph.                                *)
(***************************************************************************)

\* The first goal on the stack is the first node.
RootIsFirst == frames # <<>> => frames[1].dfn = 0

Structure ==
  /\ TypeOK
  /\ IndicesMatchNodes
  /\ StackMirrorsCalls
  /\ RetainedAreCyclic
  /\ IdleIsClean
  /\ RootIsFirst

\* What every invariant needs to know about the lengths and the elements.
LEMMA StructureFacts ==
  ASSUME Structure
  PROVE  /\ Len(nodes) \in Nat /\ Len(frames) \in Nat /\ Len(entries) = Len(frames)
         /\ \A d \in 1..Len(frames) :
              /\ frames[d].dfn \in Nat
              /\ frames[d].dfn + 1 \in 1..Len(nodes)
              /\ frames[d].minimums \in Int
         /\ \A i \in 1..Len(nodes) :
              /\ nodes[i].goal \in Goals
              /\ nodes[i].links \in Int
              /\ nodes[i].stack_depth # None =>
                   nodes[i].stack_depth \in Nat /\ nodes[i].stack_depth + 1 \in 1..Len(frames)
<1>1. Len(nodes) \in Nat /\ Len(frames) \in Nat /\ Len(entries) = Len(frames)
  BY LenProperties DEF Structure, TypeOK, StackMirrorsCalls
<1>2. \A d \in 1..Len(frames) : frames[d].dfn \in Nat /\ frames[d].minimums \in Int
  BY FrameFacts DEF Structure, TypeOK
<1>3. \A d \in 1..Len(frames) : frames[d].dfn + 1 \in 1..Len(nodes)
  BY <1>1, <1>2 DEF Structure, StackMirrorsCalls, CallsHaveNodes
<1>4. \A i \in 1..Len(nodes) : /\ nodes[i].goal \in Goals
                               /\ nodes[i].links \in Int
                               /\ nodes[i].stack_depth \in Nat \cup {None}
  BY NodeFacts DEF Structure, TypeOK
<1>5. \A i \in 1..Len(nodes) : nodes[i].stack_depth # None =>
        nodes[i].stack_depth \in Nat /\ nodes[i].stack_depth + 1 \in 1..Len(frames)
  BY <1>1, <1>4 DEF Structure, StackMirrorsCalls, NodesHaveCalls
<1> QED
  BY <1>1, <1>2, <1>3, <1>4, <1>5

\* The top of the stack, in a solver that is solving something.
LEMMA TopFacts ==
  ASSUME Structure, frames # <<>>
  PROVE  /\ Len(frames) \in Nat \ {0}
         /\ Top \in Frame
         /\ Top.depth + 1 = Len(frames)
         /\ Len(entries) = Len(frames)
         /\ Top.dfn \in 0..(Len(nodes) - 1)
         /\ nodes[Top.dfn + 1] \in Node
         /\ nodes[Top.dfn + 1].stack_depth = Len(frames) - 1
         /\ nodes[Top.dfn + 1].goal = Top.goal
         /\ Len(frames) = 1 => Top.dfn = 0
<1>1. Len(frames) \in Nat \ {0}
  BY EmptySeq, LenProperties DEF Structure, TypeOK
<1>2. Top \in Frame
  BY <1>1, ElementOfSeq DEF Structure, TypeOK, Top
<1>3. Len(nodes) \in Nat
  BY LenProperties DEF Structure, TypeOK
<1>4. /\ Top.depth = Len(frames) - 1
      /\ Top.dfn < Len(nodes)
      /\ nodes[Top.dfn + 1].stack_depth = Len(frames) - 1
      /\ nodes[Top.dfn + 1].goal = Top.goal
      /\ Len(entries) = Len(frames)
  BY <1>1 DEF Structure, StackMirrorsCalls, CallsHaveNodes, Top
<1>5. Top.dfn \in 0..(Len(nodes) - 1)
  BY <1>2, <1>3, <1>4 DEF Frame
<1>6. nodes[Top.dfn + 1] \in Node
  BY <1>3, <1>5, ElementOfSeq DEF Structure, TypeOK
<1>7. Len(frames) = 1 => Top.dfn = 0
  BY DEF Structure, RootIsFirst, Top
<1> QED
  BY <1>1, <1>2, <1>4, <1>5, <1>6, <1>7

\* The numbers of the goal on top of the stack.
LEMMA TopNumbers ==
  ASSUME Structure, frames # <<>>
  PROVE  LET t == Len(frames)
         IN  /\ t \in 1..Len(frames) /\ t - 1 \in Nat /\ Len(frames) = (t - 1) + 1
             /\ Top = frames[t] /\ Top \in Frame
             /\ Top.dfn \in Nat /\ Top.dfn + 1 \in 1..Len(nodes)
             /\ Top.minimums \in Int
             /\ Len(nodes) \in Nat
             /\ t = 1 => Top.dfn = 0
             /\ nodes[Top.dfn + 1].stack_depth = t - 1
<1>1. /\ Len(frames) \in Nat \ {0} /\ Top \in Frame /\ Top.dfn \in 0..(Len(nodes) - 1)
      /\ Len(frames) = 1 => Top.dfn = 0
      /\ nodes[Top.dfn + 1].stack_depth = Len(frames) - 1
  BY TopFacts, Zenon
<1>2. Len(nodes) \in Nat
  BY StructureFacts, Zenon
<1>3. Len(frames) \in 1..Len(frames) /\ Len(frames) - 1 \in Nat /\ Len(frames) = (Len(frames) - 1) + 1
  BY <1>1
<1>4. Top.dfn \in Nat /\ Top.dfn + 1 \in 1..Len(nodes)
  BY <1>1, <1>2
<1>5. Top = frames[Len(frames)]
  BY DEF Top
<1>6. Top.minimums \in Int
  BY <1>3, <1>5, StructureFacts, Zenon
<1> QED
  BY <1>1, <1>2, <1>3, <1>4, <1>5, <1>6, Zenon

\* Recording a cycle or a dependency on a goal in the graph.
LEMMA FoundInGraphStructure ==
  ASSUME Structure, NEW g \in Goals, NEW tracked \in BOOLEAN, FoundInGraph(g, tracked)
  PROVE  Structure'
<1> DEFINE node == nodes[indices[g] + 1]
<1>1. /\ indices[g] \in Nat
      /\ node \in Node
  <2>1. indices[g] \in Nat /\ indices[g] + 1 \in 1..Len(nodes)
    <3>1. indices[g] \in Nat \cup {None} /\ indices[g] # None
      BY Zenon DEF FoundInGraph, Structure, TypeOK
    <3>2. indices[g] < Len(nodes)
      BY <3>1, Zenon DEF Structure, IndicesMatchNodes
    <3>3. Len(nodes) \in Nat
      BY LenProperties, SMTT(30) DEF Structure, TypeOK
    <3> QED
      BY <3>1, <3>2, <3>3
  <2> QED
    BY <2>1, ElementOfSeq DEF Structure, TypeOK
<1>2. /\ frames' \in Seq(Frame)
      /\ Len(frames') = Len(frames)
      /\ \A d \in 1..Len(frames) :
           /\ frames'[d].goal = frames[d].goal
           /\ frames'[d].depth = frames[d].depth
           /\ frames'[d].dfn = frames[d].dfn
  <2>1. CASE frames' = frames
    BY <2>1 DEF Structure, TypeOK
  <2>2. CASE frames' = UpdateMinimums(frames, tracked, node.links)
    <3>1. node.links \in 0..MAX
      BY <1>1 DEF Node
    <3> QED
      BY <2>2, <3>1, UpdateMinimumsFacts, SMTT(30) DEF Structure, TypeOK
  <2> QED
    BY <2>1, <2>2 DEF FoundInGraph
<1>3. /\ entries' \in Seq(StackEntry)
      /\ Len(entries') = Len(entries)
      /\ \A d \in 1..Len(entries) :
           entries'[d].coinductive_goal = entries[d].coinductive_goal
  <2>1. CASE ~OnStack(g)
    BY <2>1 DEF FoundInGraph, Structure, TypeOK
  <2>2. CASE OnStack(g)
    <3> DEFINE k == node.stack_depth + 1
               e == [entries[k] EXCEPT !.cycle = TRUE]
    <3>1. k \in 1..Len(entries)
      <4>1. indices[g] + 1 \in 1..Len(nodes)
        BY <1>1, LenProperties DEF FoundInGraph, Structure, TypeOK, IndicesMatchNodes
      <4>2. node.stack_depth \in Nat /\ node.stack_depth < Len(frames)
        BY <1>1, <2>2, <4>1 DEF OnStack, Structure, StackMirrorsCalls, NodesHaveCalls, Node
      <4> QED
        BY <4>2, LenProperties DEF Structure, StackMirrorsCalls, TypeOK
    <3>2. entries[k] \in StackEntry
      BY <3>1, ElementOfSeq DEF Structure, TypeOK
    <3>3. e \in StackEntry /\ e.coinductive_goal = entries[k].coinductive_goal
      BY <3>2, Zenon DEF StackEntry
    <3>4. entries' = [entries EXCEPT ![k] = e]
      BY <2>2 DEF FoundInGraph
    <3> HIDE DEF k, e
    <3>5. entries \in Seq(StackEntry)
      BY DEF Structure, TypeOK
    <3>6. /\ [entries EXCEPT ![k] = e] \in Seq(StackEntry)
          /\ Len([entries EXCEPT ![k] = e]) = Len(entries)
          /\ \A j \in 1..Len(entries) :
               [entries EXCEPT ![k] = e][j] = IF j = k THEN e ELSE entries[j]
      BY <3>1, <3>3, <3>5, ExceptSeq
    <3> QED
      BY <3>3, <3>4, <3>6
  <2> QED
    BY <2>1, <2>2
<1>4. UNCHANGED <<indices, nodes, cache, panic>>
  BY DEF FoundInGraph
<1>5. TypeOK'
  BY <1>2, <1>3, <1>4 DEF Structure, TypeOK
<1>6. IndicesMatchNodes' /\ RetainedAreCyclic'
  BY <1>4 DEF Structure, IndicesMatchNodes, RetainedAreCyclic
<1>7. StackMirrorsCalls'
  <2>1. Len(entries) = Len(frames) /\ Len(frames) \in Nat
    BY LenProperties DEF Structure, StackMirrorsCalls, TypeOK
  <2>2. CallsHaveNodes' /\ NumbersGrow' /\ NodesHaveCalls'
    <3>2. CallsHaveNodes' /\ NumbersGrow'
      <4>1. CallsHaveNodes /\ NumbersGrow
        BY Zenon DEF Structure, StackMirrorsCalls
      <4>2. CallsHaveNodes'
        BY <1>2, <1>4, <4>1, Zenon DEF CallsHaveNodes
      <4>3. NumbersGrow'
        BY <1>2, <4>1, Zenon DEF NumbersGrow
      <4> QED
        BY <4>2, <4>3
    <3>3. NodesHaveCalls'
      <4> SUFFICES ASSUME NEW i \in 1..Len(nodes), nodes[i].stack_depth # None
                   PROVE  /\ nodes[i].stack_depth < Len(frames)
                          /\ frames'[nodes[i].stack_depth + 1].dfn = i - 1
        BY <1>2, <1>4, Zenon DEF NodesHaveCalls
      <4>1. /\ nodes[i].stack_depth < Len(frames)
            /\ frames[nodes[i].stack_depth + 1].dfn = i - 1
        BY Zenon DEF Structure, StackMirrorsCalls, NodesHaveCalls
      <4>2. nodes[i].stack_depth + 1 \in 1..Len(frames)
        BY StructureFacts, Zenon
      <4> QED
        BY <1>2, <4>1, <4>2, Zenon
    <3> QED
      BY <3>2, <3>3
  <2>3. EntriesMatchCalls'
    BY <1>2, <1>3, <2>1, Zenon DEF Structure, StackMirrorsCalls, EntriesMatchCalls
  <2> QED
    BY <1>2, <1>3, <2>1, <2>2, <2>3 DEF StackMirrorsCalls
<1>8. IdleIsClean' /\ RootIsFirst'
  <2>1. (frames' = <<>> <=> frames = <<>>) /\ (entries' = <<>> <=> entries = <<>>)
    BY <1>2, <1>3, EmptySeq DEF Structure, TypeOK
  <2>2. frames # <<>> => 1 \in 1..Len(frames)
    BY EmptySeq, LenProperties DEF Structure, TypeOK
  <2> QED
    BY <1>2, <1>4, <2>1, <2>2 DEF Structure, IdleIsClean, RootIsFirst
<1> QED
  BY <1>5, <1>6, <1>7, <1>8 DEF Structure

\* Stack::push and SearchGraph::insert.
LEMMA PushNewGoalStructure ==
  ASSUME Structure, NEW g \in Goals, NEW tracked \in BOOLEAN, PushNewGoal(g, tracked)
  PROVE  Structure'
<1> USE FixedPointAssumption
<1>1. CASE Len(entries) >= OverflowDepth
  <2>1. UNCHANGED <<entries, indices, nodes, cache, frames>> /\ panic' \in Panics
    BY <1>1 DEF PushNewGoal, Panics
  <2> QED
    BY <2>1, Zenon DEF Structure, TypeOK, IndicesMatchNodes, StackMirrorsCalls, EntriesMatchCalls,
      CallsHaveNodes, NumbersGrow, NodesHaveCalls, RetainedAreCyclic, IdleIsClean, RootIsFirst
<1>2. CASE ~(Len(entries) >= OverflowDepth)
  <2> DEFINE entry == [coinductive_goal |-> g \in Coinductive, cycle |-> FALSE]
             node == [goal |-> g, solution |-> initial_value(g),
                      stack_depth |-> Len(entries), links |-> Len(nodes)]
             frame == [goal |-> g, depth |-> Len(entries), dfn |-> Len(nodes),
                       minimums |-> MAX, tracked |-> tracked]
  <2>1. /\ entries' = Append(entries, entry)
        /\ nodes' = Append(nodes, node)
        /\ indices' = [indices EXCEPT ![g] = Len(nodes)]
        /\ frames' = Append(frames, frame)
        /\ UNCHANGED <<cache, panic>>
        /\ indices[g] = None
        /\ Len(nodes) < MAX
    BY <1>2, Zenon DEF PushNewGoal
  <2>2. Len(nodes) \in Nat /\ Len(entries) \in Nat /\ Len(frames) = Len(entries)
    BY LenProperties DEF Structure, TypeOK, StackMirrorsCalls
  <2>3. entry \in StackEntry
    BY DEF StackEntry
  <2>4. node \in Node
    BY <2>1, <2>2 DEF Node, initial_value, Solutions
  <2>5. frame \in Frame
    BY <2>2 DEF Frame
  <2>6. entry.coinductive_goal = (g \in Coinductive)
    OBVIOUS
  <2>7. /\ node.goal = g /\ node.stack_depth = Len(entries) /\ node.links = Len(nodes)
        /\ frame.goal = g /\ frame.depth = Len(entries) /\ frame.dfn = Len(nodes)
    OBVIOUS
  <2> HIDE DEF entry, node, frame
  <2>8. /\ entries' \in Seq(StackEntry)
        /\ Len(entries') = Len(entries) + 1
        /\ \A i \in 1..Len(entries) : entries'[i] = entries[i]
        /\ entries'[Len(entries) + 1] = entry
    BY <2>1, <2>3, AppendProperties DEF Structure, TypeOK
  <2>9. /\ nodes' \in Seq(Node)
        /\ Len(nodes') = Len(nodes) + 1
        /\ \A i \in 1..Len(nodes) : nodes'[i] = nodes[i]
        /\ nodes'[Len(nodes) + 1] = node
    BY <2>1, <2>4, AppendProperties DEF Structure, TypeOK
  <2>10. /\ frames' \in Seq(Frame)
         /\ Len(frames') = Len(frames) + 1
         /\ \A i \in 1..Len(frames) : frames'[i] = frames[i]
         /\ frames'[Len(frames) + 1] = frame
         /\ frames' # <<>>
    BY <2>1, <2>5, AppendProperties, SMTT(30) DEF Structure, TypeOK
  <2>11. \A d \in 1..Len(frames) : frames[d].dfn \in Nat
    BY FrameFacts DEF Structure, TypeOK
  <2>12. \A i \in 1..Len(nodes) : /\ nodes[i].stack_depth \in Nat \cup {None}
                                  /\ nodes[i].goal \in Goals
    BY NodeFacts DEF Structure, TypeOK
  <2>13. TypeOK'
    BY <2>1, <2>2, <2>8, <2>9, <2>10 DEF Structure, TypeOK
  <2>14. IndicesMatchNodes'
    <3>1. \A i \in 1..Len(nodes) : nodes[i].goal # g
      BY <2>1, <2>2, SMTT(30) DEF Structure, IndicesMatchNodes, None
    <3>2. /\ indices'[g] = Len(nodes)
          /\ \A h \in Goals : h # g => indices'[h] = indices[h]
          /\ \A h \in Goals : indices[h] \in Nat \cup {None}
      BY <2>1 DEF Structure, TypeOK
    <3>3. \A h \in Goals : indices'[h] # None =>
            indices'[h] < Len(nodes') /\ nodes'[indices'[h] + 1].goal = h
      <4> SUFFICES ASSUME NEW h \in Goals, indices'[h] # None
                   PROVE  indices'[h] < Len(nodes') /\ nodes'[indices'[h] + 1].goal = h
        OBVIOUS
      <4>1. CASE h = g
        BY <2>2, <2>7, <2>9, <3>2, <4>1, SMTT(30)
      <4>2. CASE h # g
        <5>1. indices[h] < Len(nodes) /\ nodes[indices[h] + 1].goal = h
          BY <3>2, <4>2 DEF Structure, IndicesMatchNodes
        <5>2. indices[h] \in Nat /\ indices[h] + 1 \in 1..Len(nodes)
          BY <2>2, <3>2, <4>2, <5>1
        <5> QED
          BY <2>2, <2>9, <3>2, <4>2, <5>1, <5>2
      <4> QED
        BY <4>1, <4>2
    <3>4. \A i \in 1..Len(nodes') : indices'[nodes'[i].goal] = i - 1
      <4> SUFFICES ASSUME NEW i \in 1..Len(nodes')
                   PROVE  indices'[nodes'[i].goal] = i - 1
        OBVIOUS
      <4>1. CASE i \in 1..Len(nodes)
        BY <2>9, <2>12, <3>1, <3>2, <4>1 DEF Structure, IndicesMatchNodes
      <4>2. CASE i = Len(nodes) + 1
        BY <2>2, <2>7, <2>9, <3>2, <4>2
      <4> QED
        BY <2>2, <2>9, <4>1, <4>2
    <3> QED
      BY <3>3, <3>4 DEF IndicesMatchNodes
  <2>15. StackMirrorsCalls'
    <3>1. EntriesMatchCalls'
      <4> SUFFICES ASSUME NEW d \in 1..Len(frames')
                   PROVE  entries'[d].coinductive_goal = (frames'[d].goal \in Coinductive)
        BY Zenon DEF EntriesMatchCalls
      <4>1. CASE d \in 1..Len(frames)
        <5>1. d \in 1..Len(entries)
          BY <2>2, <4>1
        <5> QED
          BY <2>8, <2>10, <4>1, <5>1, Zenon
          DEF Structure, StackMirrorsCalls, EntriesMatchCalls
      <4>2. CASE d = Len(frames) + 1
        BY <2>2, <2>6, <2>7, <2>8, <2>10, <4>2, Zenon
      <4> QED
        BY <2>2, <2>10, <4>1, <4>2
    <3>2. CallsHaveNodes'
      <4> SUFFICES ASSUME NEW d \in 1..Len(frames')
                   PROVE  /\ frames'[d].depth = d - 1
                          /\ frames'[d].dfn < Len(nodes')
                          /\ nodes'[frames'[d].dfn + 1].goal = frames'[d].goal
                          /\ nodes'[frames'[d].dfn + 1].stack_depth = d - 1
                          /\ nodes'[frames'[d].dfn + 1].links = frames'[d].dfn
        BY DEF CallsHaveNodes
      <4>1. CASE d \in 1..Len(frames)
        <5>1. frames[d].dfn + 1 \in 1..Len(nodes)
          BY <2>2, <2>11, <4>1 DEF Structure, StackMirrorsCalls, CallsHaveNodes
        <5>2. /\ frames'[d] = frames[d]
              /\ nodes'[frames[d].dfn + 1] = nodes[frames[d].dfn + 1]
              /\ Len(nodes') = Len(nodes) + 1
          BY <2>9, <2>10, <4>1, <5>1
        <5>3. /\ frames[d].depth = d - 1
              /\ frames[d].dfn \in Nat /\ frames[d].dfn < Len(nodes)
              /\ nodes[frames[d].dfn + 1].goal = frames[d].goal
              /\ nodes[frames[d].dfn + 1].stack_depth = d - 1
              /\ nodes[frames[d].dfn + 1].links = frames[d].dfn
          BY <2>11, <4>1 DEF Structure, StackMirrorsCalls, CallsHaveNodes
        <5>4. frames[d].dfn < Len(nodes')
          BY <2>2, <5>2, <5>3
        <5> QED
          BY <5>2, <5>3, <5>4, Zenon
      <4>2. CASE d = Len(frames) + 1
        <5>1. d - 1 = Len(entries) /\ Len(nodes) < Len(nodes')
          BY <2>2, <2>9, <4>2
        <5>2. frames'[d] = frame /\ nodes'[frame.dfn + 1] = node
          BY <2>7, <2>9, <2>10, <4>2, Zenon
        <5> QED
          BY <2>7, <5>1, <5>2, Zenon
      <4> QED
        BY <2>2, <2>10, <4>1, <4>2
    <3>3. NumbersGrow'
      <4> SUFFICES ASSUME NEW d \in 1..Len(frames'), NEW e \in 1..Len(frames'), d < e
                   PROVE  frames'[d].dfn < frames'[e].dfn
        BY DEF NumbersGrow
      <4>1. d \in 1..Len(frames) /\ frames'[d] = frames[d]
        BY <2>2, <2>10
      <4>2. CASE e \in 1..Len(frames)
        BY <2>10, <4>1, <4>2 DEF Structure, StackMirrorsCalls, NumbersGrow
      <4>3. CASE e = Len(frames) + 1
        BY <2>2, <2>7, <2>10, <4>1, <4>3 DEF Structure, StackMirrorsCalls, CallsHaveNodes
      <4> QED
        BY <2>2, <2>10, <4>2, <4>3
    <3>4. NodesHaveCalls'
      <4> SUFFICES ASSUME NEW i \in 1..Len(nodes'), nodes'[i].stack_depth # None
                   PROVE  /\ nodes'[i].stack_depth < Len(frames')
                          /\ frames'[nodes'[i].stack_depth + 1].dfn = i - 1
        BY DEF NodesHaveCalls
      <4>1. CASE i \in 1..Len(nodes)
        <5>1. /\ nodes[i].stack_depth < Len(frames)
              /\ frames[nodes[i].stack_depth + 1].dfn = i - 1
          BY <2>9, <4>1 DEF Structure, StackMirrorsCalls, NodesHaveCalls
        <5>2. nodes[i].stack_depth \in Nat
          BY <2>9, <2>12, <4>1
        <5>3. nodes[i].stack_depth + 1 \in 1..Len(frames)
          BY <2>2, <5>1, <5>2, SMTT(30)
        <5>4. /\ nodes'[i] = nodes[i]
              /\ frames'[nodes[i].stack_depth + 1] = frames[nodes[i].stack_depth + 1]
              /\ Len(frames') = Len(frames) + 1
          BY <2>9, <2>10, <4>1, <5>3
        <5> QED
          BY <2>2, <5>1, <5>2, <5>4
      <4>2. CASE i = Len(nodes) + 1
        BY <2>2, <2>7, <2>9, <2>10, <4>2
      <4> QED
        BY <2>2, <2>9, <4>1, <4>2
    <3>5. Len(entries') = Len(frames')
      BY <2>2, <2>8, <2>10
    <3> QED
      BY <3>1, <3>2, <3>3, <3>4, <3>5 DEF StackMirrorsCalls
  <2>16. RetainedAreCyclic'
    <3> SUFFICES ASSUME NEW i \in 1..Len(nodes'), nodes'[i].stack_depth = None
                 PROVE  nodes'[i].links < i - 1
      BY Zenon DEF RetainedAreCyclic
    <3>1. i # Len(nodes) + 1
      BY <2>2, <2>7, <2>9 DEF None
    <3>2. i \in 1..Len(nodes)
      BY <2>2, <2>9, <3>1
    <3> QED
      BY <2>9, <3>2, Zenon DEF Structure, RetainedAreCyclic
  <2>17. IdleIsClean'
    BY <2>10 DEF IdleIsClean
  <2>18. RootIsFirst'
    <3>1. CASE frames = <<>>
      BY <2>2, <2>7, <2>10, <3>1 DEF RootIsFirst, Structure, IdleIsClean
    <3>2. CASE frames # <<>>
      <4>1. 1 \in 1..Len(frames)
        BY <3>2, EmptySeq, LenProperties DEF Structure, TypeOK
      <4> QED
        BY <2>10, <3>2, <4>1 DEF RootIsFirst, Structure
    <3> QED
      BY <3>1, <3>2
  <2> QED
    BY <2>13, <2>14, <2>15, <2>16, <2>17, <2>18 DEF Structure
<1> QED
  BY <1>1, <1>2

\* The map ind of a search graph and its vector ns are in step.
Matches(ind, ns) ==
  /\ \A g \in Goals : ind[g] # None => ind[g] < Len(ns) /\ ns[ind[g] + 1].goal = g
  /\ \A i \in 1..Len(ns) : ind[ns[i].goal] = i - 1

\* SearchGraph::rollback_to keeps the map and the vector in step.
LEMMA RollbackMatches ==
  ASSUME NEW ind \in [Goals -> Nat \cup {None}], NEW ns \in Seq(Node),
         NEW n \in 0..Len(ns), Matches(ind, ns)
  PROVE  /\ RetainBelow(ind, n) \in [Goals -> Nat \cup {None}]
         /\ Matches(RetainBelow(ind, n), Truncate(ns, n))
<1> DEFINE ind1 == RetainBelow(ind, n)
           ns1 == Truncate(ns, n)
<1>1. ns1 \in Seq(Node) /\ Len(ns1) = n /\ \A j \in 1..n : ns1[j] = ns[j]
  BY Shorten DEF Truncate
<1>2. /\ ind1 \in [Goals -> Nat \cup {None}]
      /\ \A g \in Goals : ind1[g] = IF ind[g] < n THEN ind[g] ELSE None
  BY DEF RetainBelow
<1>3. Len(ns) \in Nat /\ \A i \in 1..Len(ns) : ns[i].goal \in Goals
  BY NodeFacts, LenProperties
<1> HIDE DEF ind1, ns1
<1>4. ASSUME NEW g \in Goals, ind1[g] # None
      PROVE  ind1[g] < Len(ns1) /\ ns1[ind1[g] + 1].goal = g
  <2>1. ind[g] < n /\ ind1[g] = ind[g] /\ ind[g] \in Nat
    BY <1>2, <1>4
  <2>2. ind[g] + 1 \in 1..n
    BY <1>3, <2>1
  <2> QED
    BY <1>1, <1>3, <2>1, <2>2 DEF Matches, None
<1>5. ASSUME NEW i \in 1..Len(ns1)
      PROVE  ind1[ns1[i].goal] = i - 1
  <2>1. i \in 1..Len(ns) /\ ns1[i] = ns[i] /\ i - 1 < n
    BY <1>1, <1>3
  <2> QED
    BY <1>2, <1>3, <2>1 DEF Matches
<1> QED
  BY <1>2, <1>4, <1>5 DEF Matches, ind1, ns1

\* The nodes between two rounds: the goal's own node has its new answer, and it
\* is the last one.
LEMMA NextRoundNodes ==
  ASSUME Structure, frames # <<>>, NEW v \in Solutions,
         NEW ns, ns = [nodes EXCEPT ![Top.dfn + 1].solution = v]
  PROVE  /\ ns \in Seq(Node)
         /\ Len(ns) = Len(nodes)
         /\ \A i \in 1..Len(nodes) : /\ ns[i].goal = nodes[i].goal
                                     /\ ns[i].stack_depth = nodes[i].stack_depth
                                     /\ ns[i].links = nodes[i].links
<1> DEFINE k == Top.dfn + 1
           e == [nodes[k] EXCEPT !.solution = v]
<1>1. k \in 1..Len(nodes) /\ nodes[k] \in Node
  BY TopFacts
<1>2. /\ e \in Node /\ e.goal = nodes[k].goal
      /\ e.stack_depth = nodes[k].stack_depth /\ e.links = nodes[k].links
  BY <1>1 DEF Node
<1>3. ns = [nodes EXCEPT ![k] = e]
  OBVIOUS
<1>4. nodes \in Seq(Node)
  BY DEF Structure, TypeOK
<1> HIDE DEF k, e
<1>5. /\ [nodes EXCEPT ![k] = e] \in Seq(Node)
      /\ Len([nodes EXCEPT ![k] = e]) = Len(nodes)
      /\ \A j \in 1..Len(nodes) : [nodes EXCEPT ![k] = e][j] = IF j = k THEN e ELSE nodes[j]
  BY <1>1, <1>2, <1>4, ExceptSeq
<1> QED
  BY <1>2, <1>3, <1>5, Zenon

\* Another round of solve_new_subgoal.
LEMMA NextRoundStructure ==
  ASSUME Structure, frames # <<>>, NEW v \in Solutions, NextRound(v)
  PROVE  Structure'
<1> DEFINE n == Top.dfn + 1
           ns == [nodes EXCEPT ![Top.dfn + 1].solution = v]
           top == Len(frames)
<1>1. /\ top \in Nat \ {0} /\ Top \in Frame /\ Top.depth + 1 = Len(entries)
      /\ n \in 1..Len(nodes) /\ Top = frames[top]
      /\ nodes[n].stack_depth # None
  BY TopFacts, SMTT(30) DEF Top, None
<1>2. /\ ns \in Seq(Node) /\ Len(ns) = Len(nodes)
      /\ \A i \in 1..Len(nodes) : /\ ns[i].goal = nodes[i].goal
                                  /\ ns[i].stack_depth = nodes[i].stack_depth
                                  /\ ns[i].links = nodes[i].links
  BY NextRoundNodes, Zenon
<1>3. /\ nodes' = Truncate(ns, n)
      /\ indices' = RetainBelow(indices, n)
      /\ UNCHANGED <<cache, panic>>
  BY DEF NextRound
<1> HIDE DEF ns
<1>4. /\ nodes' \in Seq(Node) /\ Len(nodes') = n
      /\ \A i \in 1..n : /\ i \in 1..Len(nodes)
                         /\ nodes'[i].goal = nodes[i].goal
                         /\ nodes'[i].stack_depth = nodes[i].stack_depth
                         /\ nodes'[i].links = nodes[i].links
  <2>1. Len(nodes) \in Nat /\ n \in 0..Len(ns)
    BY <1>1, <1>2, StructureFacts
  <2>2. /\ nodes' \in Seq(Node) /\ Len(nodes') = n
        /\ \A i \in 1..n : nodes'[i] = ns[i]
    BY <1>2, <1>3, <2>1, Shorten DEF Truncate
  <2>3. \A i \in 1..n : i \in 1..Len(nodes)
    BY <1>1, <2>1
  <2> QED
    BY <1>2, <2>2, <2>3
<1>5. /\ frames' \in Seq(Frame) /\ Len(frames') = Len(frames)
      /\ \A d \in 1..Len(frames) : /\ frames'[d].goal = frames[d].goal
                                   /\ frames'[d].depth = frames[d].depth
                                   /\ frames'[d].dfn = frames[d].dfn
  <2> DEFINE f == [frames[top] EXCEPT !.minimums = MAX]
  <2>1. /\ f \in Frame /\ f.goal = frames[top].goal /\ f.depth = frames[top].depth
        /\ f.dfn = frames[top].dfn
    <3>1. frames[top] \in Frame /\ MAX \in 0..MAX
      BY <1>1, FixedPointAssumption
    <3> HIDE DEF top
    <3> QED
      BY <3>1, Zenon DEF Frame
  <2>2. frames' = [frames EXCEPT ![top] = f]
    BY DEF NextRound
  <2>3. frames \in Seq(Frame) /\ top \in 1..Len(frames)
    BY <1>1 DEF Structure, TypeOK
  <2> HIDE DEF f, top
  <2>4. /\ [frames EXCEPT ![top] = f] \in Seq(Frame)
        /\ Len([frames EXCEPT ![top] = f]) = Len(frames)
        /\ \A j \in 1..Len(frames) :
             [frames EXCEPT ![top] = f][j] = IF j = top THEN f ELSE frames[j]
    BY <2>1, <2>3, ExceptSeq
  <2> QED
    BY <2>1, <2>2, <2>4
<1>6. /\ entries' \in Seq(StackEntry) /\ Len(entries') = Len(entries)
      /\ \A d \in 1..Len(entries) :
           entries'[d].coinductive_goal = entries[d].coinductive_goal
  <2> DEFINE k == Top.depth + 1
             e == [entries[k] EXCEPT !.cycle = FALSE]
  <2>1. k \in 1..Len(entries)
    BY <1>1, StructureFacts
  <2>2. entries \in Seq(StackEntry) /\ entries[k] \in StackEntry
    BY <2>1, ElementOfSeq DEF Structure, TypeOK
  <2>3. e \in StackEntry /\ e.coinductive_goal = entries[k].coinductive_goal
    BY <2>2, Zenon DEF StackEntry
  <2>4. entries' = [entries EXCEPT ![k] = e]
    BY DEF NextRound
  <2> HIDE DEF k, e
  <2>5. /\ [entries EXCEPT ![k] = e] \in Seq(StackEntry)
        /\ Len([entries EXCEPT ![k] = e]) = Len(entries)
        /\ \A j \in 1..Len(entries) :
             [entries EXCEPT ![k] = e][j] = IF j = k THEN e ELSE entries[j]
    BY <2>1, <2>2, <2>3, ExceptSeq
  <2> QED
    BY <2>3, <2>4, <2>5
<1>7. indices' \in [Goals -> Nat \cup {None}] /\ IndicesMatchNodes'
  <2>1. Matches(indices, ns)
    <3>1. ASSUME NEW g \in Goals, indices[g] # None
          PROVE  indices[g] < Len(ns) /\ ns[indices[g] + 1].goal = g
      <4>1. indices[g] < Len(nodes) /\ nodes[indices[g] + 1].goal = g
        BY <3>1 DEF Structure, IndicesMatchNodes
      <4>2. indices[g] + 1 \in 1..Len(nodes)
        BY <3>1, <4>1, StructureFacts DEF Structure, TypeOK
      <4> QED
        BY <1>2, <4>1, <4>2
    <3>2. \A i \in 1..Len(ns) : indices[ns[i].goal] = i - 1
      BY <1>2 DEF Structure, IndicesMatchNodes
    <3> QED
      BY <3>1, <3>2 DEF Matches
  <2>2. n \in 0..Len(ns)
    BY <1>1, <1>2, StructureFacts
  <2>3. indices' \in [Goals -> Nat \cup {None}] /\ Matches(indices', nodes')
    BY <1>2, <1>3, <2>1, <2>2, RollbackMatches, Zenon DEF Structure, TypeOK
  <2> QED
    BY <2>3 DEF Matches, IndicesMatchNodes
<1>8. TypeOK'
  BY <1>3, <1>4, <1>5, <1>6, <1>7 DEF Structure, TypeOK
<1>9. StackMirrorsCalls'
  <2>1. \A d \in 1..Len(frames) : frames[d].dfn \in Nat /\ frames[d].dfn + 1 \in 1..n
    <3>1. top \in 1..Len(frames)
      BY <1>1
    <3>2. \A d \in 1..Len(frames) : frames[d].dfn \in Nat
      BY StructureFacts
    <3>3. \A d \in 1..Len(frames) : d < top => frames[d].dfn < frames[top].dfn
      BY <3>1 DEF Structure, StackMirrorsCalls, NumbersGrow
    <3>4. \A d \in 1..Len(frames) : frames[d].dfn <= frames[top].dfn
      BY <1>1, <3>1, <3>2, <3>3, SMTT(30)
    <3> QED
      BY <1>1, <3>1, <3>2, <3>4, SMTT(30)
  <2>2. EntriesMatchCalls'
    <3>1. Len(entries) = Len(frames)
      BY StructureFacts
    <3> QED
      BY <1>5, <1>6, <3>1, Zenon DEF Structure, StackMirrorsCalls, EntriesMatchCalls
  <2>3. CallsHaveNodes'
    <3> SUFFICES ASSUME NEW d \in 1..Len(frames)
                 PROVE  /\ frames[d].depth = d - 1
                        /\ frames[d].dfn < n
                        /\ nodes'[frames[d].dfn + 1].goal = frames[d].goal
                        /\ nodes'[frames[d].dfn + 1].stack_depth = d - 1
                        /\ nodes'[frames[d].dfn + 1].links = frames[d].dfn
      BY <1>4, <1>5, ZenonT(30) DEF CallsHaveNodes
    <3>1. frames[d].dfn < n
      BY <1>1, <2>1
    <3> QED
      BY <1>4, <2>1, <3>1, Zenon DEF Structure, StackMirrorsCalls, CallsHaveNodes
  <2>4. NumbersGrow'
    BY <1>5 DEF Structure, StackMirrorsCalls, NumbersGrow
  <2>5. NodesHaveCalls'
    <3> SUFFICES ASSUME NEW i \in 1..n, nodes[i].stack_depth # None
                 PROVE  /\ nodes[i].stack_depth < Len(frames')
                        /\ frames'[nodes[i].stack_depth + 1].dfn = i - 1
      BY <1>4, Zenon DEF NodesHaveCalls
    <3>1. i \in 1..Len(nodes)
      BY <1>4
    <3>2. nodes[i].stack_depth + 1 \in 1..Len(frames)
      BY <3>1, StructureFacts
    <3> QED
      BY <1>5, <3>1, <3>2 DEF Structure, StackMirrorsCalls, NodesHaveCalls
  <2> QED
    BY <1>5, <1>6, <2>2, <2>3, <2>4, <2>5, StructureFacts DEF StackMirrorsCalls
<1>10. RetainedAreCyclic'
  BY <1>4 DEF Structure, RetainedAreCyclic
<1>11. IdleIsClean' /\ RootIsFirst'
  <2>1. frames' # <<>> /\ 1 \in 1..Len(frames)
    BY <1>1, <1>5, EmptySeq
  <2> QED
    BY <1>5, <2>1 DEF Structure, IdleIsClean, RootIsFirst
<1> QED
  BY <1>7, <1>8, <1>9, <1>10, <1>11 DEF Structure

\* The nodes when the goal on top of the stack is finished.
LEMMA FinishedNodes ==
  ASSUME Structure, frames # <<>>, NEW v \in Solutions
  PROVE  /\ Finished(v) \in Seq(Node)
         /\ Len(Finished(v)) = Len(nodes)
         /\ \A i \in 1..Len(nodes) :
              /\ Finished(v)[i].goal = nodes[i].goal
              /\ i # Top.dfn + 1 => Finished(v)[i] = nodes[i]
         /\ Finished(v)[Top.dfn + 1].stack_depth = None
         /\ Finished(v)[Top.dfn + 1].links = Top.minimums
<1> DEFINE k == Top.dfn + 1
           e == [nodes[k] EXCEPT !.solution = v, !.links = Top.minimums, !.stack_depth = None]
<1>1. k \in 1..Len(nodes) /\ nodes[k] \in Node /\ Top \in Frame
  BY TopFacts
<1>2. e \in Node /\ e.goal = nodes[k].goal /\ e.stack_depth = None /\ e.links = Top.minimums
  BY <1>1, Zenon DEF Node, Frame
<1>3. Finished(v) = [nodes EXCEPT ![k] = e]
  BY DEF Finished
<1>4. nodes \in Seq(Node)
  BY DEF Structure, TypeOK
<1> HIDE DEF e
<1>5. /\ [nodes EXCEPT ![k] = e] \in Seq(Node)
      /\ Len([nodes EXCEPT ![k] = e]) = Len(nodes)
      /\ \A j \in 1..Len(nodes) : [nodes EXCEPT ![k] = e][j] = IF j = k THEN e ELSE nodes[j]
  BY <1>1, <1>2, <1>4, ExceptSeq
<1> QED
  BY <1>1, <1>2, <1>3, <1>5

\* What move_to_cache leaves in the cache are answers.
LEMMA MoveToCacheType ==
  ASSUME Structure, frames # <<>>, NEW v \in Solutions
  PROVE  MoveToCache(v) \in [Goals -> Solutions \cup {Absent}]
<1> DEFINE ns == Finished(v)
           I == {i \in (Top.dfn + 1)..Len(nodes) : \A j \in Unmovable(v) : i < j}
<1>1. /\ Len(nodes) \in Nat /\ Top.dfn \in Nat
      /\ \A i \in 1..Len(nodes) : ns[i].solution \in Solutions
  BY TopFacts, StructureFacts, FinishedNodes, NodeFacts
<1>2. \A i \in I : ns[i].solution \in Solutions
  BY <1>1
<1> HIDE DEF ns, I
<1>3. ASSUME NEW g \in Goals, \E i \in I : ns[i].goal = g
      PROVE  ns[CHOOSE i \in I : ns[i].goal = g].solution \in Solutions
  <2>1. (CHOOSE i \in I : ns[i].goal = g) \in I
    BY <1>3
  <2> QED
    BY <1>2, <2>1
<1>4. cache \in [Goals -> Solutions \cup {Absent}]
  BY DEF Structure, TypeOK
<1>5. CacheAll(cache, ns, I) \in [Goals -> Solutions \cup {Absent}]
  BY <1>3, <1>4, Zenon DEF CacheAll
<1> QED
  BY <1>5 DEF MoveToCache, ns, I

\* The calls below the one that returns, with the minimums of the caller updated.
LEMMA ReturnFacts ==
  ASSUME Structure, frames # <<>>
  PROVE  LET below == UpdateMinimums(Pop(frames), Top.tracked, Top.minimums)
             m == Len(frames) - 1
         IN  /\ m \in Nat
             /\ below \in Seq(Frame) /\ Len(below) = m
             /\ \A d \in 1..m : /\ d \in 1..Len(frames)
                                /\ below[d].goal = frames[d].goal
                                /\ below[d].depth = frames[d].depth
                                /\ below[d].dfn = frames[d].dfn
                                /\ below[d].tracked = frames[d].tracked
                                /\ below[d].minimums <= frames[d].minimums
                                /\ d < m => below[d].minimums = frames[d].minimums
                                /\ d = m /\ Top.tracked => below[d].minimums <= Top.minimums
             /\ Pop(entries) \in Seq(StackEntry) /\ Len(Pop(entries)) = m
             /\ \A d \in 1..m : Pop(entries)[d] = entries[d]
<1> DEFINE m == Len(frames) - 1
<1>1. m \in Nat /\ m \in 0..Len(frames) /\ Len(entries) = Len(frames) /\ Top \in Frame
  BY TopFacts
<1>2. frames \in Seq(Frame) /\ entries \in Seq(StackEntry)
  BY DEF Structure, TypeOK
<1>3. /\ Pop(frames) \in Seq(Frame) /\ Len(Pop(frames)) = m
      /\ \A d \in 1..m : Pop(frames)[d] = frames[d]
  BY <1>1, <1>2, Shorten DEF Pop
<1>4. /\ Pop(entries) \in Seq(StackEntry) /\ Len(Pop(entries)) = m
      /\ \A d \in 1..m : Pop(entries)[d] = entries[d]
  BY <1>1, <1>2, Shorten DEF Pop
<1>5. Top.tracked \in BOOLEAN /\ Top.minimums \in 0..MAX
  BY <1>1 DEF Frame
<1>6. \A d \in 1..m : d \in 1..Len(frames)
  BY <1>1, SMTT(30)
<1> DEFINE fs == Pop(frames)
           below == UpdateMinimums(fs, Top.tracked, Top.minimums)
<1> HIDE DEF fs, m
<1>7. /\ below \in Seq(Frame)
      /\ Len(below) = Len(fs)
      /\ \A d \in 1..Len(fs) :
           /\ below[d].goal = fs[d].goal
           /\ below[d].depth = fs[d].depth
           /\ below[d].dfn = fs[d].dfn
           /\ below[d].tracked = fs[d].tracked
           /\ below[d].minimums <= fs[d].minimums
           /\ d < Len(fs) => below[d].minimums = fs[d].minimums
           /\ d = Len(fs) /\ Top.tracked => below[d].minimums <= Top.minimums
  BY <1>3, <1>5, UpdateMinimumsFacts, ZenonT(30) DEF fs
<1> HIDE DEF below
<1>8. /\ below \in Seq(Frame) /\ Len(below) = m
      /\ \A d \in 1..m : /\ below[d].goal = frames[d].goal
                         /\ below[d].depth = frames[d].depth
                         /\ below[d].dfn = frames[d].dfn
                         /\ below[d].tracked = frames[d].tracked
                         /\ below[d].minimums <= frames[d].minimums
                         /\ d < m => below[d].minimums = frames[d].minimums
                         /\ d = m /\ Top.tracked => below[d].minimums <= Top.minimums
  BY <1>3, <1>7 DEF fs
<1> QED
  BY <1>1, <1>4, <1>6, <1>8, Zenon DEF fs, m, below

\* A goal is finished, with or without its results being promoted.
LEMMA GoalDoneStructure ==
  ASSUME Structure, frames # <<>>, NEW v \in Solutions, GoalDone(v)
  PROVE  Structure'
<1>1. panic' \in Panics /\ cache' \in [Goals -> Solutions \cup {Absent}]
  <2>1. cache \in [Goals -> Solutions \cup {Absent}]
    BY DEF Structure, TypeOK
  <2>2. FinishPanic(v) \in Panics
    BY Zenon DEF FinishPanic, Panics
  <2> QED
    BY <2>1, <2>2, MoveToCacheType DEF GoalDone
<1>2. CASE FinishPanic(v) # "no"
  <2>1. UNCHANGED <<entries, indices, nodes, frames>>
    BY <1>2 DEF GoalDone
  <2> QED
    BY <1>1, <2>1, Zenon DEF Structure, TypeOK, IndicesMatchNodes, StackMirrorsCalls,
      EntriesMatchCalls, CallsHaveNodes, NumbersGrow, NodesHaveCalls, RetainedAreCyclic,
      IdleIsClean, RootIsFirst
<1>3. CASE FinishPanic(v) = "no"
  <2> DEFINE m == Len(frames) - 1
             k == Top.dfn
  <2>1. /\ frames' = UpdateMinimums(Pop(frames), Top.tracked, Top.minimums)
        /\ entries' = Pop(entries)
    BY <1>3, Zenon DEF GoalDone
  <2>2. /\ m \in Nat
        /\ frames' \in Seq(Frame) /\ Len(frames') = m
        /\ \A d \in 1..m : /\ d \in 1..Len(frames)
                           /\ frames'[d].goal = frames[d].goal
                           /\ frames'[d].depth = frames[d].depth
                           /\ frames'[d].dfn = frames[d].dfn
        /\ entries' \in Seq(StackEntry) /\ Len(entries') = m
        /\ \A d \in 1..m : entries'[d] = entries[d]
    BY <2>1, ReturnFacts, Zenon
  <2>3. /\ Len(frames) = m + 1 /\ m + 1 \in 1..Len(frames)
        /\ Top = frames[m + 1]
        /\ k \in Nat /\ k + 1 \in 1..Len(nodes)
        /\ Top.minimums \in Int
        /\ m = 0 => k = 0
        /\ nodes[k + 1].stack_depth = m
    BY TopNumbers
  <2>4. \A d \in 1..m : frames[d].dfn \in Nat /\ frames[d].dfn < k
    <3>1. \A d \in 1..m : d < m + 1
      BY <2>2
    <3> QED
      BY <2>2, <2>3, <3>1, StructureFacts, Zenon DEF Structure, StackMirrorsCalls, NumbersGrow
  <2>5. \A i \in 1..Len(nodes) : nodes[i].stack_depth # None /\ i # k + 1 =>
          /\ nodes[i].stack_depth \in Nat
          /\ nodes[i].stack_depth + 1 \in 1..m
          /\ frames[nodes[i].stack_depth + 1].dfn = i - 1
    <3> SUFFICES ASSUME NEW i \in 1..Len(nodes), nodes[i].stack_depth # None, i # k + 1
                 PROVE  /\ nodes[i].stack_depth \in Nat
                        /\ nodes[i].stack_depth + 1 \in 1..m
                        /\ frames[nodes[i].stack_depth + 1].dfn = i - 1
      OBVIOUS
    <3>1. /\ nodes[i].stack_depth \in Nat
          /\ nodes[i].stack_depth + 1 \in 1..Len(frames)
          /\ frames[nodes[i].stack_depth + 1].dfn = i - 1
      BY StructureFacts DEF Structure, StackMirrorsCalls, NodesHaveCalls
    <3>2. nodes[i].stack_depth + 1 # m + 1
      BY <2>3, <3>1
    <3> HIDE DEF m
    <3>3. nodes[i].stack_depth + 1 \in 1..m
      BY <2>2, <2>3, <3>1, <3>2
    <3> QED
      BY <3>1, <3>3
  <2>6. EntriesMatchCalls'
    BY <2>2, Zenon DEF Structure, StackMirrorsCalls, EntriesMatchCalls
  <2>7. NumbersGrow'
    BY <2>2, Zenon DEF Structure, StackMirrorsCalls, NumbersGrow
  <2>8. RootIsFirst'
    <3>1. frames' # <<>> => 1 \in 1..m
      BY <2>2, EmptySeq
    <3>2. frames # <<>>
      OBVIOUS
    <3> QED
      BY <2>2, <3>1, <3>2 DEF Structure, RootIsFirst
  <2>9. CASE IsHead
    <3>1. nodes' = Truncate(nodes, k) /\ indices' = RetainBelow(indices, k)
      BY <1>3, <2>9 DEF GoalDone
    <3>2. Len(nodes) \in Nat /\ k \in 0..Len(nodes)
      BY <2>3, StructureFacts
    <3>3. /\ nodes' \in Seq(Node) /\ Len(nodes') = k
          /\ \A i \in 1..k : nodes'[i] = nodes[i] /\ i \in 1..Len(nodes) /\ i # k + 1
      BY <3>1, <3>2, Shorten, SMTT(30) DEF Truncate, Structure, TypeOK
    <3>4. indices' \in [Goals -> Nat \cup {None}] /\ IndicesMatchNodes'
      <4>1. Matches(indices, nodes)
        BY DEF Structure, IndicesMatchNodes, Matches
      <4>2. indices' \in [Goals -> Nat \cup {None}] /\ Matches(indices', nodes')
        BY <3>1, <3>2, <4>1, RollbackMatches DEF Structure, TypeOK
      <4> QED
        BY <4>2 DEF Matches, IndicesMatchNodes
    <3>5. TypeOK'
      BY <1>1, <2>2, <3>3, <3>4, Zenon DEF TypeOK
    <3>6. CallsHaveNodes'
      <4> SUFFICES ASSUME NEW d \in 1..m
                   PROVE  /\ frames[d].depth = d - 1
                          /\ frames[d].dfn < k
                          /\ nodes'[frames[d].dfn + 1].goal = frames[d].goal
                          /\ nodes'[frames[d].dfn + 1].stack_depth = d - 1
                          /\ nodes'[frames[d].dfn + 1].links = frames[d].dfn
        BY <2>2, <3>3, ZenonT(30) DEF CallsHaveNodes
      <4>1. frames[d].dfn \in Nat /\ frames[d].dfn < k
        BY <2>4
      <4>2. frames[d].dfn + 1 \in 1..k
        <5>1. k \in Nat
          BY <2>3
        <5> HIDE DEF k
        <5> QED
          BY <4>1, <5>1
      <4>3. nodes'[frames[d].dfn + 1] = nodes[frames[d].dfn + 1]
        BY <3>3, <4>2, Zenon
      <4>4. d \in 1..Len(frames)
        BY <2>2
      <4> QED
        BY <4>1, <4>3, <4>4 DEF Structure, StackMirrorsCalls, CallsHaveNodes
    <3>7. NodesHaveCalls'
      <4> SUFFICES ASSUME NEW i \in 1..Len(nodes'), nodes'[i].stack_depth # None
                   PROVE  /\ nodes'[i].stack_depth < Len(frames')
                          /\ frames'[nodes'[i].stack_depth + 1].dfn = i - 1
        BY DEF NodesHaveCalls
      <4>1. i \in 1..Len(nodes) /\ i # k + 1 /\ nodes'[i] = nodes[i]
        BY <3>3
      <4>2. /\ nodes[i].stack_depth \in Nat
            /\ nodes[i].stack_depth + 1 \in 1..m
            /\ frames[nodes[i].stack_depth + 1].dfn = i - 1
        BY <2>5, <4>1, Zenon
      <4>3. frames'[nodes[i].stack_depth + 1].dfn = frames[nodes[i].stack_depth + 1].dfn
        BY <2>2, <4>2, Zenon
      <4> QED
        BY <2>2, <4>1, <4>2, <4>3, SMTT(30)
    <3>8. RetainedAreCyclic'
      BY <3>3 DEF Structure, RetainedAreCyclic
    <3>9. IdleIsClean'
      <4> SUFFICES ASSUME m = 0
                   PROVE  entries' = <<>> /\ nodes' = <<>> /\ \A g \in Goals : indices'[g] = None
        BY <2>2, EmptySeq DEF IdleIsClean
      <4>1. Len(entries') = 0 /\ Len(nodes') = 0
        BY <2>2, <2>3, <3>3
      <4>2. \A g \in Goals : indices'[g] = None
        BY <2>3, <3>1, SMTT(30) DEF RetainBelow, None, Structure, TypeOK
      <4> QED
        BY <2>2, <3>3, <4>1, <4>2, EmptySeq
    <3> QED
      BY <2>2, <2>6, <2>7, <2>8, <3>4, <3>5, <3>6, <3>7, <3>8, <3>9
      DEF Structure, StackMirrorsCalls
  <2>10. CASE ~IsHead
    <3>1. nodes' = Finished(v) /\ indices' = indices
      BY <1>3, <2>10, Zenon DEF GoalDone
    <3>2. /\ nodes' \in Seq(Node)
          /\ Len(nodes') = Len(nodes)
          /\ \A i \in 1..Len(nodes) : /\ nodes'[i].goal = nodes[i].goal
                                      /\ i # k + 1 => nodes'[i] = nodes[i]
          /\ nodes'[k + 1].stack_depth = None
          /\ nodes'[k + 1].links = Top.minimums
      BY <3>1, FinishedNodes
    <3>3. Top.minimums < k
      BY <2>3, <2>10 DEF IsHead
    <3>4. m # 0
      <4>1. Top.minimums >= 0
        BY TopFacts, FixedPointAssumption, SMTT(30) DEF Frame
      <4> QED
        BY <2>3, <3>3, <4>1
    <3>5. TypeOK'
      BY <1>1, <2>2, <3>1, <3>2 DEF Structure, TypeOK
    <3>6. IndicesMatchNodes'
      <4>1. ASSUME NEW g \in Goals, indices[g] # None
            PROVE  indices[g] < Len(nodes') /\ nodes'[indices[g] + 1].goal = g
        <5>1. indices[g] < Len(nodes) /\ nodes[indices[g] + 1].goal = g
          BY <4>1 DEF Structure, IndicesMatchNodes
        <5>2. indices[g] + 1 \in 1..Len(nodes)
          BY <4>1, <5>1, StructureFacts DEF Structure, TypeOK
        <5> QED
          BY <3>2, <5>1, <5>2, Zenon
      <4>2. \A i \in 1..Len(nodes') : indices[nodes'[i].goal] = i - 1
        BY <3>2, Zenon DEF Structure, IndicesMatchNodes
      <4> QED
        BY <3>1, <4>1, <4>2 DEF IndicesMatchNodes
    <3>7. CallsHaveNodes'
      <4> SUFFICES ASSUME NEW d \in 1..m
                   PROVE  /\ frames[d].depth = d - 1
                          /\ frames[d].dfn < Len(nodes)
                          /\ nodes'[frames[d].dfn + 1].goal = frames[d].goal
                          /\ nodes'[frames[d].dfn + 1].stack_depth = d - 1
                          /\ nodes'[frames[d].dfn + 1].links = frames[d].dfn
        BY <2>2, <3>2, ZenonT(30) DEF CallsHaveNodes
      <4>1. d \in 1..Len(frames) /\ frames[d].dfn + 1 \in 1..Len(nodes) /\ frames[d].dfn + 1 # k + 1
        <5>1. d \in 1..Len(frames)
          BY <2>2, Zenon
        <5>2. frames[d].dfn \in Nat /\ frames[d].dfn < k /\ k \in Nat
          BY <2>3, <2>4, Zenon
        <5>3. frames[d].dfn + 1 \in 1..Len(nodes)
          BY <5>1, StructureFacts, Zenon
        <5> HIDE DEF k
        <5>4. frames[d].dfn + 1 # k + 1
          BY <5>2
        <5> QED
          BY <5>1, <5>3, <5>4
      <4>2. nodes'[frames[d].dfn + 1] = nodes[frames[d].dfn + 1]
        BY <3>2, <4>1, Zenon
      <4> QED
        BY <4>1, <4>2, SMTT(30) DEF Structure, StackMirrorsCalls, CallsHaveNodes
    <3>8. NodesHaveCalls'
      <4> SUFFICES ASSUME NEW i \in 1..Len(nodes), nodes'[i].stack_depth # None
                   PROVE  /\ nodes'[i].stack_depth < m
                          /\ frames'[nodes'[i].stack_depth + 1].dfn = i - 1
        BY <2>2, <3>2 DEF NodesHaveCalls
      <4>1. i # k + 1 /\ nodes'[i] = nodes[i]
        BY <3>2
      <4>2. /\ nodes[i].stack_depth \in Nat
            /\ nodes[i].stack_depth + 1 \in 1..m
            /\ frames[nodes[i].stack_depth + 1].dfn = i - 1
        BY <2>5, <4>1
      <4>3. frames'[nodes[i].stack_depth + 1].dfn = frames[nodes[i].stack_depth + 1].dfn
        BY <2>2, <4>2, Zenon
      <4> QED
        BY <2>2, <4>1, <4>2, <4>3, SMTT(30)
    <3>9. RetainedAreCyclic'
      <4> SUFFICES ASSUME NEW i \in 1..Len(nodes), nodes'[i].stack_depth = None
                   PROVE  nodes'[i].links < i - 1
        BY <3>2 DEF RetainedAreCyclic
      <4>1. CASE i = k + 1
        BY <2>3, <3>2, <3>3, <4>1
      <4>2. CASE i # k + 1
        BY <3>2, <4>2 DEF Structure, RetainedAreCyclic
      <4> QED
        BY <4>1, <4>2
    <3>10. IdleIsClean'
      BY <2>2, <3>4, EmptySeq, Zenon DEF IdleIsClean
    <3> QED
      BY <2>2, <2>6, <2>7, <2>8, <3>5, <3>6, <3>7, <3>8, <3>9, <3>10, Zenon
      DEF Structure, StackMirrorsCalls
  <2> QED
    BY <2>9, <2>10
<1> QED
  BY <1>2, <1>3

\* Another solver's insertion leaves this solver's own state alone.
LEMMA OtherSolverInsertsStructure ==
  ASSUME Structure, NEW g \in Goals, NEW v \in Solutions, OtherSolverInserts(g, v)
  PROVE  Structure'
<1>1. /\ cache' \in [Goals -> Solutions \cup {Absent}]
      /\ UNCHANGED <<entries, indices, nodes, frames, panic>>
  BY Zenon DEF OtherSolverInserts, Structure, TypeOK
<1> QED
  BY <1>1 DEF Structure, TypeOK, IndicesMatchNodes, StackMirrorsCalls, EntriesMatchCalls,
    CallsHaveNodes, NumbersGrow, NodesHaveCalls, RetainedAreCyclic, IdleIsClean, RootIsFirst

\* Nothing happens to the structure when nothing happens.
LEMMA StutterStructure ==
  ASSUME Structure, UNCHANGED vars
  PROVE  Structure'
BY DEF vars, Structure, TypeOK, IndicesMatchNodes, StackMirrorsCalls, EntriesMatchCalls,
  CallsHaveNodes, NumbersGrow, NodesHaveCalls, RetainedAreCyclic, IdleIsClean, RootIsFirst

\* A new solver.
LEMMA InitStructure ==
  ASSUME Init
  PROVE  Structure
<1>1. TypeOK
  BY EmptySeq DEF Init, TypeOK, Panics
<1>2. Len(entries) = 0 /\ Len(nodes) = 0 /\ Len(frames) = 0
  BY EmptySeq DEF Init
<1>3. IndicesMatchNodes /\ RetainedAreCyclic
  BY <1>2, SMTT(30) DEF Init, IndicesMatchNodes, RetainedAreCyclic
<1>4. StackMirrorsCalls
  BY <1>2 DEF StackMirrorsCalls, EntriesMatchCalls, CallsHaveNodes, NumbersGrow, NodesHaveCalls
<1>5. IdleIsClean /\ RootIsFirst
  BY DEF Init, IdleIsClean, RootIsFirst
<1> QED
  BY <1>1, <1>3, <1>4, <1>5 DEF Structure

\* Every step of the engine keeps the structure.
LEMMA NextStructure ==
  ASSUME Structure, [Next]_vars
  PROVE  Structure'
<1>1. ASSUME NEW g \in Goals, NEW tracked \in BOOLEAN, solve_goal(g, tracked)
      PROVE  Structure'
  BY <1>1, StutterStructure, FoundInGraphStructure, PushNewGoalStructure
  DEF solve_goal, CacheHit
<1>2. CASE \E g \in Goals : solve_root_goal(g)
  BY <1>1, <1>2, Zenon DEF solve_root_goal
<1>3. CASE \E g \in Goals, tracked \in BOOLEAN : SolveGoal(g, tracked)
  BY <1>1, <1>3 DEF SolveGoal
<1>4. CASE \E v \in Solutions : IterationEnds(v)
  BY <1>4, NextRoundStructure, GoalDoneStructure DEF IterationEnds
<1>5. CASE \E g \in Goals, v \in Solutions : OtherSolverInserts(g, v)
  BY <1>5, OtherSolverInsertsStructure
<1>6. CASE UNCHANGED vars
  BY <1>6, StutterStructure
<1> QED
  BY <1>2, <1>3, <1>4, <1>5, <1>6 DEF Next

\* The stack and the search graph of the engine keep their structure, whatever the
\* iterations ask and answer and whatever other solvers do: all variables have
\* their types, map and vector agree, the stack mirrors the running calls, only
\* participants of a cycle are retained, and nothing is left between questions.
THEOREM StructureIsKept == Spec => []Structure
<1>1. Init => Structure
  BY InitStructure
<1>2. Structure /\ [Next]_vars => Structure'
  BY NextStructure
<1> QED
  BY <1>1, <1>2, PTL DEF Spec

-----------------------------------------------------------------------------
(***************************************************************************)
(* The assertions of move_to_cache.  They hold as long as every iteration  *)
(* passes its minimums on.                                                 *)
(***************************************************************************)
AllTracked == \A d \in 1..Len(frames) : frames[d].tracked = TRUE

Dependencies ==
  /\ Structure
  /\ AllTracked
  /\ LinksTracked
  /\ NoAssertionFails

\* A node above the one on top of the stack is finished.
LEMMA AboveTheTop ==
  ASSUME Structure, frames # <<>>, NEW i \in 1..Len(nodes), i > Top.dfn + 1
  PROVE  nodes[i].stack_depth = None
<1> SUFFICES ASSUME nodes[i].stack_depth # None
             PROVE  FALSE
  OBVIOUS
<1> DEFINE d == nodes[i].stack_depth + 1
<1>1. d \in 1..Len(frames) /\ frames[d].dfn = i - 1
  BY StructureFacts DEF Structure, StackMirrorsCalls, NodesHaveCalls
<1>2. Len(frames) \in 1..Len(frames) /\ Top = frames[Len(frames)] /\ Top.dfn \in Nat
  BY TopFacts DEF Top, Frame
<1> HIDE DEF d
<1>3. d < Len(frames) => frames[d].dfn < frames[Len(frames)].dfn
  BY <1>1, <1>2 DEF Structure, StackMirrorsCalls, NumbersGrow
<1> QED
  BY <1>1, <1>2, <1>3, SMTT(30)

\* If nothing outside of the finished goal's subtree was involved, all of its
\* nodes can be moved.
LEMMA HeadIsMovable ==
  ASSUME Dependencies, frames # <<>>, NEW v \in Solutions, IsHead
  PROVE  Unmovable(v) = {}
<1> SUFFICES ASSUME NEW i \in (Top.dfn + 1)..Len(nodes)
             PROVE  Finished(v)[i].stack_depth = None /\ ~(Finished(v)[i].links < Top.dfn)
  BY DEF Unmovable
<1> DEFINE t == Len(frames)
<1>1. Structure
  BY DEF Dependencies
<1>2. /\ t \in 1..Len(frames) /\ Top = frames[t] /\ Top.dfn \in Nat /\ Top.minimums \in Int
      /\ Len(nodes) \in Nat
  BY <1>1, TopNumbers, Zenon
<1>3. i \in 1..Len(nodes)
  BY <1>2
<1>4. CASE i = Top.dfn + 1
  BY <1>1, <1>2, <1>4, FinishedNodes DEF IsHead
<1>5. CASE i # Top.dfn + 1
  <2>1. Finished(v)[i] = nodes[i]
    BY <1>1, <1>3, <1>5, FinishedNodes
  <2>2. i > Top.dfn + 1
    BY <1>2, <1>5
  <2>3. nodes[i].stack_depth = None
    BY <1>1, <1>3, <2>2, AboveTheTop
  <2>4. i \in Covers(t)
    BY <1>2, <1>3, <2>2 DEF Covers
  <2>5. Top.minimums <= nodes[i].links
    BY <1>2, <2>4 DEF Dependencies, LinksTracked
  <2>6. nodes[i].links \in Int
    BY <1>1, <1>3, StructureFacts
  <2> QED
    BY <1>2, <2>1, <2>3, <2>5, <2>6 DEF IsHead
<1> QED
  BY <1>4, <1>5

\* So no assertion fails when a goal is finished.
LEMMA NoFinishPanic ==
  ASSUME Dependencies, frames # <<>>, NEW v \in Solutions
  PROVE  FinishPanic(v) = "no"
<1>1. Top.depth + 1 = Len(entries)
  BY TopFacts DEF Dependencies
<1> QED
  BY <1>1, HeadIsMovable DEF FinishPanic

\* Steps that keep the nodes and only lower the minimums keep track of the links.
LEMMA FoundInGraphDependencies ==
  ASSUME Dependencies, NEW g \in Goals, FoundInGraph(g, TRUE)
  PROVE  Dependencies'
<1>1. Structure /\ Structure'
  BY FoundInGraphStructure, Zenon DEF Dependencies
<1>2. UNCHANGED <<nodes, panic>>
  BY DEF FoundInGraph
<1>3. /\ Len(frames') = Len(frames)
      /\ \A d \in 1..Len(frames) : /\ frames'[d].dfn = frames[d].dfn
                                   /\ frames'[d].minimums <= frames[d].minimums
                                   /\ frames'[d].minimums \in Int
                                   /\ frames'[d].tracked = TRUE
  <2> DEFINE node == nodes[indices[g] + 1]
  <2>1. CASE frames' = frames
    <3>1. \A d \in 1..Len(frames) : frames[d].minimums \in Int /\ frames[d].tracked = TRUE
      BY <1>1, StructureFacts, Zenon DEF Dependencies, AllTracked
    <3>2. \A d \in 1..Len(frames) : frames[d].minimums <= frames[d].minimums
      BY <3>1
    <3> QED
      BY <2>1, <3>1, <3>2, Zenon
  <2>2. CASE frames' = UpdateMinimums(frames, TRUE, node.links)
    <3>1. indices[g] + 1 \in 1..Len(nodes)
      BY <1>1, StructureFacts, SMTT(30) DEF FoundInGraph, Structure, TypeOK, IndicesMatchNodes
    <3>2. node.links \in 0..MAX /\ frames \in Seq(Frame) /\ frames' \in Seq(Frame)
      BY <1>1, <3>1, NodeFacts, SMTT(30) DEF Structure, TypeOK
    <3> HIDE DEF node
    <3>3. /\ Len(frames') = Len(frames)
          /\ \A d \in 1..Len(frames) : /\ frames'[d].dfn = frames[d].dfn
                                       /\ frames'[d].minimums <= frames[d].minimums
                                       /\ frames'[d].tracked = frames[d].tracked
      BY <2>2, <3>2, UpdateMinimumsFacts, ZenonT(30)
    <3> QED
      BY <3>2, <3>3, FrameFacts DEF Dependencies, AllTracked
  <2> QED
    BY <2>1, <2>2, Zenon DEF FoundInGraph
<1>4. AllTracked'
  BY <1>3 DEF AllTracked
<1>5. LinksTracked'
  <2> SUFFICES ASSUME NEW d \in 1..Len(frames'), NEW i \in Covers(d)'
               PROVE  frames'[d].minimums <= nodes'[i].links
    BY DEF LinksTracked
  <2>1. d \in 1..Len(frames) /\ Len(frames) \in Nat
    BY <1>1, <1>3, StructureFacts
  <2>2. d < Len(frames) => d + 1 \in 1..Len(frames)
    BY <2>1
  <2>3. i \in Covers(d) /\ i \in 1..Len(nodes)
    BY <1>2, <1>3, <2>1, <2>2 DEF Covers
  <2>4. frames[d].minimums <= nodes[i].links
    BY <2>1, <2>3 DEF Dependencies, LinksTracked
  <2> QED
    BY <1>1, <1>2, <1>3, <2>1, <2>3, <2>4, StructureFacts, SMTT(30)
<1> QED
  BY <1>1, <1>2, <1>4, <1>5 DEF Dependencies, NoAssertionFails

\* A new goal has no results below it yet.
LEMMA PushNewGoalDependencies ==
  ASSUME Dependencies, NEW g \in Goals, PushNewGoal(g, TRUE)
  PROVE  Dependencies'
<1>1. Structure /\ Structure'
  BY PushNewGoalStructure, Zenon DEF Dependencies
<1>2. CASE Len(entries) >= OverflowDepth
  <2>1. UNCHANGED <<nodes, frames>> /\ panic' = "overflow depth reached"
    BY <1>2 DEF PushNewGoal
  <2> QED
    BY <1>1, <2>1, Zenon DEF Dependencies, AllTracked, LinksTracked, Covers, NoAssertionFails
<1>3. CASE ~(Len(entries) >= OverflowDepth)
  <2> DEFINE t == Len(frames) + 1
             node == [goal |-> g, solution |-> initial_value(g),
                      stack_depth |-> Len(entries), links |-> Len(nodes)]
             frame == [goal |-> g, depth |-> Len(entries), dfn |-> Len(nodes),
                       minimums |-> MAX, tracked |-> TRUE]
  <2>1. /\ nodes' = Append(nodes, node) /\ frames' = Append(frames, frame)
        /\ panic' = panic /\ Len(nodes) < MAX
    BY <1>3, Zenon DEF PushNewGoal
  <2>2. Len(nodes) \in Nat /\ Len(frames) \in Nat /\ Len(entries) \in Nat
    BY <1>1, StructureFacts, Zenon
  <2>3. frame \in Frame /\ frame.dfn = Len(nodes) /\ frame.tracked = TRUE
    BY <2>2, FixedPointAssumption, SMTT(30) DEF Frame
  <2>4. node \in Node
    BY <2>1, <2>2, FixedPointAssumption, SMTT(30) DEF Node, initial_value, Solutions
  <2> HIDE DEF node, frame
  <2>5. /\ Len(nodes') = Len(nodes) + 1
        /\ \A i \in 1..Len(nodes) : nodes'[i] = nodes[i]
    BY <1>1, <2>1, <2>4, AppendProperties, SMTT(30) DEF Structure, TypeOK
  <2>6. /\ Len(frames') = t
        /\ \A d \in 1..Len(frames) : frames'[d] = frames[d]
        /\ frames'[t] = frame
    BY <1>1, <2>1, <2>3, AppendProperties DEF Structure, TypeOK
  <2>7. AllTracked'
    <3> SUFFICES ASSUME NEW d \in 1..Len(frames')
                 PROVE  frames'[d].tracked = TRUE
      BY Zenon DEF AllTracked
    <3>1. d \in 1..Len(frames) \/ d = t
      BY <2>2, <2>6
    <3> QED
      BY <2>3, <2>6, <3>1 DEF Dependencies, AllTracked
  <2>8. LinksTracked'
    <3> SUFFICES ASSUME NEW d \in 1..Len(frames'), NEW i \in Covers(d)'
                 PROVE  frames'[d].minimums <= nodes'[i].links
      BY DEF LinksTracked
    <3>1. /\ i \in 1..Len(nodes') /\ frames'[d].dfn + 1 < i
          /\ d < Len(frames') => i <= frames'[d + 1].dfn
      BY DEF Covers
    <3>2. d # t
      BY <2>2, <2>3, <2>5, <2>6, <3>1
    <3>3. d \in 1..Len(frames) /\ d < Len(frames')
      BY <2>2, <2>6, <3>2
    <3>4. i \in 1..Len(nodes)
      <4>1. CASE d = Len(frames)
        BY <2>2, <2>3, <2>5, <2>6, <3>1, <3>3, <4>1, SMTT(30)
      <4>2. CASE d # Len(frames)
        <5>1. d + 1 \in 1..Len(frames)
          BY <2>2, <3>3, <4>2
        <5>2. frames[d + 1].dfn + 1 \in 1..Len(nodes) /\ frames[d + 1].dfn \in Nat
          BY <1>1, <5>1, StructureFacts
        <5> QED
          BY <2>2, <2>5, <2>6, <3>1, <3>3, <5>1, <5>2, SMTT(30)
      <4> QED
        BY <4>1, <4>2
    <3>5. d < Len(frames) => d + 1 \in 1..Len(frames)
      BY <2>2, <3>3, SMTT(30)
    <3>6. i \in Covers(d)
      BY <2>6, <3>1, <3>3, <3>4, <3>5 DEF Covers
    <3> QED
      BY <2>5, <2>6, <3>3, <3>4, <3>6 DEF Dependencies, LinksTracked
  <2> QED
    BY <1>1, <2>1, <2>7, <2>8, Zenon DEF Dependencies, NoAssertionFails
<1> QED
  BY <1>2, <1>3, Zenon

\* In a new round the goal starts with no results below it.
LEMMA NextRoundDependencies ==
  ASSUME Dependencies, frames # <<>>, NEW v \in Solutions, NextRound(v)
  PROVE  Dependencies'
<1> DEFINE n == Top.dfn + 1
           ns == [nodes EXCEPT ![Top.dfn + 1].solution = v]
           t == Len(frames)
           f == [frames[t] EXCEPT !.minimums = MAX]
<1>1. Structure /\ Structure'
  BY NextRoundStructure DEF Dependencies
<1>2. nodes' = Truncate(ns, n) /\ panic' = panic /\ frames' = [frames EXCEPT ![t] = f]
  BY Zenon DEF NextRound
<1>3. /\ t \in 1..Len(frames) /\ t \in Nat /\ Top = frames[t] /\ frames[t] \in Frame
      /\ n \in 1..Len(nodes) /\ Len(nodes) \in Nat /\ Top.dfn \in Nat
  BY <1>1, TopNumbers
<1>4. /\ ns \in Seq(Node) /\ Len(ns) = Len(nodes)
      /\ \A i \in 1..Len(nodes) : ns[i].links = nodes[i].links
  BY <1>1, NextRoundNodes, ZenonT(30)
<1>5. f \in Frame /\ f.dfn = Top.dfn /\ f.tracked = TRUE
  <2>1. frames[t] \in Frame /\ MAX \in 0..MAX /\ frames[t].tracked = TRUE
    BY <1>3, FixedPointAssumption DEF Dependencies, AllTracked
  <2> HIDE DEF t
  <2> QED
    BY <1>3, <2>1, Zenon DEF Frame
<1> HIDE DEF ns, f
<1>6. Len(nodes') = n /\ \A i \in 1..n : nodes'[i].links = nodes[i].links
  <2>1. n \in 0..Len(ns)
    BY <1>3, <1>4
  <2>2. Len(nodes') = n /\ \A i \in 1..n : nodes'[i] = ns[i]
    BY <1>2, <1>4, <2>1, Shorten DEF Truncate
  <2>3. \A i \in 1..n : i \in 1..Len(nodes)
    BY <1>3, SMTT(30)
  <2> QED
    BY <1>4, <2>2, <2>3
<1>7. /\ Len(frames') = Len(frames) /\ frames'[t] = f
      /\ \A d \in 1..Len(frames) : d # t => frames'[d] = frames[d]
  BY <1>1, <1>2, <1>3, <1>5, ExceptSeq DEF Structure, TypeOK
<1>8. AllTracked'
  BY <1>5, <1>7, Zenon DEF AllTracked, Dependencies
<1>9. LinksTracked'
  <2> SUFFICES ASSUME NEW d \in 1..Len(frames'), NEW i \in Covers(d)'
               PROVE  frames'[d].minimums <= nodes'[i].links
    BY DEF LinksTracked
  <2>1. /\ i \in 1..n /\ frames'[d].dfn + 1 < i
        /\ d < Len(frames) => i <= frames'[d + 1].dfn
    BY <1>6, <1>7 DEF Covers
  <2>2. d # t
    BY <1>3, <1>5, <1>7, <2>1
  <2>3. d \in 1..Len(frames) /\ d < Len(frames) /\ d + 1 \in 1..Len(frames)
    BY <1>3, <1>7, <2>2
  <2>4. frames'[d + 1].dfn = frames[d + 1].dfn
    BY <1>3, <1>5, <1>7, <2>3
  <2>5. i \in 1..Len(nodes)
    BY <1>3, <2>1
  <2>6. i \in Covers(d)
    BY <1>7, <2>1, <2>2, <2>3, <2>4, <2>5 DEF Covers
  <2> QED
    BY <1>6, <1>7, <2>1, <2>2, <2>3, <2>6 DEF Dependencies, LinksTracked
<1> QED
  BY <1>1, <1>2, <1>8, <1>9 DEF Dependencies, NoAssertionFails

\* The caller of a finished goal takes over the goal's minimums, and with them
\* everything the retained results below the goal are linked to.
LEMMA GoalDoneDependencies ==
  ASSUME Dependencies, frames # <<>>, NEW v \in Solutions, GoalDone(v)
  PROVE  Dependencies'
<1> DEFINE m == Len(frames) - 1
           k == Top.dfn
<1>1. Structure /\ Structure'
  BY GoalDoneStructure DEF Dependencies
<1>2. panic' = "no" /\ FinishPanic(v) = "no"
  BY NoFinishPanic, Zenon DEF GoalDone
<1>3. /\ Len(frames) = m + 1 /\ m \in Nat /\ m + 1 \in 1..Len(frames)
      /\ Top = frames[m + 1] /\ Top \in Frame /\ Top.minimums \in Int
      /\ frames[m + 1].dfn = k /\ k \in Nat /\ k + 1 \in 1..Len(nodes) /\ Len(nodes) \in Nat
  <2>1. /\ Len(frames) \in 1..Len(frames) /\ m \in Nat /\ Len(frames) = m + 1
        /\ Top = frames[Len(frames)] /\ Top \in Frame /\ Top.minimums \in Int
        /\ k \in Nat /\ k + 1 \in 1..Len(nodes) /\ Len(nodes) \in Nat
    BY <1>1, TopNumbers, Zenon
  <2> HIDE DEF m
  <2> QED
    BY <2>1, Zenon
<1>4. Top.tracked = TRUE
  BY <1>3, Zenon DEF Dependencies, AllTracked
<1>5. /\ frames' \in Seq(Frame) /\ Len(frames') = m
      /\ \A d \in 1..m : /\ d \in 1..Len(frames)
                         /\ frames'[d].dfn = frames[d].dfn
                         /\ frames'[d].tracked = frames[d].tracked
                         /\ frames'[d].minimums <= frames[d].minimums
                         /\ d = m => frames'[d].minimums <= Top.minimums
  <2>1. frames' = UpdateMinimums(Pop(frames), Top.tracked, Top.minimums)
    BY <1>2, SMTT(30) DEF GoalDone
  <2> QED
    BY <1>1, <1>4, <2>1, ReturnFacts
<1>6. \A d \in 1..m : frames'[d].minimums \in Int /\ frames[d].minimums \in Int
  BY <1>1, <1>5, FrameFacts, StructureFacts, Zenon
<1> HIDE DEF m, k
<1>7. AllTracked'
  BY <1>5, Zenon DEF Dependencies, AllTracked
<1>8. LinksTracked'
  <2> SUFFICES ASSUME NEW d \in 1..m, NEW i \in Covers(d)'
               PROVE  frames'[d].minimums <= nodes'[i].links
    BY <1>5 DEF LinksTracked
  <2>1. /\ i \in 1..Len(nodes') /\ frames[d].dfn + 1 < i
        /\ d < m => i <= frames'[d + 1].dfn
    BY <1>5 DEF Covers
  <2>2. /\ d \in 1..Len(frames) /\ d + 1 \in 1..Len(frames) /\ d < Len(frames)
        /\ d < m => d + 1 \in 1..m
    BY <1>3, SMTT(30)
  <2>3. d < m => i <= frames[d + 1].dfn /\ frames[d + 1].dfn < k /\ frames[d + 1].dfn \in Nat
    <3>1. d < m => frames[d + 1].dfn < frames[m + 1].dfn
      BY <1>1, <1>3, <2>2 DEF Structure, StackMirrorsCalls, NumbersGrow
    <3> QED
      BY <1>1, <1>3, <1>5, <2>1, <2>2, <3>1, StructureFacts, Zenon
  <2>7. ASSUME i > k
        PROVE  d = m
    <3>1. i \in Int
      BY <2>1, SMTT(30)
    <3>2. ~(d < m)
      BY <1>3, <2>3, <2>7, <3>1, SMTT(30)
    <3> QED
      BY <1>3, <3>2
  <2>4. ASSUME i \in 1..Len(nodes), i <= k, nodes'[i] = nodes[i]
        PROVE  frames'[d].minimums <= nodes'[i].links
    <3>1. i <= frames[d + 1].dfn
      BY <1>3, <2>2, <2>3, <2>4, SMTT(30)
    <3>2. i \in Covers(d)
      BY <2>1, <2>4, <3>1, Zenon DEF Covers
    <3>3. frames[d].minimums <= nodes[i].links /\ nodes[i].links \in Int
      BY <1>1, <2>2, <2>4, <3>2, StructureFacts, Zenon DEF Dependencies, LinksTracked
    <3>4. /\ frames'[d].minimums <= frames[d].minimums
          /\ frames'[d].minimums \in Int /\ frames[d].minimums \in Int
      BY <1>5, <1>6
    <3> QED
      BY <2>4, <3>3, <3>4
  <2>5. CASE IsHead
    <3>1. nodes' = Truncate(nodes, k)
      BY <1>2, <2>5 DEF GoalDone, k
    <3>2. k \in 0..Len(nodes)
      BY <1>3, SMTT(30)
    <3>3. Len(nodes') = k /\ \A j \in 1..k : nodes'[j] = nodes[j]
      BY <1>1, <3>1, <3>2, Shorten DEF Truncate, Structure, TypeOK
    <3>4. i \in 1..Len(nodes) /\ i <= k /\ nodes'[i] = nodes[i]
      BY <1>3, <2>1, <3>2, <3>3, SMTT(30)
    <3> QED
      BY <2>4, <3>4
  <2>6. CASE ~IsHead
    <3>1. nodes' = Finished(v)
      BY <1>2, <2>6, Zenon DEF GoalDone
    <3>2. /\ Len(nodes') = Len(nodes)
          /\ \A j \in 1..Len(nodes) : j # k + 1 => nodes'[j] = nodes[j]
          /\ nodes'[k + 1].links = Top.minimums
      BY <1>1, <3>1, FinishedNodes, Zenon DEF k
    <3>3. CASE i <= k
      BY <1>3, <2>1, <2>4, <3>2, <3>3, SMTT(30)
    <3>4. CASE i = k + 1
      BY <1>3, <1>5, <2>7, <3>2, <3>4, SMTT(30)
    <3>5. CASE i > k + 1
      <4>1. d = m
        BY <1>3, <2>1, <2>7, <3>5, SMTT(30)
      <4>2. i \in Covers(m + 1) /\ i \in 1..Len(nodes) /\ nodes'[i] = nodes[i]
        BY <1>3, <2>1, <3>2, <3>5, SMTT(30) DEF Covers
      <4>3. Top.minimums <= nodes[i].links /\ nodes[i].links \in Int
        BY <1>1, <1>3, <4>2, StructureFacts, Zenon DEF Dependencies, LinksTracked
      <4>4. frames'[d].minimums <= Top.minimums /\ frames'[d].minimums \in Int
        BY <1>5, <1>6, <4>1
      <4> QED
        BY <1>3, <4>2, <4>3, <4>4
    <3> QED
      BY <1>3, <2>1, <3>2, <3>3, <3>4, <3>5, SMTT(30)
  <2> QED
    BY <2>5, <2>6
<1> QED
  BY <1>1, <1>2, <1>7, <1>8 DEF Dependencies, NoAssertionFails

\* Every step of the engine keeps track of the dependencies, as long as no
\* iteration uses minimums of its own.
LEMMA NextDependencies ==
  ASSUME Dependencies, [Next]_vars, FreshMinimums = FALSE
  PROVE  Dependencies'
<1>1. ASSUME UNCHANGED <<nodes, frames, panic>>, Structure'
      PROVE  Dependencies'
  BY <1>1 DEF Dependencies, AllTracked, LinksTracked, Covers, NoAssertionFails
<1>2. Structure'
  BY NextStructure DEF Dependencies
<1>3. ASSUME NEW g \in Goals, solve_goal(g, TRUE)
      PROVE  Dependencies'
  <2>1. CASE CacheHit(g)
    BY <1>1, <1>2, <2>1 DEF CacheHit, vars
  <2> QED
    BY <1>3, <2>1, FoundInGraphDependencies, PushNewGoalDependencies, Zenon DEF solve_goal
<1>4. CASE \E g \in Goals : solve_root_goal(g)
  BY <1>3, <1>4, Zenon DEF solve_root_goal
<1>5. CASE \E g \in Goals, tracked \in BOOLEAN : SolveGoal(g, tracked)
  <2>1. PICK g \in Goals, tracked \in BOOLEAN : SolveGoal(g, tracked)
    BY <1>5
  <2>2. tracked = TRUE /\ solve_goal(g, tracked)
    BY <2>1 DEF SolveGoal
  <2> QED
    BY <1>3, <2>2, Zenon
<1>6. CASE \E v \in Solutions : IterationEnds(v)
  BY <1>6, NextRoundDependencies, GoalDoneDependencies DEF IterationEnds
<1>7. CASE \E g \in Goals, v \in Solutions : OtherSolverInserts(g, v)
  BY <1>1, <1>2, <1>7 DEF OtherSolverInserts
<1>8. CASE UNCHANGED vars
  BY <1>1, <1>2, <1>8 DEF vars
<1> QED
  BY <1>4, <1>5, <1>6, <1>7, <1>8, Zenon DEF Next

\* Nothing depends on anything in a new solver (RecursiveContext::new).
LEMMA InitDependencies ==
  ASSUME Init
  PROVE  Dependencies
<1>1. Structure
  BY InitStructure
<1>2. Len(frames) = 0
  BY EmptySeq DEF Init
<1> QED
  BY <1>1, <1>2 DEF Init, Dependencies, AllTracked, LinksTracked, NoAssertionFails

-----------------------------------------------------------------------------
(***************************************************************************)
(* Theorems.                                                               *)
(***************************************************************************)

\* All variables of the engine keep their types.
THEOREM TypeCorrect == Spec => []TypeOK
<1>1. Structure => TypeOK
  BY DEF Structure
<1> QED
  BY <1>1, StructureIsKept, PTL

\* SearchGraph keeps its map and its vector in step.
THEOREM GraphIsConsistent == Spec => []IndicesMatchNodes
<1>1. Structure => IndicesMatchNodes
  BY DEF Structure
<1> QED
  BY <1>1, StructureIsKept, PTL

\* The stack and the nodes' stack depths mirror the calls of solve_goal, so the
\* cycles that solve_goal sees are the cycles there are.
THEOREM StackIsFaithful == Spec => []StackMirrorsCalls
<1>1. Structure => StackMirrorsCalls
  BY DEF Structure
<1> QED
  BY <1>1, StructureIsKept, PTL

\* Between two questions stack and search graph are empty: the assertion of
\* solve_root_goal holds.
THEOREM RootAssertionHolds == Spec => []IdleIsClean
<1>1. Structure => IdleIsClean
  BY DEF Structure
<1> QED
  BY <1>1, StructureIsKept, PTL

\* Only results of cycle participants outlive their goal's time on the stack.
THEOREM OnlyParticipantsRetained == Spec => []RetainedAreCyclic
<1>1. Structure => RetainedAreCyclic
  BY DEF Structure
<1> QED
  BY <1>1, StructureIsKept, PTL

\* If every iteration passes its minimums on, no dependency of an interim result
\* is lost to the goal that decides about promoting it.
THEOREM DependenciesAreTracked ==
  ASSUME FreshMinimums = FALSE
  PROVE  Spec => []LinksTracked
<1>1. Init => Dependencies
  BY InitDependencies
<1>2. Dependencies /\ [Next]_vars => Dependencies'
  BY NextDependencies
<1>3. Dependencies => LinksTracked
  BY DEF Dependencies
<1> QED
  BY <1>1, <1>2, <1>3, PTL DEF Spec

\* If every iteration passes its minimums on, no assertion of the engine ever
\* fails, for any goals, any iterations and any use of a shared cache.
THEOREM AssertionsHold ==
  ASSUME FreshMinimums = FALSE
  PROVE  Spec => []NoAssertionFails
<1>1. Init => Dependencies
  BY InitDependencies
<1>2. Dependencies /\ [Next]_vars => Dependencies'
  BY NextDependencies
<1>3. Dependencies => NoAssertionFails
  BY DEF Dependencies
<1> QED
  BY <1>1, <1>2, <1>3, PTL DEF Spec
=============================================================================
