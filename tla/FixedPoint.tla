----------------------------- MODULE FixedPoint -----------------------------
(***************************************************************************)
(* The fixed-point engine of the recursive solver                          *)
(* (chalk-recursive/src/fixed_point.rs and fixed_point/): the stack of     *)
(* goals being solved, the search graph of interim results and the cache   *)
(* of final ones.                                                          *)
(*                                                                         *)
(* The engine is generic in what one "iteration" of a goal does, and so is *)
(* this module: while the goal on top of the stack iterates it may ask for *)
(* any goal any number of times (SolveGoal) and may then come back with    *)
(* any answer (IterationEnds).  RecursiveSolver.tla says what chalk's      *)
(* iterations really ask for and answer.                                   *)
(*                                                                         *)
(* Depth-first numbers and stack depths count from 0, as in the code, so   *)
(* the node with number n is nodes[n + 1].                                 *)
(***************************************************************************)
EXTENDS LogicPrograms

CONSTANTS
  Goals,            \* the canonical goals (the keys K)
  Coinductive,      \* the goals with coinductive semantics
  OverflowDepth,    \* Stack::overflow_depth
  MAX,              \* DepthFirstNumber::MAX, "no cycle was encountered"
  CachingEnabled,   \* is there a cache at all (SolverChoice::Recursive)?
  SharedCache,      \* do other solvers hold clones of the cache?
  FreshMinimums     \* may an iteration pass solve_goal a Minimums of its own?

ASSUME FixedPointAssumption ==
  /\ Coinductive \subseteq Goals
  /\ OverflowDepth \in Nat
  /\ MAX \in Nat \ {0}
  /\ CachingEnabled \in BOOLEAN
  /\ SharedCache \in BOOLEAN
  /\ FreshMinimums \in BOOLEAN

VARIABLES
  entries,   \* Stack::entries
  indices,   \* SearchGraph::indices, None for a goal that has no node
  nodes,     \* SearchGraph::nodes
  cache,     \* the shared map of final answers, Absent where there is none
  frames,    \* the locals of the active solve_goal / solve_new_subgoal calls
  panic      \* the panic! or assert! that ended the solver, if any

vars == <<entries, indices, nodes, cache, frames, panic>>

\* The answers are those of LogicPrograms.
Absent == "absent"
None == -1

\* Mutants: all goals start out proved, or none does.
StartProved(g) == "Unique"
StartUnproved(g) == "NoSolution"

initial_value(g) == IF g \in Coinductive THEN "Unique" ELSE "NoSolution"

error_value == "NoSolution"

\* Mutant: only an ambiguous answer ends the loop.
AmbiguousOnly(old, current) == is_ambig(current)

reached_fixed_point(old, current) == old = current \/ is_ambig(current)

Panics == {"no", "overflow depth reached", "mismatched stack push/pop",
           "node still on the stack", "links outside of the promoted nodes"}

StackEntry == [coinductive_goal : BOOLEAN, cycle : BOOLEAN]

Node == [goal : Goals, solution : Solutions,
         stack_depth : Nat \cup {None}, links : 0..MAX]

Frame == [goal : Goals, depth : Nat, dfn : Nat, minimums : 0..MAX, tracked : BOOLEAN]

\* The state of RecursiveContext, its stack, graph and cache: the depth-first
\* numbers and links of the nodes stay in the range of DepthFirstNumber.
TypeOK ==
  /\ entries \in Seq(StackEntry)
  /\ indices \in [Goals -> Nat \cup {None}]
  /\ nodes \in Seq(Node)
  /\ cache \in [Goals -> Solutions \cup {Absent}]
  /\ frames \in Seq(Frame)
  /\ panic \in Panics

Init ==
  /\ entries = <<>>
  /\ indices = [g \in Goals |-> None]
  /\ nodes = <<>>
  /\ cache = [g \in Goals |-> Absent]
  /\ frames = <<>>
  /\ panic = "no"

-----------------------------------------------------------------------------
(***************************************************************************)
(* Stack and search graph operations.                                      *)
(***************************************************************************)
MinOf(a, b) == IF a <= b THEN a ELSE b

\* Mutant: the minimums are overwritten.
OverwriteMinimums(fs, tracked, links) ==
  IF tracked /\ fs # <<>> THEN [fs EXCEPT ![Len(fs)].minimums = links] ELSE fs

\* Minimums::update_from on the Minimums a call was handed: the ones of the
\* calling frame if the caller passed them on (tracked), otherwise ones the
\* caller drops as soon as the call returns.
UpdateMinimums(fs, tracked, links) ==
  IF tracked /\ fs # <<>>
  THEN [fs EXCEPT ![Len(fs)].minimums = MinOf(@, links)]
  ELSE fs

Pop(s) == SubSeq(s, 1, Len(s) - 1)

\* Mutant: mixed cycles are let through.
MixedAllowed(depth) == FALSE

mixed_inductive_coinductive_cycle_from(depth) ==
  /\ \E i \in (depth + 1)..Len(entries) : entries[i].coinductive_goal
  /\ \E i \in (depth + 1)..Len(entries) : ~entries[i].coinductive_goal

\* Mutants: the rollback is off by one, in the map or in the vector.
RetainUpTo(ind, dfn) == [g \in Goals |-> IF ind[g] <= dfn THEN ind[g] ELSE None]
TruncateAfter(ns, dfn) == SubSeq(ns, 1, MinOf(dfn + 1, Len(ns)))

\* SearchGraph::rollback_to, as the new values of indices and nodes.
RetainBelow(ind, dfn) ==
  [g \in Goals |-> IF ind[g] < dfn THEN ind[g] ELSE None]

Truncate(ns, dfn) == SubSeq(ns, 1, dfn)

\* The cache after the nodes at the positions I have been inserted.  No two of
\* them are for the same goal (IndicesMatchNodes), so their order is irrelevant.
CacheAll(c, ns, I) ==
  [g \in Goals |-> IF \E i \in I : ns[i].goal = g
                   THEN ns[CHOOSE i \in I : ns[i].goal = g].solution
                   ELSE c[g]]

-----------------------------------------------------------------------------
(***************************************************************************)
(* solve_goal, up to the point where it returns or starts to iterate.      *)
(***************************************************************************)
InCache(g) == CachingEnabled /\ cache[g] # Absent

OnStack(g) == indices[g] # None /\ nodes[indices[g] + 1].stack_depth # None

InMixedCycle(g) ==
  /\ OnStack(g)
  /\ mixed_inductive_coinductive_cycle_from(nodes[indices[g] + 1].stack_depth)

\* The goal has a final answer: nothing but the answer leaves the call.
CacheHit(g) == InCache(g) /\ UNCHANGED vars

\* The goal is in the search graph: flag the cycle if it is on the stack,
\* refuse mixed cycles, otherwise record the dependency.
FoundInGraph(g, tracked) ==
  /\ ~InCache(g)
  /\ indices[g] # None
  /\ LET node == nodes[indices[g] + 1]
     IN  /\ entries' = IF OnStack(g)
                       THEN [entries EXCEPT ![node.stack_depth + 1].cycle = TRUE]
                       ELSE entries
         /\ frames' = IF InMixedCycle(g)
                      THEN frames
                      ELSE UpdateMinimums(frames, tracked, node.links)
  /\ UNCHANGED <<indices, nodes, cache, panic>>

\* What solve_goal returns for a goal that is in the cache or in the graph.
FoundAnswer(g) ==
  IF InCache(g) THEN cache[g]
  ELSE IF InMixedCycle(g) THEN error_value
  ELSE nodes[indices[g] + 1].solution

\* A new goal: push it on the stack, create its node, start iterating.
PushNewGoal(g, tracked) ==
  /\ ~InCache(g)
  /\ indices[g] = None
  /\ Len(nodes) < MAX          \* a Vec cannot hold more
  /\ IF Len(entries) >= OverflowDepth
     THEN /\ panic' = "overflow depth reached"
          /\ UNCHANGED <<entries, indices, nodes, cache, frames>>
     ELSE LET dfn == Len(nodes)
              depth == Len(entries)
          IN  /\ entries' = Append(entries,
                              [coinductive_goal |-> g \in Coinductive,
                               cycle |-> FALSE])
              /\ nodes' = Append(nodes,
                            [goal |-> g, solution |-> initial_value(g),
                             stack_depth |-> depth, links |-> dfn])
              /\ indices' = [indices EXCEPT ![g] = dfn]
              /\ frames' = Append(frames,
                             [goal |-> g, depth |-> depth, dfn |-> dfn,
                              minimums |-> MAX, tracked |-> tracked])
              /\ UNCHANGED <<cache, panic>>

solve_goal(g, tracked) ==
  CacheHit(g) \/ FoundInGraph(g, tracked) \/ PushNewGoal(g, tracked)

\* A question from outside.  (The assertion that the stack is empty is
\* IdleIsClean.)
solve_root_goal(g) ==
  /\ panic = "no"
  /\ frames = <<>>
  /\ solve_goal(g, TRUE)

\* A question asked by the iteration of the goal on top of the stack.
SolveGoal(g, tracked) ==
  /\ panic = "no"
  /\ frames # <<>>
  /\ tracked \/ FreshMinimums
  /\ solve_goal(g, tracked)

-----------------------------------------------------------------------------
(***************************************************************************)
(* The end of an iteration: the rest of the loop of solve_new_subgoal and, *)
(* when the loop is left, the rest of solve_goal.                          *)
(***************************************************************************)
Top == frames[Len(frames)]

\* Mutant: one round is always taken to be enough.
OneRound(v) == TRUE

\* Does the iteration that answered v end the loop?
LoopDone(v) ==
  \/ ~entries[Top.depth + 1].cycle
  \/ reached_fixed_point(nodes[Top.dfn + 1].solution, v)

\* Mutants: the next round does not see the answer of this one, or finds the
\* results that were built on the answer of the last one.
ForgetAnswer(v) ==
  /\ ~LoopDone(v)
  /\ entries' = [entries EXCEPT ![Top.depth + 1].cycle = FALSE]
  /\ indices' = RetainBelow(indices, Top.dfn + 1)
  /\ nodes' = Truncate(nodes, Top.dfn + 1)
  /\ frames' = [frames EXCEPT ![Len(frames)].minimums = MAX]
  /\ UNCHANGED <<cache, panic>>
SkipRollback(v) ==
  /\ ~LoopDone(v)
  /\ entries' = [entries EXCEPT ![Top.depth + 1].cycle = FALSE]
  /\ nodes' = [nodes EXCEPT ![Top.dfn + 1].solution = v]
  /\ frames' = [frames EXCEPT ![Len(frames)].minimums = MAX]
  /\ UNCHANGED <<indices, cache, panic>>

\* Another round: keep the answer, drop what was built on the old one.
NextRound(v) ==
  /\ ~LoopDone(v)
  /\ entries' = [entries EXCEPT ![Top.depth + 1].cycle = FALSE]
  /\ indices' = RetainBelow(indices, Top.dfn + 1)
  /\ nodes' = Truncate([nodes EXCEPT ![Top.dfn + 1].solution = v], Top.dfn + 1)
  /\ frames' = [frames EXCEPT ![Len(frames)].minimums = MAX]
  /\ UNCHANGED <<cache, panic>>

\* Mutants: the links are one too low, or the node is left on the stack.
LinksTooLow(v) ==
  [nodes EXCEPT ![Top.dfn + 1] =
     [@ EXCEPT !.solution = v, !.links = Top.minimums - 1, !.stack_depth = None]]
LeftOnStack(v) ==
  [nodes EXCEPT ![Top.dfn + 1] = [@ EXCEPT !.solution = v, !.links = Top.minimums]]

\* The nodes once the finished goal has its answer and its links.
Finished(v) ==
  [nodes EXCEPT ![Top.dfn + 1] =
     [@ EXCEPT !.solution = v, !.links = Top.minimums, !.stack_depth = None]]

\* Mutants: a goal that depends on itself is taken for a participant, or every
\* goal for independent.
StrictHead == Top.minimums > Top.dfn
AlwaysHead == TRUE

\* Nothing outside of the goal's subtree was involved.
IsHead == Top.minimums >= Top.dfn

\* The nodes that fail an assertion of SearchGraph::move_to_cache.
Unmovable(v) ==
  {i \in (Top.dfn + 1)..Len(nodes) : \/ Finished(v)[i].stack_depth # None
                                     \/ Finished(v)[i].links < Top.dfn}

FirstOf(S) == {i \in S : \A j \in S : i <= j}

\* The assertion, if any, that fails while the goal is finished.
FinishPanic(v) ==
  IF Top.depth + 1 # Len(entries) THEN "mismatched stack push/pop"
  ELSE IF ~(IsHead /\ CachingEnabled) \/ Unmovable(v) = {} THEN "no"
  ELSE IF \E i \in FirstOf(Unmovable(v)) : Finished(v)[i].stack_depth # None
       THEN "node still on the stack"
  ELSE "links outside of the promoted nodes"

\* SearchGraph::move_to_cache: the nodes from the goal's own on go into the
\* cache, up to the first one that fails an assertion.
MoveToCache(v) ==
  CacheAll(cache, Finished(v),
           {i \in (Top.dfn + 1)..Len(nodes) : \A j \in Unmovable(v) : i < j})

\* The goal leaves the stack with answer v.  After a failed assertion the
\* solver is of no use any more, and only what it put into the shared cache
\* can still be seen.
GoalDone(v) ==
  /\ LoopDone(v)
  /\ panic' = FinishPanic(v)
  /\ cache' = IF IsHead /\ CachingEnabled /\ Top.depth + 1 = Len(entries)
              THEN MoveToCache(v)
              ELSE cache
  /\ IF FinishPanic(v) # "no"
     THEN UNCHANGED <<entries, indices, nodes, frames>>
     ELSE /\ entries' = Pop(entries)
          /\ frames' = UpdateMinimums(Pop(frames), Top.tracked, Top.minimums)
          /\ IF IsHead
             THEN /\ indices' = RetainBelow(indices, Top.dfn)
                  /\ nodes' = Truncate(nodes, Top.dfn)
             ELSE /\ nodes' = Finished(v)
                  /\ UNCHANGED indices

IterationEnds(v) ==
  /\ panic = "no"
  /\ frames # <<>>
  /\ NextRound(v) \/ GoalDone(v)

\* Another solver that holds a clone of the cache records an answer.
OtherSolverInserts(g, v) ==
  /\ CachingEnabled /\ SharedCache
  /\ cache' = [cache EXCEPT ![g] = v]
  /\ UNCHANGED <<entries, indices, nodes, frames, panic>>

Next ==
  \/ \E g \in Goals : solve_root_goal(g)
  \/ \E g \in Goals, tracked \in BOOLEAN : SolveGoal(g, tracked)
  \/ \E v \in Solutions : IterationEnds(v)
  \/ \E g \in Goals, v \in Solutions : OtherSolverInserts(g, v)

Spec == Init /\ [][Next]_vars

-----------------------------------------------------------------------------
(***************************************************************************)
(* Properties.                                                             *)
(***************************************************************************)

\* The hash map and the vector of the search graph always agree: a goal is
\* mapped to its own node, and every node can be found (search_graph.rs keeps
\* the two in step by hand in insert, rollback_to and move_to_cache).
IndicesMatchNodes ==
  /\ \A g \in Goals : indices[g] # None =>
       /\ indices[g] < Len(nodes)
       /\ nodes[indices[g] + 1].goal = g
  /\ \A i \in 1..Len(nodes) : indices[nodes[i].goal] = i - 1

\* The stack mirrors the calls that are running: one entry per call, each
\* call's node says at which depth it runs, depth-first numbers grow with the
\* depth, and no other node claims to be on the stack.
EntriesMatchCalls ==
  \A d \in 1..Len(frames) :
    entries[d].coinductive_goal = (frames[d].goal \in Coinductive)

CallsHaveNodes ==
  \A d \in 1..Len(frames) :
    /\ frames[d].depth = d - 1
    /\ frames[d].dfn < Len(nodes)
    /\ nodes[frames[d].dfn + 1].goal = frames[d].goal
    /\ nodes[frames[d].dfn + 1].stack_depth = d - 1
    /\ nodes[frames[d].dfn + 1].links = frames[d].dfn

NumbersGrow ==
  \A d, e \in 1..Len(frames) : d < e => frames[d].dfn < frames[e].dfn

NodesHaveCalls ==
  \A i \in 1..Len(nodes) : nodes[i].stack_depth # None =>
    /\ nodes[i].stack_depth < Len(frames)
    /\ frames[nodes[i].stack_depth + 1].dfn = i - 1

StackMirrorsCalls ==
  /\ Len(entries) = Len(frames)
  /\ EntriesMatchCalls
  /\ CallsHaveNodes
  /\ NumbersGrow
  /\ NodesHaveCalls

\* No dependency is lost: a goal on the stack knows (in its minimums) the
\* least number that any interim result below it, up to the next goal on the
\* stack, is linked to.  This is what makes it right to decide by the minimums
\* alone whether all of those results may be promoted.
Covers(d) ==
  {i \in 1..Len(nodes) : /\ frames[d].dfn + 1 < i
                         /\ d < Len(frames) => i <= frames[d + 1].dfn}

LinksTracked ==
  \A d \in 1..Len(frames) : \A i \in Covers(d) :
    frames[d].minimums <= nodes[i].links

\* A result that outlives its goal's time on the stack depends on an earlier
\* goal ("participant in a cycle"); independent ones are promoted or dropped.
RetainedAreCyclic ==
  \A i \in 1..Len(nodes) :
    nodes[i].stack_depth = None => nodes[i].links < i - 1

\* None of the assertions of the engine fails: pops match pushes, and
\* move_to_cache only meets finished nodes whose links stay inside of what is
\* being promoted.  Only the documented overflow panic is left.
NoAssertionFails == panic \in {"no", "overflow depth reached"}

\* Between two questions nothing is left on the stack or in the search graph
\* (the assertion of solve_root_goal, and more).
IdleIsClean ==
  frames = <<>> => entries = <<>> /\ nodes = <<>> /\ \A g \in Goals : indices[g] = None
=============================================================================
