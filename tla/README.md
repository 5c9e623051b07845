# A verification project for chalk's solvers

chalk decides Rust trait questions: it turns the items of a program into logical
clauses and solves goals against them. This directory holds TLA+ models of the
parts of chalk that decide, the TLC runs that check them on small instances,
and proofs, checked by TLAPS, for every instance. `PROJECT.json` lists the
runs, the mutants, the theorems, and for every definition the lines of source
it models.

## 1. The system

| Part | State | Operations | Module |
| --- | --- | --- | --- |
| Fixed-point engine (`chalk-recursive/src/fixed_point*`) | stack, search graph (map and vector), minimums of the running calls | `solve_root_goal`, `solve_goal`, `solve_new_subgoal`, `rollback_to`, `move_to_cache` | `FixedPoint` |
| Cache (`fixed_point/cache.rs`) | map of final answers behind a mutex, cloned between solvers | `get`, `insert` | `FixedPoint`, `RecursiveSolver` |
| Iterations (`recursive.rs`, `solve.rs`) | the solution so far, the clause list | `solve_iteration`, `solve_from_clauses` | `RecursiveSolver` |
| Fulfillment (`fulfill.rs`) | obligations, `cannot_prove`, inference table | `push_obligation`, `prove`, `refute`, `fulfill`, `solve` | `RecursiveSolver` (closed goals) |
| Combination (`combine.rs`, `chalk-solve/src/solve.rs`) | none | `with_priorities`, `Solution::combine` | `LogicPrograms` (closed goals) |
| SLG engine (`chalk-engine`) | tables, strands, answers, stack, clock | `root_answer`, `ensure_root_answer`, the `on_*` handlers | planned |
| Aggregation (`slg/aggregate.rs`) | guidance so far | `make_solution`, `merge_into_guidance` | planned |
| Inference table (`chalk-solve/src/infer*`) | union-find of variables, universes, snapshots | `snapshot`, `rollback_to`, `commit`, `relate` | planned |
| Canonicalization, inversion, truncation | none | pure functions on terms | planned |
| Coherence (`coherence.rs`, `coherence/`) | specialization graph, priorities | `visit_specializations_of_trait`, `set_priorities`, `perform_orphan_check` | `Coherence` |
| Clauses, well-formedness (`clauses*`, `wf.rs`) | none, or local worklists | translation of items into clauses and goals | planned in part |
| IR, display, parser, lowering, derive macros, logging, interpreter | none of interest | data types, text | not modelled |

How they interact: coherence and the well-formedness checks put questions to a
solver, which is either the recursive solver or the SLG engine. The recursive
solver asks the fixed-point engine for every goal. The engine calls back into
an iteration, the iteration goes through the clauses and hands each to a
`Fulfill`, and that asks the engine for the conditions. So one Rust call stack
runs through three modules, and next to it there is the engine's own stack,
which must mirror it. Several solvers may run in several threads with clones
of one cache.

What makes this hard to get right, and hard to test:

- results of an unfinished cycle are reused (the search graph is an "interim
  cache"), so the engine must know exactly which results are final;
- cycles nest and overlap, and an inner cycle is solved again in each round of
  an outer one;
- inductive and coinductive goals meet in one cycle;
- ambiguous answers, negation and priorities change what an answer means;
- the cache may change between any two steps because of another thread;
- every mistake is hidden by most orders of questions: an answer is wrong only
  if another question came first.

`PROJECT.json` lists these hazards one by one, at the line where they bite,
with the properties that cover them.

## 2. The modules

**`LogicPrograms`** has the propositional programs that the models work on, and
how answers are combined (`combine`, `with_priorities`).

**`Semantics`** says, independent of any solver, what a program means. A goal that has a clause whose conditions hold,
holds. Inductive goals form a least set around greatest sets of coinductive
ones. Negation and ambiguity make bounds of it (the well-founded model).
`RightAnswers` gives the answers that are right for a goal; an ambiguous one is
right only if a goal that it rests on is ambiguous by itself, or neither
certain nor impossible. `GoalAnswer` gives
the exact answer for a goal from the answers for its conditions.

**`FixedPoint`** is the engine, generic in what an iteration does, as the code
is (`SolverStuff`). While the goal on top of the stack iterates it may ask for
any goal (`SolveGoal`) and may come back with any answer (`IterationEnds`).

| Code | Model |
| --- | --- |
| `Stack::entries`, `SearchGraph::indices`, `SearchGraph::nodes`, `Cache` | `entries`, `indices`, `nodes`, `cache` |
| the Rust call stack of `solve_goal` / `solve_new_subgoal` | `frames`, with the `Minimums` local of each |
| the first half of `solve_goal` | `CacheHit`, `FoundInGraph`, `PushNewGoal` |
| an exit of, or another turn in, the loop of `solve_new_subgoal` | `GoalDone`, `NextRound` |
| `assert!` and `panic!` | a value of `panic` |

Between two calls into the iteration nothing else can run in the same solver,
so each of these is one step. The mutex of the cache is held for one lookup or
one insertion. A promotion inserts several answers. The model does it in one
step: all of a cycle's answers are inserted by one loop that reads nothing
in between, so another solver that sees half of the insertions sees a subset of
the answers that are about to be in the cache (in `engine`, other solvers insert
one answer at a time). `MAX` stands for `usize::MAX`.

**`RecursiveSolver`** extends it with what chalk's iterations really do, one
step for each thing that can be observed in between: take up the next clause,
ask for the last obligation, settle the result, make the last pass for
suggestions, end the iteration. The goals are closed. Clauses stand for clauses
whose heads match. A goal that is not a domain goal (it goes through
`solve_via_simplification`) is a goal with one clause of high priority.
Custom, program and environment clauses are one list, as in the code. With
closed goals no substitution is learned, so one round of `Fulfill::fulfill`
is all there is. A solution that suggests something is kept apart from an
unknown one, because `apply_solution` and `combine` treat them differently.

**`MCRecursiveSolver`** has the families of programs for the runs, each one
complete for its shape.

**`Coherence`** is the check of one trait: the loop over pairs of impls, the
graph, the walk, the orphan check, and the order in which the query reports
errors. An impl is the set of types it applies to. Up to three queries are put
about a pair, each to a fresh solver: are the impls disjoint, and does either
specialize the other. Each is answered truly or, independently of the others,
ambiguously (the parameter of `ComparePair`; `ambiguous` remembers which).

**`FixedPointProofs`** has the theorems about `FixedPoint`.

## 3. The runs

| Run | Shows |
| --- | --- |
| `engine` | three goals, iterations that ask and answer anything as long as they pass their minimums on (`FreshMinimums = FALSE`), any answers appearing in the shared cache: all structural invariants, no assertion fails |
| `recursive_inductive` | programs of three inductive goals on up to two cycles each; layers with negation, ambiguity, floundering and priorities; negation over cycles |
| `recursive_coinductive` | coinductive cycles that fail for a reason outside of the cycle |
| `recursive_uncached` | all cycles of three goals, one of them coinductive, with clauses of at most one condition, also ambiguous ones, without a cache (for clauses of two conditions see `mixed_participant`) |
| `recursive_shared` | one solver with a shared cache in which other solvers' right answers appear at any moment, clauses of two conditions |
| `coherence` | three impls over three types, each query about a pair ambiguous or not: priorities decide every overlap, rejections are justified |

`PrioritiesDecideOverlap` has the condition `EqualsAreRecognized`: where two
impls apply to the same types, the solvers prove both directions of
specialization, and the pair is rejected. It is needed. If for three such
impls one direction each is proved and the other ambiguous, the edges may form
a cycle, which has no root, and the trait is accepted without any priority
(`OverlapIsDecided` fails). Nothing in the code excludes such answers; a goal
that is too large for the solver is an example of an ambiguous one.

Six further runs (`expect: violation`) show a disagreement between the code
and what a comment, a doc or an assertion says. Each is a finding in
`PROJECT.json`:

- `mixed_cycle`: the answer of a goal in a mixed cycle is cached although it
  depends on where the cycle was entered;
- `mixed_participant`: a mixed cycle through a goal that has left the stack is
  not noticed, and the answer is wrong;
- `ambiguous_cycle`: an ambiguous answer ends the loop, and the other goals of
  the cycle are cached with answers that were built on the one before;
- `refute_minimums`: minimums dropped by `refute` lead to a failing assertion;
- `unwrap_suggestions`: without a cache, an obligation that was ambiguous is
  refuted when `Fulfill::solve` solves it again for a suggestion, and the
  `unwrap` panics. The obligation solved in between has put the goal into the
  search graph with an interim answer. It takes two conditions in a clause, and
  a cycle through both. With a cache the first answer is either in the cache or
  in the graph and is found again (the same programs pass with
  `CachingEnabled = TRUE`);
- `coherence_chain`: three positive impls, each more special than the one
  before, fail an assertion. The solver is never ambiguous here.

Three smaller ones were met on the way and have no run of their own. The
comment in `solve_new_subgoal` says that the answers of the rounds never
decrease, so that the loop ends. For coinductive goals they do decrease
(`AnswersNeverDecrease` fails for the programs of `recursive_coinductive`; the
loop ends all the same), and for a goal that depends on its own refutation
they alternate, and the loop does not end (`NegativeCycles`). And
`perform_orphan_check` lets an ambiguous answer pass, where its comment asks
for a proof.

Bounds, and why they are enough. Three goals give every way two cycles can
share a goal: nested, overlapping, with a participant between, a goal off the
stack that is met again. Where a goal outside of the cycle is needed there are
four. Two clauses per goal make a goal part of two cycles. Two conditions make
a goal depend on a participant and on an outside goal. The generic engine is
run on three goals and proved for any number. `OverflowDepth` is the number of
goals, so that an overflow would mean that a goal was pushed twice; the
overflow panic itself (`Stack::push`) is therefore not reached in the runs, and
is covered by the proofs, which hold for any depth. `MAX` is
larger than any depth-first number. Three impls are the least with a chain in
the specialization order, or with a cycle of one-way answers.

Deadlock is checked in all runs in which the solver never stops:
it can always be asked another question. It is switched off where the system
does stop, when a check is over (`coherence*`).

Fairness. `FairSolverSpec` has weak fairness of `Step` alone: a solver that was
asked keeps computing, because it is one thread that runs a loop. Nobody has
to ask anything, and other solvers need not run.

## 4. What is proved

`FixedPointProofs` proves, for any set of goals, any coinductive part of it,
any overflow depth, with or without a (shared) cache, and for iterations that
ask and answer anything:

- `TypeCorrect`, `GraphIsConsistent`, `StackIsFaithful`, `RootAssertionHolds`,
  `OnlyParticipantsRetained`: the structural properties of the engine;
- `DependenciesAreTracked`, `AssertionsHold`: if no call drops its minimums
  (`FreshMinimums = FALSE`), every dependency reaches the goals on the stack, and
  none of the engine's assertions can fail. The run `refute_minimums` shows
  that the condition is needed.

The argument. `Structure` is the conjunction of the type invariant, the match
of map and vector, the match of stack and calls, and that retained results are
cyclic. It is inductive: a new goal gets the next number and depth in all
places at once, a round cuts back to the goal's own number, and a finished
goal is either cut off with all that follows or keeps a link below itself.
It says nothing yet about where the links of the nodes between two goals on
the stack lead. `Dependencies` adds that: all calls are tracked, and the
minimums of a call bound the links of all nodes it covers (`LinksTracked`).
When a call returns, its node and the nodes it covers become covered by its
caller, whose minimums have just been updated from the call's, which bound
them. So when a head is found (minimums not below its own number) every node
after it is off the stack and linked inside, which are the two assertions of
`move_to_cache`.

The only assumption is `FixedPointAssumption`, the ranges of the constants.

Only model-checked: everything that depends on what programs mean
(`RepliesAreRight`, `CachedAreRight`, `AnswersAreCombined`), the action
properties, and all liveness, which is out of the prover's reach.

## 5. Plan

1. Done: `LogicPrograms`, `Semantics`, `FixedPoint`, `RecursiveSolver`, `Coherence`, the
   proofs about the engine.
2. `Forest`: the SLG engine on propositional programs. Tables, strands, stack,
   clock, positive, negative and coinductive cycles, delayed subgoals and
   refinement strands, floundering, answer modes, the quantum. Checked against
   `RightAnswers`, so that both solvers are held to one meaning, and an abstract
   specification of a stream of answers (each one once, then the end) as a
   refinement. Worth proving: the active strands are on the stack, and no
   strand is in two places.
3. `InferenceTable`: variables, universes, snapshots as a stack, unification of
   small terms with the occurs check. Worth proving: a rollback restores what
   the snapshot saw. Then canonicalization, u-canonicalization, inversion and
   truncation as operators against reference definitions.
4. `Solution` and `Fulfill` with bindings: `combine`, guidance, aggregation of
   answers, progress of the loop in `fulfill`.
5. Clauses: environment elaboration, auto traits, well-formedness goals.
6. That `RecursiveSolver` implements `FixedPoint`, as a theorem; proofs about
   `Coherence`.

## 6. Not modelled

Formatting, parsing, lowering of the test language, derive macros, logging and
the interpreter have no protocol to check. `solve_multiple` of the recursive
solver is unimplemented, and its `solve_limited` ignores `should_continue`
(`recursive.rs:143`), so there is no cancellation to model there. The parts
that the plan names are listed with their reasons in `PROJECT.json`.
