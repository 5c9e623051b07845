--------------------------- MODULE RecursiveSolver ---------------------------
(***************************************************************************)
(* The recursive solver (chalk-recursive/src): the fixed-point engine of   *)
(* FixedPoint.tla driven by what chalk's iterations really do.  An         *)
(* iteration of a goal runs through the program clauses for the goal       *)
(* (solve.rs); for each of them it proves or refutes the conditions, last  *)
(* one first (fulfill.rs), and the results are combined (combine.rs).      *)
(*                                                                         *)
(* Goals are closed: they have no inference variables, so a solution       *)
(* carries no substitution and applying one teaches nothing (one round of  *)
(* Fulfill::fulfill is enough).  A program maps every goal to its clauses, *)
(* or says that enumerating them flounders.                                *)
(***************************************************************************)
EXTENDS FixedPoint, Semantics

CONSTANT Programs   \* the programs to consider: each defines every goal

VARIABLES
  program,   \* the one the solver works with
  answers,   \* auxiliary: the right answers for that program
  work,      \* the locals of solve_from_clauses and Fulfill, one per frame
  reply      \* the last answer to a question from outside

solverVars == <<program, answers, work, reply>>
allVars == <<vars, solverVars>>

\* One solve_from_clauses in progress: the clauses tried so far, the pending and
\* the ambiguous obligations of the current Fulfill, and cur_solution, whose
\* value None is NoCurrent.
NoCurrent == [solution |-> "NoSolution", priority |-> "Low"]

\* Mutant: the first clause is skipped.
SkipFirstClause ==
  [clause |-> 1, phase |-> "next clause", obligations |-> <<>>,
   retained |-> <<>>, cannot_prove |-> FALSE, cur |-> NoCurrent]

NewWork == [clause |-> 0, phase |-> "next clause", obligations |-> <<>>,
            retained |-> <<>>, cannot_prove |-> FALSE, cur |-> NoCurrent]

Phases == {"next clause", "fulfill", "suggest", "unwrap on an Err value"}

NoReply == [goal |-> "none", solution |-> "none"]

\* The state of the engine and the locals of solve_from_clauses and Fulfill: one
\* set of locals for every call that is running, in a clause that the goal has.
SolverTypeOK ==
  /\ TypeOK
  /\ program \in Programs
  /\ Len(work) = Len(frames)
  /\ \A d \in 1..Len(work) :
       /\ work[d].clause \in 0..Len(program[frames[d].goal].clauses)
       /\ work[d].phase \in Phases
       /\ work[d].cannot_prove \in BOOLEAN
       /\ work[d].cur \in [solution : Solutions, priority : Priorities]
  /\ reply = NoReply \/ reply \in [goal : Goals, solution : Solutions]

SolverInit ==
  /\ Init
  /\ program \in Programs
  /\ answers = RightAnswers(program, Goals, Coinductive)
  /\ work = <<>>
  /\ reply = NoReply

Current == work[Len(work)]

\* The priority of the clause that the call at depth d is working on.
ClausePriority(d) == program[frames[d].goal].clauses[work[d].clause].priority

-----------------------------------------------------------------------------
(***************************************************************************)
(* Fulfill: what happens to the work in progress.                          *)
(***************************************************************************)
LastOf(s) == s[Len(s)]

\* Fulfill::new_with_clause: the conditions become obligations in order; a
\* CannotProve goal only leaves its mark.
NewFulfill(w, body) ==
  [w EXCEPT !.clause = @ + 1, !.phase = "fulfill",
            !.obligations = SelectSeq(body, LAMBDA l : l.kind # "CannotProve"),
            !.retained = <<>>,
            !.cannot_prove = \E i \in 1..Len(body) : body[i].kind = "CannotProve"]

\* The clause failed: Fulfill::solve returned an error.
ClauseFailed(w) == [w EXCEPT !.phase = "next clause"]

\* The clause has solution s; combine it with what the clauses before it gave.
ClauseSolved(w, s, priority) ==
  [w EXCEPT !.phase = "next clause",
            !.cur = IF @ = NoCurrent THEN [solution |-> s, priority |-> priority]
                    ELSE with_priorities(@, s, priority)]

\* A pending obligation is taken off the list, and kept for later if its
\* outcome is ambiguous.
Settled(w, ambiguous) ==
  [w EXCEPT !.obligations = Pop(@),
            !.retained = IF ambiguous THEN Append(@, LastOf(w.obligations)) ELSE @]

\* Mutant: proving and refuting are confused.
ProveRefuteSwapped(w, v, priority) ==
  LET obligation == LastOf(w.obligations)
      failed == \/ obligation.kind = "Prove" /\ v = "Unique"
                \/ obligation.kind = "Refute" /\ v = "NoSolution"
  IN  IF failed THEN ClauseFailed(w) ELSE Settled(w, is_ambig(v))

\* What the answer v to the last pending obligation does: Fulfill::prove and
\* Fulfill::refute, and what the two loops make of their results.
Absorb(w, v, priority) ==
  LET obligation == LastOf(w.obligations)
      failed == \/ obligation.kind = "Prove" /\ v = "NoSolution"
                \/ obligation.kind = "Refute" /\ v = "Unique"
  IN  IF w.phase = "fulfill"
      THEN IF failed THEN ClauseFailed(w) ELSE Settled(w, is_ambig(v))
      ELSE CASE v = "NoSolution" -> [w EXCEPT !.phase = "unwrap on an Err value"]
             [] v = "Unknown"    -> [w EXCEPT !.obligations = Pop(@)]
             [] OTHER            -> ClauseSolved(w, "Suggested", priority)

-----------------------------------------------------------------------------
(***************************************************************************)
(* Actions.                                                                *)
(***************************************************************************)
Running == panic = "no" /\ frames # <<>>

\* RecursiveSolver::solve, for a goal whose answer is cached or that must be
\* pushed.
solve(g) ==
  /\ solve_root_goal(g)
  /\ IF frames' = <<>> /\ panic' = "no"
     THEN reply' = [goal |-> g, solution |-> FoundAnswer(g)] /\ UNCHANGED work
     ELSE reply' = NoReply /\ work' = (IF panic' = "no" THEN <<NewWork>> ELSE <<>>)
  /\ UNCHANGED <<program, answers>>

\* solve_from_clauses takes up the next clause.
StartClause ==
  /\ Running
  /\ Current.phase = "next clause"
  /\ ~program[Top.goal].floundered
  /\ Current.clause < Len(program[Top.goal].clauses)
  /\ Current.cur # [solution |-> "Unknown", priority |-> "High"]
  /\ work' = [work EXCEPT ![Len(work)] =
                NewFulfill(@, program[Top.goal].clauses[Current.clause + 1].body)]
  /\ UNCHANGED <<vars, program, answers, reply>>

\* Solve the obligation at the end of the list, through the engine.  A goal to
\* prove passes the minimums of the iteration on, a goal to refute does not.
AskObligation(phase, kind) ==
  /\ Running
  /\ Current.phase = phase
  /\ Current.obligations # <<>>
  /\ LastOf(Current.obligations).kind = kind
  /\ LET g == LastOf(Current.obligations).goal
     IN  /\ SolveGoal(g, kind = "Prove")
         /\ work' = IF panic' # "no" THEN work
                    ELSE IF Len(frames') > Len(frames) THEN Append(work, NewWork)
                    ELSE [work EXCEPT ![Len(work)] =
                            Absorb(@, FoundAnswer(g), ClausePriority(Len(work)))]
  /\ UNCHANGED <<program, answers, reply>>

prove == AskObligation("fulfill", "Prove")

refute == AskObligation("fulfill", "Refute")

\* A goal to refute that still has free variables is ambiguous at once.
RefuteOpenGoal ==
  /\ Running
  /\ Current.phase = "fulfill"
  /\ Current.obligations # <<>>
  /\ LastOf(Current.obligations).kind = "RefuteNonGround"
  /\ work' = [work EXCEPT ![Len(work)] = Settled(@, TRUE)]
  /\ UNCHANGED <<vars, program, answers, reply>>

\* No obligation is pending: Fulfill::solve packs up the outcome, or goes
\* through the ambiguous obligations a last time for a suggestion.
FulfillDone ==
  /\ Running
  /\ Current.phase = "fulfill"
  /\ Current.obligations = <<>>
  /\ work' = [work EXCEPT ![Len(work)] =
       IF @.cannot_prove THEN ClauseSolved(@, "Unknown", ClausePriority(Len(work)))
       ELSE IF @.retained = <<>> THEN ClauseSolved(@, "Unique", ClausePriority(Len(work)))
       ELSE [@ EXCEPT !.phase = "suggest", !.obligations = Current.retained]]
  /\ UNCHANGED <<vars, program, answers, reply>>

\* The last pass: goals to prove are solved once more, the others skipped.
SuggestProve == AskObligation("suggest", "Prove")

SuggestSkip ==
  /\ Running
  /\ Current.phase = "suggest"
  /\ Current.obligations # <<>>
  /\ LastOf(Current.obligations).kind # "Prove"
  /\ work' = [work EXCEPT ![Len(work)].obligations = Pop(@)]
  /\ UNCHANGED <<vars, program, answers, reply>>

SuggestDone ==
  /\ Running
  /\ Current.phase = "suggest"
  /\ Current.obligations = <<>>
  /\ work' = [work EXCEPT ![Len(work)] = ClauseSolved(@, "Unknown", ClausePriority(Len(work)))]
  /\ UNCHANGED <<vars, program, answers, reply>>

\* All clauses have been tried, or the answer cannot get better: the answer of
\* the iteration, and with it the end of the round or of the goal.
IterationAnswer ==
  IF program[Top.goal].floundered THEN "Unknown" ELSE Current.cur.solution

EndIteration ==
  /\ Running
  /\ Current.phase = "next clause"
  /\ \/ program[Top.goal].floundered
     \/ Current.clause = Len(program[Top.goal].clauses)
     \/ Current.cur = [solution |-> "Unknown", priority |-> "High"]
  /\ IterationEnds(IterationAnswer)
  /\ LET caller == Len(work) - 1
         v == IterationAnswer
     IN  IF panic' # "no" THEN UNCHANGED <<work, reply>>
         ELSE IF Len(frames') = Len(frames)
         THEN work' = [work EXCEPT ![Len(work)] = NewWork] /\ UNCHANGED reply
         ELSE IF caller = 0
         THEN work' = <<>> /\ reply' = [goal |-> Top.goal, solution |-> v]
         ELSE /\ work' = [Pop(work) EXCEPT ![caller] =
                   Absorb(@, v, ClausePriority(caller))]
              /\ UNCHANGED reply
  /\ UNCHANGED <<program, answers>>

Step ==
  \/ StartClause \/ prove \/ refute \/ RefuteOpenGoal \/ FulfillDone
  \/ SuggestProve \/ SuggestSkip \/ SuggestDone \/ EndIteration

\* Another solver for the same program shares what it found out.
Share ==
  /\ \E g \in Goals : \E v \in answers[g] : OtherSolverInserts(g, v)
  /\ UNCHANGED solverVars

SolverNext == (\E g \in Goals : solve(g)) \/ Step \/ Share

SolverSpec == SolverInit /\ [][SolverNext]_allVars

\* A solver that was asked a question keeps computing.
FairSolverSpec == SolverSpec /\ WF_allVars(Step)

-----------------------------------------------------------------------------
(***************************************************************************)
(* Properties.                                                             *)
(***************************************************************************)

\* Every answer to a question from outside is right, whatever was asked before
\* and whatever is in the cache (RecursiveSolver::solve).
RepliesAreRight ==
  reply # NoReply => reply.solution \in answers[reply.goal]

\* Every answer in the cache is the combination of the solutions that the goal's
\* clauses have, whatever their order (solve_from_clauses and
\* combine::with_priorities go through them one by one and may stop early),
\* whether it was found below another goal or as the fixed point of a cycle.
\* The goals below a goal are in the cache by then, unless the answer is the
\* same without them.
AnswersAreCombined ==
  \A g \in Goals : cache[g] # Absent => cache[g] = GoalAnswer(program[g], cache)

\* Every answer promoted to the cache is right for good, also that of a goal
\* that only took part in the cycle of another one (SearchGraph::move_to_cache).
CachedAreRight ==
  \A g \in Goals : cache[g] # Absent => cache[g] \in answers[g]

\* The last pass over the ambiguous obligations never meets an error, so the
\* unwrap of Fulfill::solve is safe: what was ambiguous when the clause's
\* obligations were solved is not refuted when it is solved once more.
UnwrapIsSafe ==
  \A d \in 1..Len(work) : work[d].phase # "unwrap on an Err value"

\* No panic: the assertions hold, and a stack as deep as there are goals never
\* overflows, because a goal that is being solved is not pushed again.
NoPanic == panic = "no"

\* The answers of a goal's iterations never decrease in the order that the
\* comment in solve_new_subgoal gives (none, then unique, then ambiguous).
Rank(s) == CASE s = "NoSolution" -> 0 [] s = "Unique" -> 1 [] OTHER -> 2

AnswersNeverDecrease ==
  [][\A i \in 1..Len(nodes) :
       i <= Len(nodes') => Rank(nodes[i].solution) <= Rank(nodes'[i].solution)]_allVars

\* An answer in the cache is never replaced by another one: a goal is promoted
\* once and is answered from the cache from then on.
CacheIsFinal ==
  [][\A g \in Goals : cache[g] # Absent => cache'[g] = cache[g]]_allVars

\* Every question is answered: the loop of solve_new_subgoal reaches a fixed
\* point in every goal, however the cycles are nested.
EveryQuestionIsAnswered == frames # <<>> ~> frames = <<>>
=============================================================================
