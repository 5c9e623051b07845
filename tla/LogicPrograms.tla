---------------------------- MODULE LogicPrograms ----------------------------
(***************************************************************************)
(* Propositional logic programs, as the solvers get them from a Rust       *)
(* program: for every goal a list of clauses, each with a list of          *)
(* conditions and a priority; and how the solvers combine the answers that *)
(* several clauses give.                                                   *)
(***************************************************************************)
EXTENDS Integers, Sequences

Prove(g) == [kind |-> "Prove", goal |-> g]
Refute(g) == [kind |-> "Refute", goal |-> g]
CannotProve == [kind |-> "CannotProve"]          \* or a goal that is too large
RefuteNonGround == [kind |-> "RefuteNonGround"]  \* a negated goal with free variables

Priorities == {"High", "Low"}
High(body) == [body |-> body, priority |-> "High"]
Low(body) == [body |-> body, priority |-> "Low"]

\* A goal has clauses, or asking for its clauses flounders.
Clauses(cs) == [floundered |-> FALSE, clauses |-> cs]
Floundered == [floundered |-> TRUE, clauses |-> <<>>]

-----------------------------------------------------------------------------
(***************************************************************************)
(* Answers.  Fallible<Solution> for a closed goal: Err(NoSolution),        *)
(* Ok(Unique), Ok(Ambig(Suggested)) and Ok(Ambig(Unknown)).  There is no   *)
(* substitution in any of them but the empty one.                          *)
(***************************************************************************)
Solutions == {"NoSolution", "Unique", "Suggested", "Unknown"}

is_ambig(s) == s \in {"Suggested", "Unknown"}

\* Solution::combine: different answers have no guidance in common.
combine(a, b) == IF a = b THEN a ELSE "Unknown"

\* Mutant: the lower priority prevails.
LowPrevails(cur, s, priority) ==
  IF cur.priority = priority
  THEN [solution |-> combine(cur.solution, s), priority |-> priority]
  ELSE IF priority = "Low" THEN [solution |-> s, priority |-> "Low"]
  ELSE cur

\* combine::with_priorities.  A closed goal has the same inputs whatever the
\* solution, so a higher priority always prevails.
with_priorities(cur, s, priority) ==
  IF cur.priority = priority
  THEN [solution |-> combine(cur.solution, s), priority |-> priority]
  ELSE IF priority = "High" THEN [solution |-> s, priority |-> "High"]
  ELSE cur

=============================================================================
