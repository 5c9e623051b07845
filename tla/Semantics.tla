------------------------------ MODULE Semantics ------------------------------
(***************************************************************************)
(* The meaning of a program.  A goal holds if all conditions of one of its *)
(* clauses do.  A proof may rest on a coinductive goal without end, on an  *)
(* inductive goal only finitely often: the least set of inductive goals    *)
(* around the greatest set of coinductive ones.  Where a program is        *)
(* ambiguous there are bounds, the goals that hold in any case (Certain)   *)
(* and the goals that hold in some case (Possible).                        *)
(***************************************************************************)
EXTENDS LogicPrograms, FiniteSets

\* Does condition l hold, given the goals in `true` and, for negation, the
\* goals in `refutable`?  `ambiguous` says what to take an ambiguous one for.
Holds(l, true, refutable, ambiguous) ==
  CASE l.kind = "Prove" -> l.goal \in true
    [] l.kind = "Refute" -> l.goal \notin refutable
    [] OTHER -> ambiguous

HasProof(def, true, refutable, ambiguous) ==
  \/ def.floundered /\ ambiguous
  \/ \E i \in 1..Len(def.clauses) :
       LET body == def.clauses[i].body
       IN  \A j \in 1..Len(body) : Holds(body[j], true, refutable, ambiguous)

\* The goals that hold when negation is judged by the set `refutable`.
Model(prog, goals, coinductive, refutable, ambiguous) ==
  LET Consequences(S, true) == {g \in S : HasProof(prog[g], true, refutable, ambiguous)}
      Greatest(ind) ==
        UNION {C \in SUBSET coinductive : C \subseteq Consequences(C, ind \cup C)}
      inductive == goals \ coinductive
      closed == {I \in SUBSET inductive :
                   Consequences(inductive, I \cup Greatest(I)) \subseteq I}
      least == {g \in inductive : \A I \in closed : g \in I}
  IN  least \cup Greatest(least)

\* What may hold if no more than the goals in `certain` are certain, and what is
\* then certain: the two bounds of the well-founded model.  Deriving is monotone,
\* so that it has settled after as many times as there are goals.
PossibleGiven(prog, goals, coinductive, certain) ==
  Model(prog, goals, coinductive, certain, TRUE)

Certain(prog, goals, coinductive) ==
  LET Derive(S) == Model(prog, goals, coinductive,
                       PossibleGiven(prog, goals, coinductive, S), FALSE)
      after[n \in 0..Cardinality(goals)] == IF n = 0 THEN {} ELSE Derive(after[n - 1])
  IN  after[Cardinality(goals)]

Possible(prog, goals, coinductive) ==
  PossibleGiven(prog, goals, coinductive, Certain(prog, goals, coinductive))

\* Nothing in the program is ambiguous by itself.
Determinate(def) ==
  /\ ~def.floundered
  /\ \A i \in 1..Len(def.clauses) : \A j \in 1..Len(def.clauses[i].body) :
       def.clauses[i].body[j].kind \in {"Prove", "Refute"}

\* The goals that a proof or refutation of g may rest on, g included.
RestsOn(prog, goals, g) ==
  LET conditions(h) == {prog[h].clauses[i].body : i \in 1..Len(prog[h].clauses)}
      Below(h) == {k \in goals : \E body \in conditions(h) : \E j \in 1..Len(body) :
                     body[j].kind \in {"Prove", "Refute"} /\ body[j].goal = k}
      within[n \in 0..Cardinality(goals)] ==
        IF n = 0 THEN {g} ELSE within[n - 1] \cup UNION {Below(h) : h \in within[n - 1]}
  IN  within[Cardinality(goals)]

\* The answers that are right for each goal: "yes" only for what is certain,
\* "no" only for what is impossible, and "maybe" only if one of the goals that
\* it rests on is ambiguous by itself or neither certain nor impossible.
RightAnswers(prog, goals, coinductive) ==
  LET certain == Certain(prog, goals, coinductive)
      possible == Possible(prog, goals, coinductive)
      definite == {g \in goals : Determinate(prog[g]) /\ (g \in possible => g \in certain)}
  IN  [g \in goals |->
        {v \in Solutions : /\ v = "Unique" => g \in certain
                           /\ v = "NoSolution" => g \notin possible
                           /\ is_ambig(v) => ~(RestsOn(prog, goals, g) \subseteq definite)}]

(***************************************************************************)
(* The exact answer for a goal, given the answers `val` for the goals that *)
(* its clauses rest on: the solutions of the clauses of the highest        *)
(* priority that has any, if they agree.                                   *)
(***************************************************************************)
ConditionAnswer(l, val) ==
  CASE l.kind = "Prove" -> val[l.goal]
    [] l.kind = "Refute" /\ val[l.goal] = "NoSolution" -> "Unique"
    [] l.kind = "Refute" /\ val[l.goal] = "Unique" -> "NoSolution"
    [] OTHER -> "Unknown"

BodyAnswer(body, val) ==
  LET outcomes == {ConditionAnswer(body[j], val) : j \in 1..Len(body)}
      guided == \E j \in 1..Len(body) :
                  body[j].kind = "Prove" /\ ConditionAnswer(body[j], val) = "Suggested"
  IN  CASE "NoSolution" \in outcomes -> "NoSolution"
        [] outcomes \subseteq {"Unique"} -> "Unique"
        [] guided /\ \A j \in 1..Len(body) : body[j] # CannotProve -> "Suggested"
        [] OTHER -> "Unknown"

GoalAnswer(def, val) ==
  LET Of(priority) == {BodyAnswer(def.clauses[i].body, val) :
                         i \in {k \in 1..Len(def.clauses) : def.clauses[k].priority = priority}}
                      \ {"NoSolution"}
      prevailing == IF Of("High") # {} THEN Of("High") ELSE Of("Low")
  IN  IF def.floundered THEN "Unknown"
      ELSE IF prevailing = {} THEN "NoSolution"
      ELSE IF \E s \in Solutions : prevailing = {s}
           THEN CHOOSE s \in Solutions : prevailing = {s}
      ELSE "Unknown"
=============================================================================
