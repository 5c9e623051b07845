-------------------------- MODULE MCRecursiveSolver --------------------------
(***************************************************************************)
(* Families of programs to run the recursive solver on.  Every family is   *)
(* complete: it has all programs of its shape.                             *)
(***************************************************************************)
EXTENDS RecursiveSolver

\* The lists of at most two different clauses made of the given bodies.
ListsOf(bodies) ==
  {<<>>} \cup {<<High(x)>> : x \in bodies}
         \cup {<<High(p[1]), High(p[2])>> : p \in {q \in bodies \X bodies : q[1] # q[2]}}

\* All goals have clauses with at most one condition: the cycles of up to three
\* goals, nested and overlapping in all ways, in all orders of the clauses.
OneCondition ==
  [Goals -> {Clauses(cs) : cs \in ListsOf({<<>>} \cup {<<Prove(g)>> : g \in Goals})}]

\* All goals have clauses with at most two conditions.
TwoConditions ==
  [Goals -> {Clauses(cs) : cs \in ListsOf({<<>>} \cup {<<Prove(g)>> : g \in Goals}
                              \cup {<<Prove(g), Prove(h)>> : g \in Goals, h \in Goals})}]

\* Cycles that fail: a has any clauses of one condition, b and c one clause of up
\* to two different conditions, d no clause at all.
Conjunctions ==
  LET conditions == {Prove(g) : g \in Goals}
      single == {<<>>} \cup {<<High(<<l>>)>> : l \in conditions}
                \cup {<<High(p)>> : p \in {q \in conditions \X conditions : q[1] # q[2]}}
      either == ListsOf({<<Prove("a")>>, <<Prove("b")>>, <<Prove("c")>>})
  IN  [a : {Clauses(cs) : cs \in either}, b : {Clauses(cs) : cs \in single},
       c : {Clauses(cs) : cs \in single}, d : {Clauses(<<>>)}]

\* No cycles, but ambiguity, negation and priorities: goal a builds on b and c,
\* and b on c.
LayerC ==
  {Floundered, Clauses(<<>>)} \cup
  {Clauses(<<High(x)>>) : x \in {<<>>, <<CannotProve>>, <<RefuteNonGround>>}}

Prioritized(x, y) ==
  {Clauses(<<High(x), High(y)>>), Clauses(<<High(x), Low(y)>>), Clauses(<<Low(x), High(y)>>)}

LayerB ==
  LET bodies == {<<>>, <<Prove("c")>>, <<Refute("c")>>, <<CannotProve>>}
  IN  {Clauses(<<Low(x)>>) : x \in bodies}
      \cup UNION {Prioritized(x, <<>>) : x \in bodies \ {<<>>}}

LayerA ==
  LET conditions == {Prove("b"), Refute("b"), Prove("c"), Refute("c")}
      pairs == {p \in conditions \X conditions : p[1] # p[2]}
  IN  {Clauses(<<High(p)>>) : p \in pairs}
      \cup UNION {Prioritized(<<p[1]>>, <<p[2]>>) : p \in pairs}

Layered == [a : LayerA, b : LayerB, c : LayerC]

\* Stratified negation: a and b may form cycles, c refutes them.
Stratified ==
  LET positive == {Clauses(cs) : cs \in ListsOf({<<>>, <<Prove("a")>>, <<Prove("b")>>})}
      negative == {Clauses(cs) : cs \in ListsOf({<<Refute("a")>>, <<Refute("b")>>,
                                                <<Prove("c")>>, <<Refute("a"), Prove("b")>>})}
  IN  [a : positive, b : positive, c : negative]

\* For inductive goals: positive programs in which two of the goals lie on up to
\* two cycles, layers, and strata.
InductivePrograms ==
  {prog \in OneCondition : Len(prog["c"].clauses) <= 1} \cup Layered \cup Stratified

\* Cycles with ambiguous clauses in them.
AmbiguousCycles ==
  [Goals -> {Clauses(cs) : cs \in ListsOf({<<CannotProve>>} \cup {<<Prove(g)>> : g \in Goals})}]

\* A conjunction over goals that rest on each other and on an ambiguous clause.
AmbiguousConjunctions ==
  LET conditions == {Prove(g) : g \in Goals}
      pairs == {q \in conditions \X conditions : q[1] # q[2]}
  IN  [a : {Clauses(<<High(p)>>) : p \in pairs},
       b : {Clauses(cs) : cs \in ListsOf({<<l>> : l \in conditions})},
       c : {Clauses(<<High(p), High(<<CannotProve>>)>>) : p \in pairs}]

CyclicPrograms == OneCondition \cup AmbiguousCycles

\* Negation without strata: goals that depend on their own refutation.
NegativeCycles ==
  [Goals -> {Clauses(<<High(<<l>>)>>) :
               l \in {Prove(g) : g \in Goals} \cup {Refute(g) : g \in Goals}}]
=============================================================================
