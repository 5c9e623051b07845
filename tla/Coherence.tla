------------------------------ MODULE Coherence ------------------------------
(***************************************************************************)
(* The coherence check of one trait (chalk-solve/src/coherence.rs and      *)
(* coherence/): every pair of impls is compared, the specializations found *)
(* become edges of a graph, the priorities are set by a walk from its      *)
(* roots, and each impl is checked against the orphan rules.               *)
(*                                                                         *)
(* An impl stands for the set of input types it applies to.  Coherence     *)
(* puts up to three queries about a pair of impls, each to a fresh solver: *)
(* whether the impls are disjoint, and for either of them whether it       *)
(* specializes the other.  A solver answers truly or, independently of the *)
(* other queries, ambiguously.                                             *)
(***************************************************************************)
EXTENDS Integers, Sequences, FiniteSets, SequencesExt

CONSTANTS
  N,               \* number of local impls of the trait
  Types,           \* the input types there are
  Polarities,      \* of the impls: TRUE for positive ones, FALSE for negative ones
  MayBeAmbiguous,  \* may a solver fail to decide?
  OrphanAnswers    \* the possible answers of a solver on LocalImplAllowed

ASSUME CoherenceAssumption ==
  /\ N \in Nat
  /\ Polarities \subseteq BOOLEAN
  /\ MayBeAmbiguous \in BOOLEAN
  /\ OrphanAnswers \subseteq {"Unique", "Ambig", "None"}

Impls == 1..N
AllPairs == {p \in Impls \X Impls : p[1] < p[2]}
NoPriority == -1

\* The queries that may be put about the impls l and r.
Queries(l, r) == {<<"disjoint", l, r>>, <<"specializes", l, r>>, <<"specializes", r, l>>}
AllQueries == UNION {Queries(p[1], p[2]) : p \in AllPairs}

Symmetry == Permutations(Types)

VARIABLES
  marker, applies, positive,   \* the trait and its impls
  ambiguous,    \* auxiliary: the queries that were answered ambiguously
  pair,         \* the next pair of impls to compare
  forest,       \* edges from the less to the more special impl
  visits,       \* the calls of set_priorities to come, and their depth
  priorities,   \* SpecializationPriorities::map
  orphan,       \* the next impl for the orphan check
  status        \* what the check is doing, or its outcome

inputs == <<marker, applies, positive>>
vars == <<inputs, ambiguous, pair, forest, visits, priorities, orphan, status>>

\* "overlap found" is Err(OverlappingImpls), which is reported only after the
\* orphan check.
Statuses == {"comparing", "visiting", "orphan check", "overlap found",
             "accepted", "OverlappingImpls", "FailedOrphanCheck", "assertion failed"}

\* The locals of the coherence query: priorities and depths are usize, and the
\* edges of the graph are between impls of the trait.
TypeOK ==
  /\ marker \in BOOLEAN
  /\ applies \in [Impls -> SUBSET Types]
  /\ positive \in [Impls -> BOOLEAN]
  /\ ambiguous \subseteq AllQueries
  /\ pair \in Nat \X Nat
  /\ forest \subseteq Impls \X Impls
  /\ visits \in Seq(Impls \X Nat)
  /\ priorities \in [Impls -> Nat \cup {NoPriority}]
  /\ orphan \in 1..(N + 1)
  /\ status \in Statuses

Init ==
  /\ marker \in BOOLEAN
  /\ applies \in [Impls -> SUBSET Types \ {{}}]
  /\ positive \in [Impls -> Polarities]
  /\ ambiguous = {}
  /\ pair = <<1, 2>>
  /\ forest = {}
  /\ visits = <<>>
  /\ priorities = [i \in Impls |-> NoPriority]
  /\ orphan = 1
  /\ status = "comparing"

-----------------------------------------------------------------------------
(***************************************************************************)
(* visit_specializations_of_trait                                          *)
(***************************************************************************)
\* Mutants: an ambiguous answer passes for a proof that the impls are disjoint,
\* or no two impls are ever disjoint.
AmbiguousIsDisjoint(l, r, unsure) ==
  applies[l] \cap applies[r] = {} \/ <<"disjoint", l, r>> \in unsure
NeverDisjoint(l, r, unsure) == FALSE

\* The query must be proved: an ambiguous answer counts as overlap.  An overlap
\* in another compatible world has the same effect as an ambiguous answer.
disjoint(l, r, unsure) ==
  applies[l] \cap applies[r] = {} /\ <<"disjoint", l, r>> \notin unsure

\* The query must be proved: an ambiguous answer counts as no specialization.
specializes(less_special, more_special, unsure) ==
  /\ applies[more_special] \subseteq applies[less_special]
  /\ <<"specializes", less_special, more_special>> \notin unsure

\* tuple_combinations yields the pairs in lexicographic order.
NextPair == IF pair[2] < N THEN <<pair[1], pair[2] + 1>> ELSE <<pair[1] + 1, pair[1] + 2>>

\* All pairs have been compared, or marker impls may overlap as they like.
Compared == marker \/ pair[2] > N

\* One turn of the loop over the pairs; the queries in `unsure` are those that
\* are asked in it and answered ambiguously.
ComparePair(unsure) ==
  /\ status = "comparing"
  /\ ~Compared
  /\ LET l == pair[1]
         r == pair[2]
         negative == ~positive[l] /\ ~positive[r]
         apart == negative \/ disjoint(l, r, unsure)
         lr == specializes(l, r, unsure)
         rl == specializes(r, l, unsure)
         asked == IF negative THEN {} ELSE IF apart THEN {<<"disjoint", l, r>>} ELSE Queries(l, r)
     IN  /\ unsure \subseteq asked
         /\ IF ~apart /\ lr = rl
            THEN status' = "overlap found" /\ UNCHANGED <<pair, forest>>
            ELSE /\ pair' = NextPair
                 /\ forest' = forest \cup (IF apart THEN {}
                                           ELSE IF lr THEN {<<l, r>>} ELSE {<<r, l>>})
                 /\ UNCHANGED status
  /\ ambiguous' = ambiguous \cup unsure
  /\ UNCHANGED <<inputs, visits, priorities, orphan>>

-----------------------------------------------------------------------------
(***************************************************************************)
(* specialization_priorities and set_priorities                            *)
(***************************************************************************)
children(i) == {j \in Impls : <<i, j>> \in forest}

Roots == {i \in Impls : children(i) # {} /\ \A j \in Impls : <<j, i>> \notin forest}

\* Mutant: the depth is one too low.
DepthTooLow(S, p) == [k \in 1..Cardinality(S) |-> <<SetToSeq(S)[k], p - 1>>]

\* A call for every impl of the set; the order among them makes no difference.
CallsFor(S, p) == [k \in 1..Cardinality(S) |-> <<SetToSeq(S)[k], p>>]

StartVisit ==
  /\ status = "comparing"
  /\ Compared
  /\ visits' = CallsFor(Roots, 0)
  /\ status' = "visiting"
  /\ UNCHANGED <<inputs, ambiguous, pair, forest, priorities, orphan>>

\* SpecializationPriorities::insert asserts that the impl had no priority.
AlreadyStored(i) == priorities[i] # NoPriority

\* set_priorities: depth first, each impl at its depth.
set_priorities ==
  /\ status = "visiting"
  /\ visits # <<>>
  /\ LET i == Head(visits)[1]
         p == Head(visits)[2]
     IN  IF AlreadyStored(i)
         THEN status' = "assertion failed" /\ UNCHANGED <<visits, priorities>>
         ELSE /\ priorities' = [priorities EXCEPT ![i] = p]
              /\ visits' = CallsFor(children(i), p + 1) \o Tail(visits)
              /\ UNCHANGED status
  /\ UNCHANGED <<inputs, ambiguous, pair, forest, orphan>>

PrioritiesDone ==
  /\ status = "visiting"
  /\ visits = <<>>
  /\ status' = "orphan check"
  /\ UNCHANGED <<inputs, ambiguous, pair, forest, visits, priorities, orphan>>

-----------------------------------------------------------------------------
(***************************************************************************)
(* The query `coherence`: the orphan check runs in any case, and its error *)
(* comes before that of overlapping impls.                                 *)
(***************************************************************************)
perform_orphan_check(answer) ==
  /\ status \in {"orphan check", "overlap found"}
  /\ orphan <= N
  /\ IF answer # "None"
     THEN orphan' = orphan + 1 /\ UNCHANGED status
     ELSE status' = "FailedOrphanCheck" /\ UNCHANGED orphan
  /\ UNCHANGED <<inputs, ambiguous, pair, forest, visits, priorities>>

coherence ==
  /\ status \in {"orphan check", "overlap found"}
  /\ orphan > N
  /\ status' = IF status = "orphan check" THEN "accepted" ELSE "OverlappingImpls"
  /\ UNCHANGED <<inputs, ambiguous, pair, forest, visits, priorities, orphan>>

Unsure == IF MayBeAmbiguous THEN SUBSET Queries(pair[1], pair[2]) ELSE {{}}

Next ==
  \/ (\E unsure \in Unsure : ComparePair(unsure))
  \/ StartVisit \/ set_priorities \/ PrioritiesDone
  \/ (\E answer \in OrphanAnswers : perform_orphan_check(answer)) \/ coherence

Spec == Init /\ [][Next]_vars

-----------------------------------------------------------------------------
(***************************************************************************)
(* Properties.                                                             *)
(***************************************************************************)

StrictlyWithin(l, r) == applies[l] \subseteq applies[r] /\ applies[l] # applies[r]

\* "Impls with higher priority take precedence ... Impls with equal priority
\* should never apply to the same set of input types" (SpecializationPriority):
\* of two overlapping impls of an accepted trait, one is more special and has
\* the higher priority.
OverlapIsDecided ==
  status = "accepted" /\ ~marker =>
    \A p \in AllPairs :
      LET l == p[1]
          r == p[2]
      IN  \/ ~positive[l] /\ ~positive[r]
          \/ applies[l] \cap applies[r] = {}
          \/ applies[l] \subseteq applies[r] /\ priorities[l] > priorities[r]
          \/ applies[r] \subseteq applies[l] /\ priorities[r] > priorities[l]

\* Impls over the same types specialize each other; here the solvers said so
\* whenever they were asked.
EqualsAreRecognized ==
  \A q \in ambiguous : q[1] = "specializes" => applies[q[2]] # applies[q[3]]

\* The priorities of an accepted trait decide every overlap, whichever of the
\* other queries were answered ambiguously: the pairs that set_priorities has
\* to order are exactly those that neither visit_specializations_of_trait
\* rejected nor disjoint proved apart.
PrioritiesDecideOverlap == EqualsAreRecognized => OverlapIsDecided

\* A trait is rejected for overlap only if two of its impls overlap, or the
\* query whether they are disjoint was ambiguous; and if one of them is more
\* special than the other, the query that would have shown it was ambiguous.
OverlapIsReal ==
  status = "OverlappingImpls" =>
    \E p \in AllPairs :
      LET l == p[1]
          r == p[2]
      IN  /\ positive[l] \/ positive[r]
          /\ applies[l] \cap applies[r] # {} \/ <<"disjoint", l, r>> \in ambiguous
          /\ StrictlyWithin(r, l) => <<"specializes", l, r>> \in ambiguous
          /\ StrictlyWithin(l, r) => <<"specializes", r, l>> \in ambiguous

\* No impl is met twice in the walk (the assertion of
\* SpecializationPriorities::insert).
EachImplOnce == status # "assertion failed"
=============================================================================
