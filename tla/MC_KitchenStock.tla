--------------------------- MODULE MC_KitchenStock ---------------------------
(* One order of flour, which is weighed, and of eggs, which are counted. *)
EXTENDS KitchenStock, TLC

CONSTANTS flour, egg, p1

Recipe == [i \in {flour, egg} |-> IF i = flour THEN 5 ELSE 1]
Lines == [p \in {p1} |-> [i \in {flour, egg} |-> IF i = flour THEN 10 ELSE 1]]
Loads == [i \in {flour, egg} |-> IF i = flour THEN {5, 11} ELSE {1}]
Left == [i \in {flour, egg} |-> IF i = flour THEN {5} ELSE {}]

\* Which of two names comes first makes no difference to an action or invariant.
Names == Permutations(Postings) \cup Permutations(Batches)
         \cup Permutations(Keys) \cup Permutations(Sales)
=============================================================================
