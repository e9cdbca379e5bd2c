---------------------------- MODULE MCClassifier ----------------------------
(* Instances of Classifier.  Histories holds one history per branch of the
   decision, and histories at its thresholds. *)
EXTENDS Classifier, TLC

CONSTANTS a1, a2, i1, i2

History(n, m, s, c) == [samples |-> n, mean |-> m, sd |-> s, current |-> c]

Histories == {
    History(17, 1, 0, 9),      \* too short
    History(359, 1, 0, 1),     \* steady, not long enough to be trusted
    History(360, 10, 5, 10),   \* steady enough
    History(360, 1, 1, 5),     \* z = 4: tight cap
    History(18, 1, 1, 4),      \* z = 3: lenient cap
    History(18, 100, 10, 0)}   \* gone quiet: z = 10

Symmetric == Permutations({a1, a2}) \cup Permutations({i1, i2})
=============================================================================
