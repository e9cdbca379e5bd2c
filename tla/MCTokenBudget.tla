--------------------------- MODULE MCTokenBudget ---------------------------
(* Instances of TokenBudget: the values are all given in the .cfg files. *)
EXTENDS TokenBudget
=============================================================================
