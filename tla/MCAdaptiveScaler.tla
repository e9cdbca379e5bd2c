-------------------------- MODULE MCAdaptiveScaler --------------------------
(* Instances of AdaptiveScaler: the values are all given in the .cfg files. *)
EXTENDS AdaptiveScaler
=============================================================================
