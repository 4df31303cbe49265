-------------------------- MODULE MCAdaptiveBatching --------------------------
(* Instances of AdaptiveBatching for TLC.                                   *)
EXTENDS AdaptiveBatching

=============================================================================
