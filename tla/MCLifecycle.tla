---------------------------- MODULE MCLifecycle ----------------------------
(* Instances of Lifecycle.                                               *)
EXTENDS Lifecycle
=============================================================================
