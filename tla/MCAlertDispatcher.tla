------------------------- MODULE MCAlertDispatcher -------------------------
(* Instances of AlertDispatcher: the .cfg files give the constants.      *)
EXTENDS AlertDispatcher
=============================================================================
