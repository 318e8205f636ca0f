----------------------------- MODULE MCWorker -----------------------------
(* Model-checking instance of Worker: three requests at once, one slot.      *)
EXTENDS Worker

=============================================================================
