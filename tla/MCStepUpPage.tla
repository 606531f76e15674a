--------------------------- MODULE MCStepUpPage ---------------------------
(* StepUpPage with access tokens that have an email claim. *)
EXTENDS StepUpPage

CONSTANT TokenEmail

Claims == [u \in Users |-> TokenEmail]
=============================================================================
