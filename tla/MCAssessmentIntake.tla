------------------------- MODULE MCAssessmentIntake -------------------------
(* Small instances of AssessmentIntake for TLC.                            *)
EXTENDS AssessmentIntake, TLC

CONSTANTS b1, b2, b3, c1, c2

(* Two spellings of one content, and another content.                      *)
Spellings == b1 :> c1 @@ b2 :> c1 @@ b3 :> c2

=============================================================================
