------------------------ MODULE MCAssessmentListing ------------------------
(* A small instance of AssessmentListing for TLC.                          *)
EXTENDS AssessmentListing

=============================================================================
