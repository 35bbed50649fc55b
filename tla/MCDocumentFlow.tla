-------------------------- MODULE MCDocumentFlow --------------------------
(* Instances of DocumentFlow for TLC.                                      *)
EXTENDS DocumentFlow

CONSTANTS d1, d2

=============================================================================
