--------------------------- MODULE MCToolRegistry ----------------------------
(* Instances of ToolRegistry for TLC.                                       *)
EXTENDS ToolRegistry

TwoReviewed == {1, 3}
=============================================================================
