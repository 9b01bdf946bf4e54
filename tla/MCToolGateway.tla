---------------------------- MODULE MCToolGateway -----------------------------
(* Instances of ToolGateway for TLC.                                        *)
EXTENDS ToolGateway

OneReviewed == {1}
=============================================================================
