--------------------------- MODULE MCAtemReceive ---------------------------
(* AtemReceive at sizes that satisfy the hypothesis of its theorems. *)
EXTENDS AtemReceive

ASSUME SizesFit == WindowsFit
=============================================================================
