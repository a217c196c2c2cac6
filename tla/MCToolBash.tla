----------------------------- MODULE MCToolBash -----------------------------
(* The instance of ToolBash that TLC checks: a cap of one byte, commands    *)
(* that write up to two to a stream, pipes that hold two.                   *)
EXTENDS ToolBash
=============================================================================
