------------------------------- MODULE Values -------------------------------
(* What the modules of MCParts share. *)

CONSTANT None   \* Python's None, which is none of the other values
=============================================================================
