-------------------------- MODULE MCPttController ---------------------------
(* Small instances of PttController for TLC.                               *)
EXTENDS PttController
=============================================================================
