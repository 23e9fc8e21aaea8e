--------------------------- MODULE MCSttService -----------------------------
(* Small instances of SttService for TLC.                                  *)
EXTENDS SttService
=============================================================================
