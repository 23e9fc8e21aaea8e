-------------------------- MODULE MCSpeechPipeline --------------------------
(* Small instances of SpeechPipeline for TLC.                              *)
EXTENDS SpeechPipeline
=============================================================================
