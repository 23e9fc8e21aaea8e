---------------------------- MODULE MCEngineLoop ----------------------------
(* Small instances of EngineLoop for TLC.                                  *)
EXTENDS EngineLoop

Scene(src, arm, v, n) == [source |-> src, armed |-> arm, verbs |-> v, notices |-> n]

\* Three questions typed; two spoken behind a viewer; a full buffer; the unarmed
\* engine; and one question each with speech starting behind the engine's back.
MCScenes ==
  {Scene(<<"direct", "direct", "direct">>, TRUE, 0, 0),
   Scene(<<"chat", "ptt", "ptt">>, TRUE, 0, 0),
   Scene(<<"chat", "agenda", "chat">>, TRUE, 1, 0),
   Scene(<<"agenda", "direct", "chat">>, FALSE, 0, 0),
   Scene(<<"chat", "ptt", "none">>, TRUE, 1, 1)}
=============================================================================
