--------------------------- MODULE MCFrameParser ---------------------------
(* TLC instance of FrameParser: one content byte, every content of at most *)
(* two bytes accepted, so that a handed message is easy to reach.          *)
EXTENDS FrameParser

CONSTANT d1

MCData == {d1}
MCWellFormed == {<<>>} \cup {<<a>> : a \in Byte} \cup {<<a, b>> : a, b \in Byte}
=============================================================================
