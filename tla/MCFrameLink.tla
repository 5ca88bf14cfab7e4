---------------------------- MODULE MCFrameLink ----------------------------
(* TLC instance of FrameLink: the empty message, a plain byte, a marker    *)
(* byte and a pair with one escape; the receiver also accepts contents     *)
(* nobody sends.                                                           *)
EXTENDS FrameLink

CONSTANT d1

MCData == {d1}
MCMessages == {<<>>, <<d1>>, <<END>>, <<d1, ESC>>}
MCWellFormed == MCMessages \cup {<<START>>, <<d1, d1>>}
=============================================================================
