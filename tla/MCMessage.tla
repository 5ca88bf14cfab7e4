----------------------------- MODULE MCMessage -----------------------------
(* Three byte values, so that a length of three is the first that needs    *)
(* both length bytes, one structure on each side of that, and a checksum   *)
(* of two bytes instead of four.                                           *)
EXTENDS Message

Types == {0, 1}
Sizes == [t \in Types |-> IF t = 0 THEN 1 ELSE 3]
Values == {<<0>>, <<2>>, <<1, 2, 2>>}
SumAndLength(bytes) ==
  LET s == FoldLeft(LAMBDA a, b : a + b, 0, bytes) IN <<s % Base, Len(bytes) % Base>>
=============================================================================
