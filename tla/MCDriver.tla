------------------------------ MODULE MCDriver ------------------------------
EXTENDS Driver

CONSTANTS a1, a2   \* two addresses: the interface may get another one

MCAddress == {a1, a2}
MCGpioFails == {"export", "direction", "write", "unexport"}
\* Two offsets further apart than the slack, in a zoom of 2/5 as configured
\* by default; the global offset 0 is left of the picture.
MCOffset == {2, 9}

\* The liveness run's, where the offset does not matter
MCOneOffset == {9}
=============================================================================
