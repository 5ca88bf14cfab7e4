----------------------------- MODULE MCDevices -----------------------------
(* The ports, the accelerometer's statistics and the optics share no       *)
(* variable, so each is explored with the others at rest: part says which. *)
EXTENDS Accelerometer, Optics, SerialPort

\* A window of three reports and readings of both signs: a report can leave
\* the window, and a maximum can be negative.
Readings  == {-2, 1, 3}
NoMaximum == -100

\* Two powers, one on the edge of a colour.  Bins of five units, positions in
\* and between them, off both ends and one whose product overflows six bits.
Powers    == {-30, -7}
NoReading == -99
Positions == {-12, -7, -5, 3, 5, 12, 20}

\* Four descriptor numbers: one for each device and two for the others, so
\* that numbers are reused and the table can be full.
Numbers == 3..6

VARIABLE part

rest == <<vars, opticsVars, portVars, part>>

MCInit ==
  /\ Init /\ OpticsInit /\ PortInit
  /\ part \in {"accelerometer", "optics", "ports"}
  /\ ledsOn => part = "optics"
  /\ plugged # {} => part = "ports"

MCNext ==
  \/ part = "accelerometer" /\ Next /\ UNCHANGED <<opticsVars, portVars, part>>
  \/ part = "optics" /\ OpticsNext /\ UNCHANGED <<vars, portVars, part>>
  \/ part = "ports" /\ PortNext /\ UNCHANGED <<vars, opticsVars, part>>

(* The fairness of Optics and SerialPort, where they run. *)
MCFair ==
  /\ WF_opticsVars(part = "optics" /\ Render) /\ WF_opticsVars(part = "optics" /\ DmaStreams)
  /\ \A d \in Device : WF_portVars(part = "ports" /\ SendReopens(d))

MCSpec == MCInit /\ [][MCNext]_rest /\ MCFair
=============================================================================
