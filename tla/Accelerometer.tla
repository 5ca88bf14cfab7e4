---------------------------- MODULE Accelerometer ----------------------------
(***************************************************************************)
(* The accelerometer half of koruza.c: one of the twelve statistics items  *)
(* (a window over the last Window reports, kept in a ring with a running   *)
(* sum), the connected flag and what get_status tells of them.             *)
(*                                                                         *)
(* Floats are integers here, so rounding is left out; a mean is kept as    *)
(* its numerator, and a variance v of n samples as the integer v * n ^ 3.  *)
(***************************************************************************)
EXTENDS Integers, Sequences, FiniteSetsExt

CONSTANTS
  Window,      \* ACCELEROMETER_STATISTICS_BUFFER_SIZE
  Reading,     \* the values a vibration report may carry
  MinusInfinity

ASSUME WindowOK == Window \in Nat \ {0}
ASSUME ReadingsOK ==
  /\ Reading \subseteq Int /\ MinusInfinity \in Int
  /\ \A r \in Reading \cup {0} : MinusInfinity < r

NotANumber == -1   \* no variance is negative

VARIABLES
  connected,   \* status.accelerometer.connected
  buffer, bufferMax, samples, index, sum,   \* accelerometer_statistics_item
  variance, maximum,   \* computed on demand
  recent       \* history: the last Window reports, oldest first

ring == <<buffer, bufferMax, samples, index, sum>>
vars == <<connected, ring, variance, maximum, recent>>

Slot == 0 .. Window - 1

(* memset of koruza_init *)
Init ==
  /\ connected = FALSE
  /\ buffer = [i \in Slot |-> 0] /\ bufferMax = [i \in Slot |-> 0]
  /\ samples = 0 /\ index = 0 /\ sum = 0
  /\ variance = 0 /\ maximum = 0
  /\ recent = <<>>

-----------------------------------------------------------------------------
(* Faulty variant: the value that leaves the window stays in the sum. *)
UpdateItemNoSubtract(avg, max) ==
  /\ sum' = sum + avg
  /\ buffer' = [buffer EXCEPT ![index] = avg]
  /\ bufferMax' = [bufferMax EXCEPT ![index] = max]
  /\ samples' = IF samples < Window THEN samples + 1 ELSE samples
  /\ index' = (index + 1) % Window
  /\ variance' = NotANumber /\ maximum' = MinusInfinity

(* Faulty variant: the number of samples is not bounded by the window. *)
UpdateItemCountsAll(avg, max) ==
  /\ sum' = (sum - buffer[index]) + avg
  /\ buffer' = [buffer EXCEPT ![index] = avg]
  /\ bufferMax' = [bufferMax EXCEPT ![index] = max]
  /\ samples' = samples + 1
  /\ index' = (index + 1) % Window
  /\ variance' = NotANumber /\ maximum' = MinusInfinity

(* koruza_update_accelerometer_statistics_item *)
UpdateItem(avg, max) ==
  /\ sum' = (sum - buffer[index]) + avg
  /\ buffer' = [buffer EXCEPT ![index] = avg]
  /\ bufferMax' = [bufferMax EXCEPT ![index] = max]
  /\ samples' = IF samples < Window THEN samples + 1 ELSE samples
  /\ index' = (index + 1) % Window
  /\ variance' = NotANumber /\ maximum' = MinusInfinity

Latest(s, x) == IF Len(s) < Window THEN Append(s, x) ELSE Append(Tail(s), x)

(* koruza_serial_accelerometer_message_handler, for a status report with   *)
(* and without a vibration value                                           *)
VibrationReport ==
  /\ \E avg, max \in Reading :
       UpdateItem(avg, max) /\ recent' = Latest(recent, <<avg, max>>)
  /\ connected' = TRUE

EmptyReport ==
  /\ connected' = TRUE
  /\ UNCHANGED <<ring, variance, maximum, recent>>

(* koruza_update_status: the request could not be written *)
PollFails ==
  /\ connected' = FALSE
  /\ UNCHANGED <<ring, variance, maximum, recent>>

-----------------------------------------------------------------------------
(* koruza_compute_accelerometer_statistics_item, over the used slots *)
Used == 0 .. samples - 1

(* The loop: f[0] + ... + f[n - 1] *)
SumOf(f, n) ==
  LET upTo[k \in 0 .. n] == IF k = 0 THEN 0 ELSE upTo[k - 1] + f[k - 1] IN upTo[n]

(* n ^ 2 times the squared deviations of n values whose sum is total *)
SquaredDeviations(f, n, total) ==
  [i \in 0 .. n - 1 |-> (n * f[i] - total) * (n * f[i] - total)]

Variance ==
  IF samples = 0 THEN NotANumber
  ELSE SumOf(SquaredDeviations(buffer, samples, sum), samples)

(* Faulty variant: the maximum of the means. *)
MaximumOfMeans == Max({MinusInfinity} \cup {buffer[i] : i \in Used})

Maximum == Max({MinusInfinity} \cup {bufferMax[i] : i \in Used})

(* koruza_compute_accelerometer_statistics, called for every reply of      *)
(* ubus_get_status, which sends the result.                                *)
ComputeStatistics ==
  /\ variance' = Variance /\ maximum' = Maximum
  /\ UNCHANGED <<connected, ring, recent>>

Next == VibrationReport \/ EmptyReport \/ PollFails \/ ComputeStatistics

Spec == Init /\ [][Next]_vars

-----------------------------------------------------------------------------
TypeOK ==
  /\ connected \in BOOLEAN
  /\ buffer \in [Slot -> Reading \cup {0}] /\ bufferMax \in [Slot -> Reading \cup {0}]
  /\ samples \in 0 .. Window /\ index \in Slot /\ sum \in Int
  /\ variance \in Nat \cup {NotANumber} /\ maximum \in Int

(* The running sum, only ever adjusted, is that of the last Window         *)
(* reports, and the mean is taken over as many.                            *)
Count == Len(recent)
Means == [i \in 0 .. Count - 1 |-> recent[i + 1][1]]
Total == SumOf(Means, Count)

SumIsOfWindow == sum = Total /\ samples = Count

(* A variance and a maximum are either marked as invalid or those of the   *)
(* last Window reports, whichever slot of the ring is the oldest.          *)
Spread == SumOf(SquaredDeviations(Means, Count, Total), Count)

StatisticsCurrent ==
  Count > 0 /\ variance # NotANumber =>
    variance = Spread /\ maximum = Max({recent[i][2] : i \in DOMAIN recent})
=============================================================================
