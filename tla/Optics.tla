------------------------------- MODULE Optics -------------------------------
(***************************************************************************)
(* What koruza.c does with the optical power it reads from the SFP driver: *)
(* the colour of the LED strip and the survey.  The strip is fed by a DMA  *)
(* controller that streams the frame (pwm_raw of ws2811.c) on its own,     *)
(* while the driver may already be writing the next picture over it.       *)
(***************************************************************************)
EXTENDS Integers, FiniteSetsExt

CONSTANTS
  Led,          \* LED_COUNT
  Power,        \* the powers the SFP driver may report, in dBm
  NoPower,      \* rx_power = 0: minus infinity, as long as nothing was read
  Position,     \* the motor positions a survey may find
  Half,         \* SURVEY_BINS / 2
  Coverage,     \* SURVEY_COVERAGE
  IntModulus    \* 2^32

ASSUME LedOK == Led \in Nat \ {0}
ASSUME PowerOK == Power \subseteq Int /\ NoPower \in Int
ASSUME SurveyOK ==
  /\ Half \in Nat \ {0} /\ Coverage \in Nat \ {0} /\ Position \subseteq Int
  /\ IntModulus \in Nat \ {0} /\ IntModulus % 2 = 0

VARIABLES
  power,    \* status.sfp.rx_power
  ledsOn,   \* status.leds
  frame,    \* the picture in pwm_raw
  writing,  \* the LED ws2811_render writes next; 0 between two calls, Led + 1 in ws2811_wait
  strip,    \* what the LEDs show
  sent,     \* the LEDs the DMA has streamed of this transfer
  dma,      \* "idle", "active" or "error"
  survey,   \* survey.data, along one axis
  posOK     \* status.motors.connected

ledVars == <<power, ledsOn, frame, writing, strip, sent, dma>>
opticsVars == <<ledVars, survey, posOK>>

LedId == 1..Led
Bin == 0..(2 * Half - 1)
NoMeasure == NoPower   \* a bin that is zero

-----------------------------------------------------------------------------
(* led_color_map: the first colour is also the one of everything below it. *)
Threshold == <<-40, -38, -30, -25, -20, -15, -10, -5>>

(* Faulty variant: an entry applies above its power only. *)
ColorAbove(p) == Max({1} \cup {i \in DOMAIN Threshold : p > Threshold[i]})

(* The last entry of the map that the power reaches *)
Color(p) == Max({1} \cup {i \in DOMAIN Threshold : p >= Threshold[i]})

Dark == 0
Colors == {Dark} \cup DOMAIN Threshold

(* brightness 0 scales every colour to black *)
Shade(p, on) == IF on THEN Color(p) ELSE Dark

OpticsInit ==
  /\ power = NoPower /\ ledsOn \in BOOLEAN
  /\ frame = [i \in LedId |-> Dark] /\ strip = [i \in LedId |-> Dark]
  /\ writing = 1      \* koruza_init calls koruza_update_sfp_leds
  /\ sent = 0 /\ dma = "idle"
  /\ survey = [b \in Bin |-> NoMeasure] /\ posOK = FALSE

-----------------------------------------------------------------------------
(* koruza_sfp_get_diagnostics: the answer may have no power in it. *)
Diagnostics == Power \cup {power}

(* koruza_update_sfp: while the SFP driver is missing or does not answer   *)
(* the last reading stays.                                                 *)
UpdateSfp == power' = power \/ power' \in Diagnostics

(* koruza_timer_sfp_status_handler, koruza_update_status: the power is     *)
(* read and koruza_update_sfp_leds begins.                                 *)
SfpTimer ==
  /\ writing = 0
  /\ UpdateSfp
  /\ writing' = 1
  /\ UNCHANGED <<ledsOn, frame, strip, sent, dma, survey, posOK>>

(* koruza_set_leds *)
SetLeds ==
  /\ writing = 0
  /\ ledsOn' \in BOOLEAN
  /\ writing' = 1
  /\ UNCHANGED <<power, frame, strip, sent, dma, survey, posOK>>

(* ws2811_render writes the frame, whatever the DMA is doing, *)
WriteLed ==
  /\ writing \in LedId
  /\ frame' = [frame EXCEPT ![writing] = Shade(power, ledsOn)]
  /\ writing' = writing + 1
  /\ UNCHANGED <<power, ledsOn, strip, sent, dma, survey, posOK>>

(* Faulty variant: a transfer that is still going on will do. *)
StartDmaOnce ==
  /\ writing = Led + 1
  /\ dma' = (IF dma = "idle" THEN "active" ELSE dma)
  /\ sent' = (IF dma = "idle" THEN 0 ELSE sent)
  /\ writing' = 0
  /\ UNCHANGED <<power, ledsOn, frame, strip, survey, posOK>>

(* then waits for the DMA and starts it (ws2811_wait, dma_start), *)
StartDma ==
  /\ writing = Led + 1
  /\ dma = "idle"
  /\ dma' = "active" /\ sent' = 0
  /\ writing' = 0
  /\ UNCHANGED <<power, ledsOn, frame, strip, survey, posOK>>

(* or returns when the error flag is set, which only dma_start would clear. *)
RenderFails ==
  /\ writing = Led + 1
  /\ dma = "error"
  /\ writing' = 0
  /\ UNCHANGED <<power, ledsOn, frame, strip, sent, dma, survey, posOK>>

(* The controller (external) *)
DmaStreams ==
  /\ dma = "active"
  /\ IF sent < Led
     THEN /\ strip' = [strip EXCEPT ![sent + 1] = frame[sent + 1]]
          /\ sent' = sent + 1
          /\ UNCHANGED dma
     ELSE dma' = "idle" /\ UNCHANGED <<strip, sent>>
  /\ UNCHANGED <<power, ledsOn, frame, writing, survey, posOK>>

DmaFails ==
  /\ dma = "active"
  /\ dma' = "error"
  /\ UNCHANGED <<power, ledsOn, frame, writing, strip, sent, survey, posOK>>

-----------------------------------------------------------------------------
(* x * (SURVEY_BINS / 2) in 32 bits.  Overflow is undefined: the product   *)
(* wraps, or the compiler has folded it with the division and it is exact. *)
Fits(n) == -n <= IntModulus \div 2 /\ n < IntModulus \div 2
Product(x) ==
  LET n == x * Half
  IN  {n} \cup (IF Fits(n) THEN {} ELSE {((n + IntModulus \div 2) % IntModulus) - IntModulus \div 2})

Truncated(a, b) == IF a >= 0 THEN a \div b ELSE -((-a) \div b)

(* Faulty variant: the upper limit is the number of bins. *)
ClampedAtCount(b) == IF b < 0 THEN 0 ELSE IF b > 2 * Half THEN 2 * Half - 1 ELSE b

Clamped(b) == IF b < 0 THEN 0 ELSE IF b >= 2 * Half THEN 2 * Half - 1 ELSE b

(* Faulty variant: divides first. *)
BinsDividingFirst(x) == {Clamped(Truncated(x, Coverage) * Half + Half)}

(* The bins a position may be put in *)
Bins(x) == {Clamped(Truncated(n, Coverage) + Half) : n \in Product(x)}

(* koruza_timer_survey_handler *)
SurveyTimer(x) ==
  /\ writing = 0
  /\ posOK
  /\ \E b \in Bins(x) :
       survey' = [c \in Bin \cup {b} |-> IF c = b THEN power ELSE survey[c]]
  /\ UNCHANGED <<ledVars, posOK>>

(* koruza_survey_reset *)
ResetSurvey ==
  /\ writing = 0
  /\ survey' = [b \in Bin |-> NoMeasure]
  /\ UNCHANGED <<ledVars, posOK>>

(* The motors link connects and disconnects. *)
MotorsLink ==
  /\ writing = 0
  /\ posOK' = ~posOK
  /\ UNCHANGED <<ledVars, survey>>

-----------------------------------------------------------------------------
Render == WriteLed \/ StartDma \/ RenderFails

OpticsNext ==
  \/ SfpTimer \/ SetLeds \/ Render \/ DmaStreams \/ DmaFails
  \/ (\E x \in Position : SurveyTimer(x)) \/ ResetSurvey \/ MotorsLink

(* A call of ws2811_render goes on, and so does a transfer that meets no   *)
(* error.                                                                  *)
OpticsFair == WF_opticsVars(Render) /\ WF_opticsVars(DmaStreams)

OpticsSpec == OpticsInit /\ [][OpticsNext]_opticsVars /\ OpticsFair

-----------------------------------------------------------------------------
OpticsTypeOK ==
  /\ power \in Power \cup {NoPower}
  /\ {ledsOn, posOK} \subseteq BOOLEAN
  /\ frame \in [LedId -> Colors] /\ strip \in [LedId -> Colors]
  /\ writing \in 0..(Led + 1) /\ sent \in 0..Led
  /\ dma \in {"idle", "active", "error"}
  /\ survey \in [Bin -> Power \cup {NoPower}]

(* The colour c is the one led_color_map has for the power p. *)
Matches(c, p) ==
  /\ c \in DOMAIN Threshold
  /\ p >= Threshold[c] \/ c = 1
  /\ c + 1 \in DOMAIN Threshold => p < Threshold[c + 1]

Shows(p, on) == \A i \in LedId : IF on THEN Matches(strip[i], p) ELSE strip[i] = Dark

(* koruza_update_sfp_leds: between two updates, once the DMA has finished  *)
(* without an error, the whole strip shows the colour of the last power    *)
(* read, or is dark; although a picture may have been written over the one *)
(* that was being sent.                                                    *)
StripShowsPower == writing = 0 /\ dma = "idle" => Shows(power, ledsOn)

(* ws2811_render: a power that stays is shown in the end and stays shown,  *)
(* unless the DMA has met an error.                                        *)
ShowsPower ==
  \A p \in Power, on \in BOOLEAN :
    <>[](power = p /\ ledsOn = on /\ dma # "error") => <>[]Shows(p, on)

(* The bins are Coverage / Half wide, the first and the last one take what *)
(* is outside the survey, and as the division truncates towards the centre *)
(* the bin there takes both sides of it.                                   *)
Covers(b, x) ==
  LET n == x * Half
      c == b - Half
  IN  /\ b = 0 \/ (IF c > 0 THEN n >= c * Coverage ELSE n > (c - 1) * Coverage)
      /\ b = 2 * Half - 1 \/ (IF c < 0 THEN n <= c * Coverage ELSE n < (c + 1) * Coverage)

(* koruza_timer_survey_handler changes one bin, to the last power read:    *)
(* the one that covers the position, unless the product overflows, which   *)
(* leaves any of them.                                                     *)
SurveyPlaces ==
  [][\A x \in Position : SurveyTimer(x) =>
       \E b \in Bin : /\ survey' = [survey EXCEPT ![b] = power]
                      /\ Fits(x * Half) => Covers(b, x)]_opticsVars
=============================================================================
