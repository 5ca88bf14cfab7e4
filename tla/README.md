# koruza-driver in TLA+

`koruza-driver` runs on the processor of a KORUZA free-space optical unit. It talks to two
microcontrollers (the *motors MCU* and the *accelerometer MCU*) over serial lines, reads the
optical power from an SFP driver over uBus, keeps its settings in UCI, shows the signal on
LEDs, answers uBus calls and looks for the unit at the other end of the link by UDP. This
directory models the parts of it that are hard to get right and hard to test, checks them
with TLC and proves the main results with TLAPS. Everything is translated from the C source;
line numbers below refer to `src/`.

## 1. Inventory

The driver is one process with one thread: `main.c` initialises uloop, uBus, UCI, the serial
ports, koruza, the uBus object, the network and the upgrade module, in that order, and then
stays in `uloop_run`. Concurrency comes from outside (both MCUs, uBus clients, the kernel,
the hot-plugged accelerometer) and from the loop, which runs timers and descriptor handlers
in an order the handlers do not choose. A handler is never interrupted, except by the death of
the process.

| component | state | operations | hard because |
|---|---|---|---|
| framing (`frame.c`) | parser state, buffer, its length and size | push a byte, frame a message | bytes may be lost or invented anywhere; the parser is never reset; a size limit inside a state machine |
| messages (`message.c`, `crc32.c`) | TLV array with heap values | add, checksum, serialize, parse, typed getters | any bytes may arrive; every error exit must free |
| serial ports (`serial.c`) | per device: ready, descriptor, registered with uloop, parser | init, reinit, send, read handler | devices come and go, descriptors are numbers the kernel hands out again |
| motors link (`koruza.c`) | connected, position, pending watchdog; UCI context and committed file | poll, handle report / restore request, move, home, reboot | two machines that crash separately, over an unreliable line; the commit may fail |
| watchdog (`koruza.c`, uloop) | three timers | status, SFP, wait-reply timer, report | blocking calls inside timer handlers, the order of timers and reads in uloop |
| accelerometer (`koruza.c`) | twelve ring buffers with running sums, connected | report, compute statistics | incremental sums, values valid only until the next report |
| hard reset (`koruza.c`, `gpio.c`) | exported GPIO, its direction and level, all of which outlive the process | export, set direction, raise, lower, unexport | a crash or failure between two sysfs writes |
| calibration (`koruza.c`) | offset in the zoomed picture; global offset in UCI, in the file and in uci's delta | set over uBus, read from the SFP module, convert an old configuration, load | two writers of one offset, commits that fail half-way, conversions that truncate |
| optical power and LEDs (`koruza.c`, `rpi_ws281x`) | power, colour, frame buffer, DMA state | read, render, switch on and off | the DMA streams the buffer the next picture is written into |
| survey (`koruza.c`) | 100 x 100 bins | timer, reset | 32-bit arithmetic on a position |
| uBus object (`ubus.c`) | none of its own | 9 methods | which failures are reported; strings that may be NULL |
| UCI access (`configuration.c`) | UCI context | get, set, delete | commits write everything that is set |
| network (`network.c`) | interface, address, peer, two timers | init, announce, look for the address | the address comes and goes, a look may fail; the rest is unfinished |
| start (`main.c`, `koruza_init`) | none | the calls that bring the parts up, in a fixed order | any of them may end the process, which starts again with what the last one left |
| upgrade (`upgrade.c`) | none | fork and exec a script | - |

They interact by direct calls. `koruza.c` registers its message handlers with `serial.c`
(`serial_set_message_handler`), which gives every parsed message to them and is called back
with `serial_send_message`; the uBus methods call `koruza.c`, which reads and writes UCI.
Shared state: the `koruza` package of UCI (position, calibration, LEDs: whoever commits,
commits all), the descriptor table, the survey and the LEDs (which show the power read by
another timer), and the time the loop has.

What makes each correct, in short: framing resynchronises and loses nothing that arrives
intact; message parsing accepts what was built, stays inside the bytes it has and leaks
nothing; the serial ports keep to their own descriptors and come back; the motors' position
and the camera's calibration survive every crash; the watchdog fires when, and only when, the
MCU is gone; a start resets the MCU and reaches the event loop; the statistics are those of
the last window and the LEDs show the last power. The hazards, each at the line where it bites and with the
properties that would notice it, are in `PROJECT.json`.

## 2. Modules

| module | models | checked by (run) | proofs |
|---|---|---|---|
| `FrameParser` | `parser_t`, `frame_parser_push_byte` | `frame_parser_overflow`, and through `FrameLink` | `FrameLinkProofs` |
| `FrameLink` (extends `FrameParser`) | `frame_message`, `serial_send_message`'s writes, the line | `frame_link` | `FrameLinkProofs` |
| `MessageChannel` | abstract: what framing promises | as a property of `frame_link` | `FrameLinkProofs` |
| `MotorLink` | the conversation with the motors MCU, UCI, crashes | `motor_link`, `motor_link_live`, `motor_link_write_fails` | `MotorLinkProofs` |
| `Watchdog` | timers, uloop's order, blocking SFP calls | `watchdog`, `watchdog_blocked` | `WatchdogProofs` |
| `SerialPort` | descriptors of both devices | `devices` (with the next two) | `SerialPortProofs` |
| `Message` | building, serializing and parsing messages | `message`, `message_checksum` | `MessageProofs` |
| `Accelerometer` | one statistics item and the connected flag | `devices` | `TelemetryProofs` |
| `Optics` | optical power, LED strip and DMA, survey | `devices` | `TelemetryProofs` |
| `HardReset` | `koruza_hard_reset`, `gpio.c`, sysfs | through `Driver` | through `Driver` |
| `Network` | `network.c`: address, peer, timers | through `Driver` | through `Driver` |
| `Calibration` | offsets, their conversions, UCI and its files | through `Driver` | through `Driver` |
| `Driver` (extends the last three) | `main`, `koruza_init`, the life of the process | `driver`, `driver_live` | `DriverProofs` |

`Induction` holds one theorem, induction over the natural numbers for a set, which
`MessageProofs` and `TelemetryProofs` use. `MC*` modules give the constants small values. Operators with the comment *Faulty variant*
are not used by any specification: each is an operation with a plausible mistake, and the
mutants of `PROJECT.json` replace the real operation by it to show that the property it is
listed with notices the mistake.

The division follows the layers of the code, each module assuming of the one below only what
that one is shown to give: `MotorLink`'s serial line is a FIFO of whole messages that may be
lost, which is what `MessageChannel` says of `FrameLink`, and its watchdog may fire on a living
MCU (`"spurious"`), since `Watchdog` shows that a blocked loop lets it.
`Driver` composes the parts that share the life of the process: each of `HardReset`, `Network`
and `Calibration` has the operations of its part and says what the end of the process makes of
its state (`ResetForgets`, `NetworkForgets`, `CalibrationForgets`), and `Driver` calls them in
the order of the code and lets the process die anywhere.

### Framing: `FrameParser`, `FrameLink`, `MessageChannel`

A step of `PushByte` is one call of `frame_parser_push_byte`, with one operator per branch of
its switch. `buf` is the first `length` bytes of the buffer and `cap` its allocation;
`AddToFrame` has the overflow check, the growth and the store of
`frame_parser_add_to_frame` in their order. `WellFormed` stands for the contents
`message_parse` accepts. In `FrameLink` the sender is `frame_message`, a byte per step, and
each written byte arrives, is lost or is preceded by noise; `WriteFails` drops the rest of a
frame. A line that delays bytes would add nothing: the parser only sees their order.

- `BufferSafe`, `WaitingIsEmpty` (invariants): the writes stay inside the allocation through
  growth and overflow; a waiting parser is empty although START does not clear the buffer.
- `IntactResyncs`: after one undisturbed frame the parser waits, empty, whatever came before.
- `AlignedDelivered`: an undisturbed frame whose START was recognised is handed over exactly
  once and unchanged.
- `ImplementsChannel`: with all disturbances, the link refines `MessageChannel`: undisturbed
  messages are handed over in order, once each, and after a disturbance at most one
  undisturbed message is missed. The map takes "a frame is being written" to "this message is
  on its way", `intact` to "not damaged" and `aligned` to "its beginning was seen".
- `ResyncAfterDiscard` (violated, run `frame_parser_overflow`): `frame.c:55` says oversized
  frames are discarded "and resync", but when the byte that overflows was escaped,
  `frame.c:120` overwrites the state set by the discard.

Bounds: one plain byte and the three markers; messages of length 0 to 2 with and without
escapes; the limit is one above the longest frame sent, so that noise does overflow the
buffer; it grows by 2, so that it grows twice before the limit. Nothing in the code depends on
larger values, and the proofs cover all of them.

### Motors link: `MotorLink`

One action per handler and per uBus method that sends or commits. `x` and `y` are one
position (they are read, checked, saved and sent together); `z`, the encoder values and the
error code are left out. `conf` is the UCI context, `disk` the committed file and `delta` the
file with the changes uci has noted beside it in RAM, which is what the next process reads.
`Save` sets both coordinates and commits. `uci_set_string` returns silently when an option
cannot be looked up, as without a motors section, and ignores the result of `uci_set`; the
result of the commit is ignored too. So the context may stay as it was (`"set"`), and a commit
may fail before or after its change is in `delta` (`"commit"`). `OtherCommit` is every other
method that commits the package and thereby also what `Save` could not. `KoruzaInit` reads the
position, resets the MCU by GPIO (or fails to) and asks for its status without arming the
watchdog. `StatusReport` does what `koruza_serial_motors_message_handler` does in its order:
cancel the watchdog, restore on reconnection (with the position known before), then take the
reported position over.

The MCU's firmware is not in the repository. It is modelled from what the driver's messages
say of it: it answers GET_STATUS, moves when told, asks for a RESTORE when it starts and takes
one RESTORE per reset. A reset clears the register, the motors stay where they are (`phys`).
Whether it reports the zeroed register before that RESTORE, or no position, is not known:
`eager` is either, chosen at the start.

`Faults` selects what may go wrong: the MCU or the driver crashes, the board loses power, an
option cannot be set, the commit fails, the GPIO reset fails, a write fails, a message is lost,
the watchdog fires at any time. Reports may lie unread on the line through any number of
resets.

- `CrashKeepsPosition`: while the last save set its options and was committed, a driver
  started after a crash or a power loss would work with the in-range position this one works
  with, whatever else has committed the package since.
- `SavesInRange`: whoever commits, only positions in range get into the file.
- `RestoresPlace`: an MCU that was reset is given back the place its motors stand at, if the
  driver has had a report of that place (`told`). It is checked and proved with all the faults,
  with both kinds of firmware and without any further condition. `told` is a history variable:
  a report of the place sets it, if no message on the line says something else and no MCU waits
  for a RESTORE, and it ends when the motors move away, and when something fails while only one
  party has the place:
  - a crash or a power loss at a moment when what the next start will load is not the place
    (it is out of range, a save of it failed, or home was just saved, see below);
  - a reset of the MCU while the driver works with, or has still to read, another position;
  - a lost message or a failed write while an eager MCU waits for its RESTORE.

  The last cases are a weakness of the protocol that the model shows: `StatusReport` sends the
  RESTORE and then takes over and saves the very home position that made it necessary. With an
  eager firmware the place exists for that exchange in the RESTORE alone, and a second failure
  in it (a crash, a lost RESTORE, another reset) loses the place for good.
  `CrashKeepsPosition` and `RestoresPlace` both except saves that did not work, and one way to
  that is not an accident: without a motors section in the configuration nothing is ever stored,
  although every commit succeeds, and a restart works with home. (The distance and the
  calibration have the same silent exit; only `koruza_set_leds` makes its section first.)
- `DeathNoticed` (liveness): an MCU that stays silent is eventually taken for disconnected.
- `MotorsRestored` (liveness): while both sides stay up the MCU is eventually given its
  position, provided only finitely many writes fail. It holds for the faults of
  `motor_link_live`, and is violated by a single failing write (run
  `motor_link_write_fails`): `koruza_restore_motor` ignores the failure, and `connected` is
  already set. A lost message has the same effect and is therefore not among `LiveFaults`.

Bounds: three positions (home, one in range, one out of range but reachable by a move), and in
the safety run all the faults at once. `MaxOnLine` is the number of messages on the line up to which a new
exchange is started: 2 (3 in the liveness run, which has fewer faults), enough for an old report or a poll to meet the request of a booting MCU
or a command. (With 3 the safety run has 8 400 000 states and passes as well; the proofs hold
for lines of any length.)

Fairness: weak fairness of the two timers, of the two handlers and of the MCU's answers. The
loop never stops polling, epoll reports a readable descriptor until it is read, and handlers
do not block for ever (each call of the SFP driver has a time-out, and looking it up is answered by ubusd itself). Nothing obliges anybody to crash, boot
or send a command.

### Watchdog: `Watchdog`

Time in ticks of 100 ms. The five actions of uloop are taken from how the code uses it
(libubox is not in the repository): it runs all timers due at one clock reading, then serves
one descriptor of the current epoll batch, then reads the clock again. `SfpTimer` and
`StatusTimer` take one of `Durations`, up to `Block` ticks, during which replies arrive unread and
other timers become due. The status timer arms the watchdog only when it is not pending, a report cancels
it. A failed write reopens the port, and its unread input is lost.

- `AlarmsOnlyUnread`: of an MCU that answers every request within `Reply` the watchdog says
  that it is disconnected only if the loop has left its report unread for `KORUZA_MCU_TIMEOUT`
  less `Reply`. Whatever else happens (writes that fail, ports that reopen, handlers that make
  timers late, the order in which uloop serves them) does not suffice.
- `NoFalseAlarm` (violated, run `watchdog_blocked`): that it never says so of an MCU that
  answers. The three uBus calls of `koruza_update_sfp` may take a second each, the handlers of
  two timers make them, and the report waits meanwhile.
- `DetectsSilence`: `connected` never outlives the last report by more than the status
  interval, the time-out and five blocking calls.

Both runs have the real intervals of `koruza.c:35-39` (1, 5, 20 ticks), three other descriptors
that may be readable at any time, an MCU that may die, writes that may fail, and a
`koruza_update_sfp` that takes one of `Durations`: none, 100 ms, or 1, 2 or 3 seconds
(`Block` = 30), the time of one, two or three calls at their time-outs. (A call that does time
out ends `koruza_update_sfp`; three calls that nearly do take almost three seconds.) The proofs
cover every set of durations. The histories `quiet` and `unread` stop at `QuietMax`, just above
the bound of `DetectsSilence`, and at `McuTimeout`. The survey timer is left out: its handler
returns at once.

### Serial ports: `SerialPort`

`table` is the kernel's descriptor table, `num`, `ready` and `reg` the fields of
`struct serial_device`. `InitDevice` has the three ends of `serial_init_device`; `Reinit`
closes whatever has the number now and opens again. `SendReopens` and `SendFails` are the two
ways `serial_send_message` gets there, `ReadFails` and `ReadNothing` the read handler, which
finds its device by descriptor number. Other parts open and close descriptors at any time.

- `NoLeak`: however often a device is reopened, it leaves no descriptor behind.
- `ReadyOwns`, `SoundClosesOwn`: until a set-up fails, a ready device owns its descriptor and
  gets its own events, and nobody closes a descriptor of somebody else.
- `Reconnects` (liveness): a device plugged in for good is attached in the end and stays so.
  The fairness is that of the status timer, which sends to both devices for ever.

"Until a set-up fails" is `sound`. After `serial.c:138-148` have closed a descriptor and kept
its number, the next reopening closes whatever has got that number since; with two devices on
one number a plugged device may never be attached. Only a device that opens and cannot be
configured gets there.

Bounds: four descriptor numbers for two devices and two others: numbers are reused in every
order and the table can be full.

### Messages: `Message`

A message is built with `TlvAdd` and `AddChecksum` and sent, or `Arrive`s as any bytes;
`ParseTlv` is one iteration of the loop of `message_parse`, and each error exit is an action,
`OutOfMemory` included. `heap` counts the blocks allocated for values. `TlvGet` is
`message_tlv_get` with the structure size of the typed getter that calls it; the bytes of the
structure that the TLV does not cover are any bytes, since the getters' locals are not
initialized.

- `StaysInside`, `Faithful`, `RoundTrip`, `HeapAccounted`: the parser never consumes more than
  arrived, an accepted message serializes to exactly the bytes that arrived, what was built is
  accepted and read back, and all memory is accounted for (the block leaked on a checksum
  mismatch, `message.c:93`, is part of the account).
- `GetsWhatWasAdded`: the typed getters return at the receiver what the typed adders were
  given: the first structure of a type, nothing for a type that was not sent, and no abort.
  For bytes that were not built by `message.c` the getters promise nothing of the kind: a TLV
  longer than the structure fails the assertion of `message.c:204`.
- `ChecksumsVerified` (violated, run `message_checksum`): `message.c:91` compares one byte.

Bounds: byte values 0 to 2 (so that a value of three bytes already needs the high byte of the
length), at most three TLVs instead of `MAX_TLV_COUNT`, at most ten arriving bytes (three
headers and a byte), a checksum of two bytes. `Crc` is a parameter: any function of the bytes.

### Accelerometer: `Accelerometer`

One item of the twelve; the others are updated alike. `SumIsOfWindow` and `StatisticsCurrent`
compare the ring and its running sum with the last reports themselves. Integers stand for
floats, so rounding is out of scope. Window 3 instead of 120: reports leave the window and the
ring wraps at every offset.

### Optical power, LEDs and survey: `Optics`

`power` is `status.sfp.rx_power`, `frame` the colours in `pwm_raw`, `strip` what the LEDs show.
`koruza_update_sfp_leds` is three kinds of step: `WriteLed` puts one LED into the frame,
whatever the DMA is doing, as `ws2811_render` does; `StartDma` is `ws2811_wait` and
`dma_start`; `RenderFails` is the return on a set error flag. The controller
(`DmaStreams`, `DmaFails`) is external. All other handlers wait for the render to end, since
the driver has one thread. `NoPower` is the minus infinity of a driver that has read nothing.

`Bins` is the arithmetic of `koruza_timer_survey_handler`: the product in 32 bits (it wraps or,
folded by the compiler, does not), a truncating division, the clamping. `x` and `y` are binned
alike, so one axis is modelled.

- `StripShowsPower`: between two updates, when the DMA has finished without an error, every
  LED has the colour `led_color_map` has for the last power read (stated by the thresholds, not
  by the search), although the next picture may have been written over the one being streamed.
- `ShowsPower` (liveness): a power that stays is shown in the end and stays shown, unless the
  DMA has met an error: from then on every render returns before `dma_start`, which alone
  clears the flag.
- `SurveyPlaces`: a survey step writes the last power into exactly one bin, and that bin covers
  the position (`Covers`: half-open bins away from the centre, both sides of it in the middle
  one, everything beyond the survey in the first and the last), whenever the product of
  `koruza.c:810` fits the machine word. An overflowing product may pick any bin.
- `OpticsTypeOK` says among other things that no index leaves the survey, whatever the
  position and the overflow.

Bounds: two LEDs (the DMA can be between them); two powers, one of them on a threshold;
four bins of five units and positions inside bins and on their edges, off both ends, and one
whose product does not fit 6 bits (`IntModulus` = 64 for 2^32).

Fairness: a call of `ws2811_render` goes on, and a transfer that meets no error does.

`MCDevices` runs `SerialPort`, `Accelerometer` and `Optics` side by side. They share no
variable, so the instance explores each with the others at rest.

### Reset of the MCU: `HardReset`

A step is one write to a sysfs file. `exported`, `driven` and `high` are what sysfs knows of
the pin, and survive the process; `failed` and `leftover` are histories: an operation has
failed for this process, an earlier process has left the pin exported. Every operation may
fail on its own (`GpioFails`), and the kernel refuses to export what is exported.

- `ResetsMcu`: when `koruza_hard_reset` is through, the line has been raised and lowered and is
  not high, unless `failed` or `leftover`. The two exceptions are real: after a crash between
  `koruza.c:451` and `:457` the next export is refused and the MCU stays in reset.

### Network: `Network`

`network.c` as far as it does anything: the interface and its address, the timer that looks
for the address, the timer that announces, the configured peer. The interface's address
(`hostAddress`) changes at any time. A look may fail (`FoundNothing`), may find no address
(`FoundNow` keeps the old one, as `network_update_local_address` does), or end the process: its
second failing exit frees the list of addresses twice. A copy of a new address may fail for
want of memory (`CopyFails`). `network_message_received` is empty and
`sendto` is handed an address without a family, so nothing is received or sent.

- `StatusAnswers`: `get_status` takes the length of the interface's name, the address and the
  camera's path, any of which may be NULL; a driver that is configured and found an address
  when it started is never ended by that, because a lost address is not cleared (a new one that
  cannot be copied is: `foundAtStart` then ends).
- `AddressFollows` (liveness): an address the interface keeps is taken over in the end.

### Calibration: `Calibration`

`offset` is the offset in the zoomed picture, which uBus and the SFP module set; `conf` the
options in the UCI context, `disk` those in the file and `delta` those in the file with the
changes uci notes in RAM beside it. A commit (`Commit`) notes first and then rewrites the file,
and may fail at either. `ToGlobal` and `ToZoomed` are the two transforms with C's truncating
division, `ToWord` the conversion of a float to `uint32_t`, which is undefined out of range:
it saturates or wraps. `ConvertOld` and `DeleteOld` are the conversion of an old configuration,
which is two commits; `CalibrationForgets` is a restart, from `delta` if the board keeps its
memory and from `disk` if it does not. A missing section makes `uci_set_int` do nothing.

- `CalibrationKept`: the running driver shows an offset that was set last, or one that a
  failed commit may have lost or brought back (the histories `wanted` and `durable`), up to
  `Slack`, the rounding of one way to the file and back; unless the SFP module set it last or
  there is no section. Through crashes and power losses at any step, also between the two
  commits of the conversion.

Assumption `OffsetOK`: offsets that are set lie inside the picture, not so near its edge that
the rounding of a save takes them below zero. The default global offset 0 is left of the
picture and goes through `ToWord`'s outcomes (`Unset` in `wanted` then allows any offset).

### The life of the process: `Driver`

`stage` is the next call of `main` or `koruza_init`. `Respawn` is procd; `Exits` is a failing
call, `DiesIn` a fault, `Kill` the death of the process at any step and `PowerLoss` that of the
board, after which sysfs and the RAM are gone as well. `ws2811_init` may fail, which is only
logged; `koruza_update_sfp_leds` then writes through NULL (`UpdateStatus`). A failing reset
does not stop the start (`ResetDone`). In the event loop there are the calls of uBus and the
timers of the three parts.

- `ComesUp` (liveness): once faults end, a driver that is configured and has an address reaches
  its event loop and stays there, although GPIO operations may go on failing.

"Once faults end" is the variable `calm`: it becomes true at any time, or never, and then
nothing fails but the operations on the pin. Liveness is stated under it because a driver that
keeps being killed never comes up.

Bounds: two addresses and none; a zoom of 2/5 and an origin that is no multiple of it, so that
both conversions round; two offsets further apart than `Slack`, so that a mixture is noticed;
words of 4 bits. The liveness run has one offset; its commits may fail until the calm.

Fairness: weak fairness of `Boot` (the process runs on and procd respawns it) and of the
address timer, which the loop runs when it is due. Clients and faults are not obliged to act.

## 3. Runs

| run | expects | distinct states | question |
|---|---|---|---|
| `frame_link` | pass | 469 000 | does framing survive everything the line can do? |
| `frame_parser_overflow` | violation | - | does the parser resynchronise after an oversized frame? |
| `motor_link` | pass | 1 009 000 | is the position kept and given back? |
| `motor_link_live` | pass | 436 000 | is a dead MCU noticed, a living one restored? |
| `motor_link_write_fails` | violation | - | the same when one write fails |
| `watchdog` | pass | 2 787 000 | is silence noticed in time, and what does a false alarm take? |
| `watchdog_blocked` | violation | - | can a living MCU be taken for disconnected? |
| `message` | pass | 398 000 | is parsing the inverse of building, and safe for any bytes? |
| `message_checksum` | violation | - | are checksums verified? |
| `driver` | pass | 1 613 000 | what do crashes, failures and old configurations leave of the reset, the calibration and the address? |
| `driver_live` | pass | 259 000 | does the driver come up, and follow its address? |
| `devices` | pass | 307 000 | do ports keep to their descriptors and come back? are statistics, LEDs and survey those of what was read? |

Deadlock is checked except in `Message` (a message is parsed once). The four violations are
disagreements between the code and its own comments; `PROJECT.json` quotes them under
"findings".

## 4. Proofs

All theorems hold for every value of the constants that satisfies the named assumptions, which
TLC also evaluates on its instances. Only those of `MessageProofs` have a hypothesis of their
own (`CrcOK`, which speaks of all sequences of bytes and so cannot be evaluated).

- `FrameLinkProofs`, of the parser: `ParserTypeCorrect`, `ParserBufferSafe`,
  `ParserWaitsEmpty`. The inductive invariant `ParserInv` joins the types, the bounds and the
  emptiness: the store is inside the allocation because the growth precedes it and the limit
  precedes the growth.
- `FrameLinkProofs`, of the link: `LinkTypeCorrect`, `LinkBufferSafe`, `LinkResyncs`, `LinkDelivers` and
  `LinkImplementsChannel`, the refinement. `IntactResyncs` and `AlignedDelivered` are not
  inductive; `LinkInv` adds that during an intact frame the parser's escape state agrees with
  the sender's (`InStep`) and that a recognised frame's buffer is the prefix sent so far
  (`Collecting`). Assumptions: the markers differ, the messages sent are accepted by the
  receiver and fit the limit (`MessagesFit`; the driver's longest message has a few dozen
  bytes, the limit is 131072).
- `MotorLinkProofs`: `TypeCorrect`, `CrashSafe`, `StoresInRange`, `PlaceRestored`, all for every
  set of faults. `CrashKeepsPosition` needs that file and `delta` are the UCI context while the
  last save worked (`StoreInv`), that what is still to be written is in range
  (`PendingInRange`), and that the context has an in-range position the driver works with
  unless it could not be set (`KnownInv`). `PlaceRestored` proves `RestoresPlace`. Its invariant
  `PlaceInv` follows the place the motors stand at around the loop: an MCU that is down has
  received nothing (`DownInv`), and while `told`, a driver that is down will load the place
  (`KeptInv`); an MCU that waits has first the right RESTORE on its line, if any (`GivenInv`);
  while the MCU is down, or waits and reports no position, the driver works with the place and
  has no other one to read (`HeldInv`); and when an eager MCU waits, either a RESTORE is on its
  way or the driver has the place and will send it before it reads a wrong report, because it is
  not connected or the request comes first (`SentInv`). The last one is what the order of
  `StatusReport` is for: the RESTORE goes out before the zeroed register is taken over.
- `SerialPortProofs`: `TypeCorrect`, `NothingLeaks`, `ReadyDevicesOwn`, `OnlyOwnClosed`, for
  any set of descriptor numbers. The last two rest on `SoundInv`: until a set-up fails, a
  device without a descriptor has the number -1, so that closing its number closes nothing.
- `WatchdogProofs`: `TypeCorrect` and `SilenceDetected`, for all intervals, time-outs, blocking
  times and descriptors. `SilenceInv` bounds the silence at each point of a pass of uloop:
  before the request is sent (`BeforeRequest`), while the watchdog runs (the silence and what
  is left of the time-out never exceed `Fires`), and when it is due, by how many handlers are
  still before it (`InThisPass`, `InNextPass`, `Waiting`); `TimerInv` says that what a pass has
  still to run is due. The bound of `DetectsSilence` comes out of it: two calls before the
  time-out starts, three after it ends.
  `AlarmsExplained` proves `AlarmsOnlyUnread`. `AnswerInv` and `ComingInv` say that while the
  watchdog runs for a living, connected MCU an answer is coming or lies unread, and how much of
  the time-out is left at least: all but `Reply` when it arrives, and after that less by the
  time it has been unread.
- `DriverProofs`: `TypeCorrect`, `ResetCorrect`, `StatusSafe`, `CalibrationSafe`, through all
  crashes and failures. `ResetsMcu` needs what each point of `koruza_hard_reset` knows of the
  pin (`PinInv`); `StatusAnswers` that an address once found is only replaced, unless its copy
  fails (`NetInv`);
  `CalibrationKept` that memory, `delta` and file each lead, through whichever form they have,
  to an offset that may come back (`SavedInv`, `Converted`, `CalInv`), where converting a second
  time what a crash left unconverted changes nothing, and the lemma `RoundTrip` bounds what both
  truncations lose by `Slack`. Assumptions: `ZoomOK`, `ModulusOK` and `OffsetOK`.
- `MessageProofs`: `TypeCorrect`, `ParserStaysInside`, `BlocksAccounted`, `ParserFaithful`,
  `ReadsWhatWasSent` (of `RoundTrip`), `GettersReturnAdded` and `Unambiguous`, for any
  structures, any number of TLVs, any bytes arriving and every number of byte values. The
  hypothesis `CrcOK` says of the checksum function that its result is a sequence of bytes, of
  at least one and of fewer than a length can say (the code has four). The invariant `Inv` rests
  on `ParseInv`: the TLVs parsed so far serialize to exactly the bytes consumed so far; and on
  `SentInv`: at the receiver of a sent message they are its first TLVs. That an iteration keeps
  the first is `TakeStep`, that the bytes at the offset are the next TLV is `NextTlv`, and that
  a checksum TLV agrees with the TLVs before it is `MsgInv`, which says what each TLV of a
  message under construction is. `TakenFacts` and `ReadBack` are the two directions of the
  header, in which the length is split into two bytes and joined again (`SplitLength`,
  `JoinBytes`). `FlattenSeq` is a recursive function; what it does with one more element is
  proved by induction over the number of elements (`FlatNext`, `FlattenAppend`).
- `TelemetryProofs`, of the accelerometer: `TypeCorrect`, `SumOfTheWindow` and
  `StatisticsOfTheWindow`, for a window of any size and any readings. `RingInv` says where in
  the ring each of the last reports is, oldest first from `Start`, and that unused slots hold
  zero: so what is subtracted from the sum is the oldest report once the window is full
  (`RingSlides`) and nothing before (`RingGrows`). The variance is computed slot by slot from
  the beginning of the ring; `SumRotated` shows by induction that a sum does not depend on
  where the reading of a ring begins.
- `TelemetryProofs`, of the optics: `OpticsTypeCorrect`, `StripCorrect`, `SurveyCorrect`, for strips of any
  length, any powers, bins and coverage. `FrameInv` says which part of the frame has the new
  colour while it is written, and that between two renders the LEDs streamed so far by the
  running transfer, or all of them after it, show it; `SurveyCorrect` rests on
  `BinCovers`, arithmetic on the truncating division on both sides of the centre.
- `Induction`: `SetInduction`. The induction theorems of the library take a predicate as an
  operator; this one takes a set, and follows from the well-foundedness of `<` (`WFMin` of the
  library). A recursive function is treated by naming its equation (`IsSum`, `IsFlat`), proving
  by induction that a function satisfying it exists, and reasoning about that one.

Only model-checked: all liveness (`DeathNoticed`, `MotorsRestored`, `Reconnects`,
`AddressFollows`, `ComesUp`, `ShowsPower`), since the prover handles neither fairness nor
`ENABLED`. Every invariant and every action property of a passing run is also a theorem.

## 5. Not modelled

- the upgrade script (the driver keeps no state about it), `crc32` itself (a pure function; a
  parameter of `Message`), the layout of uBus replies and the status codes of methods,
  `set_alignment` (a checked copy), the parsing of numbers and of the SFP driver's answers, the
  rounding of floats;
- of the WS2811 library (third party) everything but rendering, waiting and starting the DMA:
  memory-mapped registers, mailbox, board detection;
- discovery beyond what `network.c` does today.

Seen on the way and in no model: `gpio.c:45` has room for two digits of a pin; `ws2811_init`
takes VideoCore memory which only `ws2811_fini` gives back, and nobody calls that when the
process dies; `network.c:211` hands `sendto` an `in6_addr` in place of a socket address.

## 6. Where to go on

The plan this development followed is done: framing and its channel, the motors link, the
watchdog, the serial ports, messages, the accelerometer, then the start, the reset, the
calibration, the network, the optics, and the proofs of what they promise. What could follow:
a composition of `SerialPort` with `MotorLink`, in which a port that cannot be configured is
one of the faults, and discovery once the code for it is written.
