# A verification project for the nRF52 terminal firmware

TLA+ models of the firmware in `src/Src` (about 1250 lines of C for the
nRF52832) and of the libraries beside it in `src/RTE` that keep state,
model-checked with TLC on small instances, and theorems about them proved with
TLAPS for every value of the constants.  Paths below are relative
to the repository; `uart.c:113` is `src/Src/uart.c`, line 113.

## 1. The system

The device is a terminal on a serial line.  A user presses button 1, the main
loop sends `?DATD` CR LF over the UART, a range meter answers with
`<9 bytes>+DATD <distance> <elevation> <tilt>` CR LF, the loop collects the
answer, checks its tag and converts the three fields to numbers.  The same
sources hold drivers that other builds of the program use (`RADIO_TX`,
`RADIO_RX`) or that nothing uses yet (SAADC, timer 0, SPI, radio test modes),
and the project carries libraries of the Nordic SDK for builds to come: an
event scheduler, the SoftDevice's event pump, a store for a page of flash, a
UART module and a module for edges of pins.  `SystemInit` runs before any of
them.

| Component | State it keeps | Operations | Talks to |
| --- | --- | --- | --- |
| UART, transmit (`uart.c`) | `txFIFO` (ring of 200 with two indices), `txState` | `TransmitUART`, the TXDRDY branch of `UARTE0_UART0_IRQHandler` | the main loop calls it; the interrupt preempts the caller; both write the register TXD |
| UART, receive (`uart.c`) | `rxFIFO` | the RXDRDY branch of the handler, `ReadUART`, `ClearRxBuffer`, `AvailableUARTData`, `GetWritePosition` | the handler fills the ring, the main loop empties it |
| Main loop (`main.c`) | `state`, `flag`, `tmoutCnt`, `rxCounter`, `cr`, `cr_all` | the cases RX_STANDBY, RX_IN_PROGRESS, RX_DONE | polls the button pin and the receive ring, calls `TransmitUART` |
| Decoder (`main.c:204-328`) | `D_cnt`, `E_cnt`, `T_cnt`, `DIST`, `ELEV_ANG`, `TILT_ANG` | one pass over `cr_all` per message | runs inside RX_DONE |
| Radio packets (`radio.c:309-425`, `main.c:65-90`) | `TxBusyState`, `RxBusyState`, `RxEnableData`, the radio | `RfSendPacket`, `RfReadPacket`, `IsRxDataEnable`, `RADIO_IRQHandler` | a sending and a receiving device over the air |
| Radio test modes (`radio.c:135-303`) | `channel_*`, `sweep_tx_`, timer 1, the radio | carrier on/off, sweep start/end, `TIMER1_IRQHandler` | the timer's interrupt preempts the caller |
| SAADC (`adc.c`) | two buffers and the flag that alternates them | `SAADCInit`, `SAADC_IRQHandler` | the converter's DMA |
| Timer 0 (`timer.c`) | `timerFlag` | `Timer0Init`, `TIMER0_IRQHandler` | nobody reads the flag |
| SPI (`spi.c`) | none | `SPI0Init`, `TransferSPI` | the peripheral, polled |
| Start-up (`system_nrf52.c`) | UICR and NVMC CONFIG | `SystemInit` | every reset; UICR survives it |
| Scheduler (`app_scheduler.c`) | a ring of events with two indices | `app_sched_event_put`, `app_sched_execute` | interrupts put, the main program executes |
| Event pump (`softdevice_handler.c`, `_appsh.c`) | `m_softdevice_enabled`, the handlers, `m_evt_schedule_func` | init, disable, handler setters, the SWI2 handler, `softdevice_evt_get` | the SoftDevice raises SWI2; events go through the scheduler or not |
| Errors (`app_error.c`) | none | `app_error_handler` | resets the chip, or stops it with `DEBUG` |
| Flash page (`ble_flash.c`) | a page: header, count, data; `m_radio_active` | page write, read, erase, block write | the flash survives everything but an erase; the radio's events delay writes |
| `app_uart.c` | one byte each way, `rx_done` | init, put, get, close, the driver's callback | `nrf_drv_uart` (not in the repository) |
| Edges (`app_gpiote.c`) | `mp_users`, `m_pins`, `m_last_pins_state` | register, enable, disable, `gpiote_handler` | `nrf_drv_gpiote` (not in the repository) |
| GPIO (`gpio.c`), clock start (`main.c:352-377`) | none | pin set-up, one wait at the start | |
| Rest of `RTE` | none | register access, macros, vector table | |

### How the components interact

* **Caller and interrupt share a ring.**  `TransmitUART` and the TXDRDY branch
  of the handler both move `counterRead` and both write TXD; `txState` decides
  whose turn it is.  `ReadUART`/`ClearRxBuffer` and the RXDRDY branch share
  `rxFIFO`, one index each.  There is no critical section anywhere in
  `uart.c`: correctness rests on the order of single memory accesses.
* **The main loop polls.**  The button, the write position of the receive ring
  and a count of passes (`tmoutCnt`) decide everything; the results of
  `ReadUART` are ignored, so the `memset`s and `ClearRxBuffer` carry the
  burden of keeping messages apart.
* **The radio is driven by flags** that the caller sets after a hardware task
  and `RADIO_IRQHandler` resets.
* **A sweep runs in the timer's interrupt** and uses the same functions, and
  the same polled event, as its caller.
* **Interrupts of several priorities put events, the main program runs them.**
  Only the reservation of a slot is a critical region; priority does the rest.
* **Reset and power are shared by all.**  An error resets the chip,
  `SystemInit` resets it after it has programmed UICR, and power may fail;
  flash and UICR stay.

### What makes them correct, and what is hard

| Component | Correct means | Hard because |
| --- | --- | --- |
| UART, transmit | bytes leave the pin in order, once each, and all of them do; TXD is never overwritten; no byte is left behind in the ring | an interrupt between any two accesses, between the two stores of `buffer[counterWrite++] = data`, between an increment and its wrap |
| UART, receive | `ReadUART` returns the bytes in order; clearing drops the old ones only; the receiver never goes deaf | the same, and a byte that arrives while the handler runs |
| Main loop | what is decoded is the whole body of one reply, once; a press is one request; the loop comes back to rest | bytes arriving at any time, a reply during RX_DONE, noise, bounces, the one pass in which the timeout can fire |
| Decoder | the three numbers are the ones sent; searches and copies stay inside their arrays | counters that survive from message to message; the longest message fills the array exactly; neither searches nor copies are bounded |
| Radio packets | never trigger an active radio; report every reception once; keep sending and listening | flags written by a loop and an interrupt; bad CRCs |
| Radio test modes | every call returns and its effect stays | `RadioDisable` in two threads that consume the same event; a wait for a random number generator nobody starts |
| SAADC | the buffer filled last is not filled again before the other one | STARTED and END served late and together |
| Timer 0 | its flag is set every second | an offset where a mask is due |
| SPI | a transfer ends and returns the second byte's answer | READY is raised again by the read of RXD |
| Start-up | `main` runs with the options of the build in force | power cuts between two words and their reset |
| Scheduler | events run once, in order; a put is refused only when full | slots filled outside the critical region, given back before they are used |
| Event pump | no event of the SoftDevice waits for ever | a loop that stops asking a source while events go on coming |
| Flash page | a read returns an array that was written, or nothing | power cuts inside words and erases, writes that are skipped |
| `app_uart.c` | each byte and each error is told exactly once, in order, with its value | the buffer is armed again before it is told |
| Edges | a user is told of its edges and of no other | one snapshot for all pins, users that share pins |

`PROJECT.json` lists the components and, under "hazards", each hard spot at its
line with the properties that watch it.

## 2. The modules

| Module | Models | Kind |
| --- | --- | --- |
| `SerialPipe` | what the transmit half promises: a pipe of pending bytes | abstract |
| `UartTx` | `TransmitUART` and the TXDRDY branch, one memory access a step | detailed; `Pipe == INSTANCE SerialPipe` is its refinement mapping |
| `UartTx_proofs` | theorems about `UartTx` | proofs |
| `RxFifo` | what the receive half promises: a queue, a write position | abstract |
| `UartRx` | `ReadUART`, `ClearRxBuffer`, the RXDRDY branch | detailed; `Fifo == INSTANCE RxFifo` is its refinement mapping |
| `UartRx_proofs` | `UartRx` implements `RxFifo` | proofs |
| `Uart` | the whole driver: both halves, one caller, one handler | composition of `UartTx` and `UartRx` |
| `Uart_proofs` | what is proved of a half holds of it in `Uart` | proofs |
| `Terminal` | the main loop with button, meter and line; uses `RxFifo` for the driver | composition |
| `Terminal_proofs` | all safety properties of `Terminal` | proofs |
| `Decode`, `MCDecode` | `main.c:204-328` and the numbers to try it on | data |
| `Decode_proofs` | what is decoded of every message | proofs |
| `RadioLink` | sending and receiving devices over the air | composition |
| `RadioLink_proofs` | theorems about `RadioLink` | proofs |
| `RadioTest` | test modes and sweep, in two threads | detailed |
| `RadioTest_proofs` | theorems about `RadioTest` | proofs |
| `Scheduler` | `app_scheduler.c` | detailed |
| `SoftDevice` | `softdevice_handler.c`, `softdevice_handler_appsh.c`, `app_error.c` | on top of `Scheduler` |
| `Startup` | `SystemInit` | detailed |
| `FlashPage` | `ble_flash.c` | detailed |
| `Saadc`, `Timer0`, `Spi` | `adc.c`, `timer.c`, `spi.c` | detailed |
| `AppUart`, `Gpiote` | `app_uart.c`, `app_gpiote.c` | detailed |
| `Device`, `MCDevice` | resets, power cuts and one of the parts above per build | composition |
| `Device_proofs` | theorems about `Device`: `Scheduler` and `SoftDevice` as it runs them, start-up, SAADC, SPI, `AppUart`, `Gpiote`, `FlashPage` | proofs |

### How state and actions correspond to the code

*Threads.*  Code that can be preempted has a `pc` and makes one access to
shared memory or to a peripheral in a step; code that nothing preempts (the
handlers of highest priority, the decoder) is one step or as many as the
hardware can tell apart.  `slot` in the UART modules is the register in which
the compiled code holds an index between two accesses.

*Names.*  State variables have the names of the C variables; actions have the
names of the functions, or of what a single access in them does.  A byte is
its rank (`UartTx`, `UartRx`) or the pair reply/place (`Terminal`), so that
loss, duplication, reordering and mixing of messages are visible; only
`Decode` knows character codes.

*`UartTx`.*  `Call` is the caller's part; `Put`, `WrapWrite`, `Test`, `Mark`,
`Take`, `Send`, `WrapRead` are `uart.c:113-120`.  The two stores of line 113
are unsequenced in C.  `StoreOrders` says which orders the compiler may
choose; `Objects/vgm.hex` has "index first", `Uart` takes "byte first".  `IsrSend` and `IsrDone` are the
two branches of `uart.c:65-78`.  `ByteSent` is the chip.  `fresh` expresses
that a byte takes 10 bit times (87 us, some 5500 CPU cycles) to leave, and a
call of `TransmitUART` some 60 cycles: a byte written to TXD during a call
does not raise TXDRDY before the call returns.  Without this `counterRead`
could be used by the interrupt between lines 119 and 120.

*`UartRx`.*  The handler takes two steps, since the receiver may raise RXDRDY
between the clearing of the event and the read of RXD.  `recent` says that at
most one byte arrives during a call (some 40 cycles), and the guard of
`Arrive` that the sender never has more than `SIZE_BUF_RX - 1` bytes unread.
The ring has no test for "full"; a reply has at most 43 bytes and the ring 200.

*`Terminal`.*  A step is a read of the FIFO, or a pass of a state that makes
none.  The driver is the abstract `RxFifo`: `UartRx` implements it.  `Press`,
`Release`, `Bounce` are the contact of button 1, `StartReply` and `Arrive` the
meter and the line, `Disturb` noise between replies.  Left out: the LEDs,
`cr_0`, which nobody reads, and the text of the request, which is one count
in `requests`.

*`Decode`.*  One message is one step: `Count` (the three loops with their
persistent counters), then `Convert`.  Thousandths stand for the floats.
Neither the searches nor the copies of `main.c:209-232` are bounded, so the
module takes what lies around the arrays from the layout of the build
(`Listings/vgm.map`).  Behind `cr_all` come a byte of padding and the ring of
the receiver: a search that finds no stop byte ends in that ring, up to `Stray`
places on, nondeterministically, since the ring holds whatever has been
received.  Behind `cr_d`, `cr_e`, `cr_t` come `INFO` (the request), `DIST`,
`ELEV_ANG`, `TILT_ANG`, and then the counters (`At`).  The copies write one byte
of `cr_d` more than `D_cnt` and as many of `cr_e` and `cr_t` as the counters
say: a number they reach is `Anything` from then on (`Kept`), and if they reach
the counters (`lost`) the model ends, for then the loops may run anywhere.  The
text of `INFO` is not modelled; `SearchInside` says that the copies stay away
from it.  With fields of at most eight bytes all this does not happen: the
one byte too many of the first copy lands in `cr_e[0]`, which the second
overwrites.

*`RadioLink`.*  The loops of `main.c:65-90` with `RfSendPacket`,
`RfReadPacket`, `IsRxDataEnable` and `RADIO_IRQHandler`.  A receiver that
listens when a packet starts may or may not hear it, and may find its CRC
wrong (collisions are one reason).  Ramping up takes 140 us, so the busy flag,
written a few cycles after the task, is up before the radio is.  What
a packet carries is left out; it is nothing: `radio.h:7, 11` make the length
field and the static length 0 (`radio.c:313-322`), and the length handed to
`RfSendPacket` only goes to MAXLEN, which is a limit.  (As it stands neither
build compiles: `i` and `dummy` of `main.c:69, 86` are declared nowhere.)

*`RadioTest`.*  "main" calls any test mode at any time, "timer" is
`TIMER1_IRQHandler`, both step through the same `RadioDisable`.  Nothing in
the repository calls these functions; the caller modelled obeys two rules.  It
ends a sweep before it starts anything else, since the parameters of a sweep
are assigned one by one while the interrupt would use them.  And it has not
called `RadioInit`: that enables `RADIO_IRQHandler`, which clears
EVENTS_DISABLED before the loop of `radio.c:203` is sure to have seen it, and
the loop never ends.  `RadioModulatedTxCarrier` waits for 259 numbers of the
chip's random number generator (`Generate`; `rnd8`, `radio.c:55-63`), which
nothing in the repository starts.  `rng` says whether the caller has started
it; if not, the call never returns, and since nothing under `src/` does, that is
what this program would do.  `LATENCY` bounds the accesses the
caller may make after the compare event before it is preempted (see below).

*`Uart`.*  Main program and handler as one: a call of either half at a time,
the handler suspends it, serves the received byte first and then TXDRDY.
`between` is the place between its two parts.

*`Scheduler`, `SoftDevice`.*  Contexts are numbered by priority, and a context
makes a step only while none above it is at work (`Has`).  `Reserve` and `Fill`
are the two parts of `app_sched_event_put`, `Claim` and `Load` those of
`app_sched_event_get`, `Return` the end of an event's handler.  `direct` chooses
between the two ways `softdevice_handler_init` can be told to fetch events.
`Ask` is one source in one round of `intern_softdevice_events_execute`; any
other error code of the SoftDevice, and a full queue, is a `Fault`.  `owed` is
history: the sources with an event that came after their handler was set.

*`Startup`.*  `boot.at` is the option `SystemInit` looks at, `boot.step` the
word it programs.  A power cut may leave a word erased, programmed, or with its
CONNECT bit and not its pin number ("misset").  `Configured` is what the
comment of `system_nrf52.c:185` promises; `ConfiguredUnlessTorn` is what holds
through power cuts, with the one word `SystemInit` cannot tell from a right one.

*`FlashPage`.*  A word is a pair of half words, so that programming can be cut
between them, and the CRC is the code's, on real numbers: `Arrays` of
`MCDevice` has two arrays with the same CRC, for which a write is skipped.
Exclusive or and "and" of 16 bits are looked up in tables of bytes (`XorTable`,
`AndTable`), so that the module can be proved about.
`BLE_FLASH_MAGIC_NUMBER` and the length of a page are in a header that is not
in the repository; `MAGIC` has the value of the SDK.

*`Saadc`, `Timer0`, `Spi`.*  The peripheral is external and does what the code
relies on: START latches the buffer pointer and raises STARTED; INTENSET of a
timer has bits 16 to 21 and ignores others; READY is raised when a byte moves
into RXD, also by the read that makes room for it.

*`AppUart`, `Gpiote`.*  The drivers below are external and behave as their
users assume.  In `AppUart` a byte is its rank and an error is 0; `heard` is what
the driver had, `told` what the application was told of, `emptied` how often it
was told APP_UART_TX_EMPTY.  `app_uart_get` is not what `app_uart.h:182-191` says:
`rx_done` is never reset, so the call returns the last byte again and again,
where the header promises the next one, or NRF_ERROR_NOT_FOUND when none is
left.  `RightBytes` asks neither: it asks that a byte it returns was received and
is not older than one already told.  With EasyDMA `app_uart_put` has a flaw no
property states: a byte it refuses replaces the one on its way out
(`app_uart.c:107`).  In `Gpiote` masks are sets of pins, and the walk over the 32
bits is a walk over a set.  `mixed` marks the two windows in which a snapshot
is wrong: a second pin changes before the handler runs, or a pin changes
between the snapshot and the start of its sensing.

*`Device`.*  `part` is what a build contains besides `SystemInit`; the parts
share nothing but reset and power, so one at a time is all there is to see.

## 3. The runs

| Run | Cfg | Result | What it shows |
| --- | --- | --- | --- |
| `tx_any_order` | `TxAnyOrder.cfg` | holds | whatever the order of the stores of line 113: types, `IndexInRing`, `OneInFlight`, `NoStrandedByte`, `Conserved`, and `Delivered` (as many bytes leave as were accepted) |
| `uart_duplex` | `UartDuplex.cfg` | holds | both halves together: with the byte stored first the driver implements `SerialPipe` and `RxFifo`, liveness included, and every byte gets into the ring |
| `tx_index_first` | `TxIndexFirst.cfg` | `InOrder` violated | index stored first, as in the image: a TXDRDY between the two stores sends the byte the slot held before |
| `terminal` | `Terminal.cfg` | holds | a patient user on a quiet line: every request is answered by a decoded message, and the timeout fires when due; with presses at any time, bounces and noise: a closing of the contact is one request at most (a bounce, though, is a closing: "debounce", `main.c:123`, waits for nothing), what is decoded is still whole, once, in order, and the loop comes back to rest |
| `terminal_timeout` | `TerminalTimeout.cfg` | `TimeoutAlwaysFires` violated | a byte stored in the one pass in which `tmoutCnt` is at the limit: the counter runs past it and the state lasts until the counter has wrapped (2^32 passes, some 20 minutes) |
| `decode_widening` | `DecodeWidening.cfg` | holds | fields that never get shorter are decoded to the last digit, the searches stay inside `cr_all`, and the copies in front of `INFO` |
| `decode_any_width` | `DecodeAnyWidth.cfg` | `Decoded` violated | a field shorter than in the message before: a counter comes out longer than any field (16 in the trace), the number is not converted, and the copies write behind their arrays; with what a reply leaves in the ring the counters can reach 26, and then `INFO`, `DIST` and `ELEV_ANG` are written over |
| `radio_link` | `RadioLink.cfg` | holds | busy flags, one report per reception, senders never silent, receivers listening until their first bad CRC, and never after it |
| `radio_test` | `RadioTest.cfg` | holds | calls return (the modulated carrier if the random number generator runs), their effect stays, `RadioSweepEnd` is final, a sweep visits all its channels, the first included |
| `device` | `Device.cfg` | holds | options in force when `main` runs, but for a torn PSELRESET[1] (`ConfiguredUnlessTorn`); events once and in order (`RunsInOrder`), out of slots nobody writes (`SlotUntouched`), refused only when full (`FullMeansFull`); no event of the SoftDevice stranded (`NoStrandedEvent`); a page read whole or not at all (`ReadWhole`) and there once written (`Durable`); `NeverOverwritten`, `RightBytes`, `SensedForUsers`, `EdgesRight`; and `Progress`: every part goes on, after every cut |
| `pin_reset` | `PinReset.cfg` | `Configured` violated | a power cut while PSELRESET[1] is written: CONNECT is programmed, the pin is not, `SystemInit` is satisfied, and `main` runs without the pin reset of the build, now and after every later start |
| `timer_interrupt` | `TimerInterrupt.cfg` | `TicksEverySecond` violated | `Timer0Init` enables no interrupt |

Every property of a passing run has a mutant in `PROJECT.json`: a plausible
mistake in the code (a missing line, a swapped order, an off-by-one), defined
in the module next to the action it alters, under which TLC finds the property
violated.

### Bounds, and why they are enough

* Rings of 4 slots with at most 3 bytes outstanding; 10 bytes sent in the runs
  of `UartTx`, 5 each way in `uart_duplex`: indices wrap (twice, and once) with
  every fill level and every interleaving at the wrap.  The code treats slots alike, so more add nothing but states.
* `Terminal` scales the message (2 + 2 + 2..3 bytes for 9 + 6 + up to 28), the
  limit (4 passes for 52000) and the counter (8 values for 2^32), keeping
  their relations: a reply is shorter than the limit (`BURST_MAX < LIMIT`; on
  the board 3.7 ms against some 16 ms), the limit is smaller than the counter.
  `RX_DONE` is short against a byte time, hence at most one byte arrives in
  it (`late`).  Three presses of a patient user take up to 21 bytes through a
  ring of 18 slots, so positions wrap.  `patient` is chosen once: the
  properties that need it say so.
* `Samples` of `MCDecode`: every width from 5 to 8 bytes, both signs, 0 and 9
  in every place; all triples, in every order the run allows.  `Stray` 43, the
  length of the longest reply: as far behind `cr_all` as a reply may have put
  the byte looked for.  `Anything` is one value, which no message holds, so a
  number made of foreign bytes is never the right one.
* Two senders and two receivers: packets overlap, and receivers differ in
  what they hear.
* Three channels: a sweep has a first, a middle and a last one.  `LATENCY` 3:
  with 4 the timer's interrupt can come after the caller's TASKS_DISABLE and
  use up the event the caller waits for, and the call hangs.  On a Cortex-M4
  an interrupt raised before a store is taken within an access or two, so
  `RadioSweepEnd` is safe, by a margin of one or two accesses.  (With 5 the
  interrupt may even switch the radio on again after `RadioSweepEnd`:
  `LastCallInForce` fails.  This is why its theorem assumes `Prompt`.)

* `Device`: a queue of 2 events in 3 slots with 2 events of the application, 2
  of the SoftDevice and two priorities above the main program: the ring fills,
  wraps, and puts nest.  One power cut, at any step, and one reset by an error;
  what follows a cut is what can follow a first start, with the flash and UICR
  it left.  Of `direct` and `debug` one at a time, since `debug` matters only
  after an error.  Arrays of 0, 1 and 2 words, in one order and its reverse;
  2 pins, 2 users and 3 edges.

`CHECK_DEADLOCK FALSE` appears where the system may stop: in the UART runs,
when the caller stops sending; in `RadioTest.cfg`, when
`RadioModulatedTxCarrier` waits for a generator that does not run; in
`DecodeAnyWidth.cfg`, when a message has overwritten the counters; in
`Device.cfg` and `PinReset.cfg`, when a part has nothing to do or
`app_error_save_and_stop` has stopped it; in `TimerInterrupt.cfg`, whose timer
has nothing left to show.

### Fairness

Weak fairness of a thread means that the CPU executes it; of a handler, that a
pending interrupt is taken; of the chip's steps, that a started byte or packet
ends.  The caller of `TransmitUART`, the user, the noise and the air's choice
of who hears a packet have none.  `EveryReplyDecoded` needs the meter to
answer and its bytes to arrive (weak fairness of `StartReply` and `Arrive`).
`RadioTest` takes strong fairness for the caller, whom the timer's interrupt
disables again and again: interrupts are a millisecond or more apart and take
microseconds.  `Device` takes weak fairness of the processor and of the
peripherals of the part (`Works`), and of the end of a radio event
(`RadioEnds`); strong fairness of `FlashWorks`, which every radio event
disables: gaps between radio events are longer than a pass of the loop of
`ble_flash.c:118`.  The application, the SoftDevice's events, edges, line and
power cuts have none.

## 4. The proofs

Every theorem is about the specification the runs check, for every value of
its constants that the named assumption allows.  Each module has one inductive
invariant (or one per part), a lemma per action that the action preserves it,
and theorems that follow from it.  TLC has checked the invariants on the
instances of the runs.

### The transmit driver (`UartTx_proofs`)

For every ring size greater than 1, every bound on the bytes outstanding below
it, and, in the first five, either order of the stores of `uart.c:113`:

| Theorem | States |
| --- | --- |
| `TypeCorrect` | `Spec => []TypeOK` |
| `InRing` | `Spec => []IndexInRing`: no access outside the ring |
| `Exclusion` | `Spec => []OneInFlight`: TXD is never overwritten |
| `NoneStranded` | `Spec => []NoStrandedByte`: the last byte is never missed |
| `Conservation` | `Spec => []Conserved`: every place of the ring is used once |
| `SentInOrder` | if the byte is stored first, `Spec => []InOrder` |
| `TransmitIsPipe` | if the byte is stored first, `Spec => Pipe!Spec`: it implements `SerialPipe` |

Assumptions: those of `UartTx` (`SizeAssumption`, `OutstandingAssumption`,
`BoundAssumption`) and the timing in the guard of `ByteSent`.  None of the first
five is inductive by itself.  The invariant `Inv` of the module adds: an index is one
past the ring only between its increment and its wrap (`Indices`); `txState`
together with `pc` says whether a byte is in flight (`Flight`); a byte that a
call has published stays in the ring until someone takes it, and under TX_DONE
no other byte is there (`Holding`); and the caller's bound (`Outstanding`).
`Holding` is the heart of it: when the handler finds the ring empty while a
call is under way, that call has not published its byte, hence will find
TX_DONE when it tests `txState` (`IsrDoneInv`); and when the indices differ,
even before `counterWrite` is wrapped, there really is a byte to send
(`IsrSendInv`).  The lemmas `UsedGrows`, `UsedShrinks` and `UsedWraps` say what
a step of an index does to the number of bytes in the ring.

The last two need `ByteFirst` (`StoreOrders = {"byte first"}`): with the other
order they are false, which the run `tx_index_first` shows.  Their invariant
`Order` says where each byte is by its rank: on the wire, in the transmitter,
on its way to TXD, or so many slots behind `counterRead`.  The refinement maps
`pending` to the bytes of `Pending`, which are the ranks from the wire to the
last call (`PendingIsRun`); `Call` is the pipe's `Accept`, `ByteSent` its
`Transmit`, and all other steps stutter (`StepMapped`).

### The receive driver (`UartRx_proofs`) and the whole driver (`Uart_proofs`)

| Theorem | States |
| --- | --- |
| `ReceiveIsQueue` | for a ring of more than one byte (`SizeOK`), `Spec => ImplementsFifo` |
| `DriverReceives` | `Uart!FairSpec => ImplementsFifo`, under `RxAssumption` |
| `DriverTransmits` | `Uart!FairSpec => Tx!Pipe!Spec`, under `TxAssumption` |
| `ReceiverIsServed` | `Spec => []NotDeaf`: while the receiver holds a byte the event is up or about to be served |
| `DriverIsNotDeaf` | `Uart!FairSpec => []NotDeaf`, of the receive half |

The mapping of `RxFifo` sees what is stored, what is out of the queue and the
write position.  `Receiver` says that the receiver holds the last bytes that
arrived, `Ring` that the backlog is in the ring in order, with room for what
the receiver still holds (so the handler never closes the ring on the main
program), `Reading` that the byte a call is about to load is still in its slot
although the call has already moved `counterRead` on.  `DistanceGrows`,
`DistanceShrinks` and `NoneNearer` are the arithmetic of going round the ring.

`Uart` has one handler for both halves and one call at a time; a step of it is
a step of either half or leaves it alone (`RxStep`, `TxStep`), so the theorems
about the halves carry over.  That uses no fairness: `FairSpec` is named since
it is what the run checks.

### The main loop (`Terminal_proofs`)

For every size of the ring, of the parts of a message, of the limit and of the
counter that `TerminalAssumption` allows (a whole reply fits into the ring;
`BURST_MAX < LIMIT < COUNTER_MOD`), any number of presses, bounces and bytes of
noise:

| Theorem | States |
| --- | --- |
| `TypesHold` | `Spec => []TypeOK`: `cr` and `cr_all` are never written beyond their ends |
| `TimeoutIsNotMissed` | `Spec => []TimeoutFires` |
| `MessagesAreWhole` | `Spec => []AcceptedWhole`: the decoder gets the whole body of one reply |
| `MessagesAreInOrder` | `Spec => []AcceptedOnce` |
| `RequestsFollowClosings` | `Spec => []OneRequestPerClosing` |

The argument has three steps, each a part of `Inv`.

* *The line* (`LineOK`): the bytes of a reply are next to each other
  (`Contiguous`), replies are in order (`Ordered`), and what is still coming
  continues the last one (`InTransit`).
* *The timeout* (`AgeOK`): the loop counts from the first byte of a message,
  so for a reply that began there it has counted no more passes than the reply
  is old.  A reply is at most `BURST_MAX` passes old while it comes, and that is less
  than the limit: when RX_DONE begins, a reply that starts at the first unread byte
  is complete, and one still coming starts behind it (`Ahead`).
* *The tag* (`ReadOK`): `cr[0]` was cleared, so it holds the first byte of a tag
  only if that byte has just been read, `HEADER` places behind the byte the
  message began with.  The reply it is of began there too, so it is not still
  coming (`Ahead`) and stands on the line whole (`InTag`); the loop then reads
  its body from the first byte (`InBody`, `Whole`).  A body shorter than
  `cr_all` is followed by whatever comes next, which is read too and does no
  harm.

`AcceptedOK` adds that what was decoded lies behind what will be read, which
gives order and "once".  `PatientInv` says that with a patient user a request
finds the line quiet (`Quiet`) and that no byte is to come when the counter
stands at its limit; `ButtonInv` counts a closing the loop has yet to see
(`Due`); `RangeInv` are the types that are not needed elsewhere.

### The decoder (`Decode_proofs`)

For every body of at least 28 bytes (`Fits`), every set of numbers of absolute
value below 1000 with three decimals, and whatever lies behind `cr_all`:

| Theorem | States |
| --- | --- |
| `NumbersAreRight` | while fields never get shorter (`WIDENING`), `Spec => []Decoded` |
| `SearchesEndInside` | under the same condition, `Spec => []SearchInside` |
| `WideMessagesAreRight` | without it: a message none of whose fields is shorter than its counter is decoded right |
| `ShortFieldsArePassed` | any other message leaves a counter longer than any field (more than 8) |

The last two are action properties about what happens when `WIDENING` is not
assumed, which is the fault `decode_any_width` shows: `main.c` never resets
`D_cnt`, `E_cnt`, `T_cnt`, so one field shorter than its counter makes one of
them longer than the array of eight bytes that field is copied to, and the copy
writes behind it.  What it overwrites depends on which counter that is and on
what the search met; no theorem says more of it than the model does, which is
that the numbers behind the arrays may be anything.

The argument follows the data.  `FormatIs` and `WidthIs` say which bytes a
number becomes, none of them a space or a CR; `BodyLaid` where they lie in
`cr_all`.  `Stops` says where the first space, the second and the CR are;
`SearchFinds` and `SearchPasses` what a loop does that starts before its stop,
or behind it.  Hence `CountFinds`: the counters become the lengths of the
fields.  `NumberIs` reads a number back from its bytes (`SixDigits`), and
`MessageIsRight` puts these together for one message from any counters that
its fields cover (`Covers`).  `DecodeInv` adds only that the counters were left
by the message before.  No induction over the bytes is needed: a search is the
least member of a set (`LeastMember`), and a number has six digits at most.

### The radio (`RadioLink_proofs`, `RadioTest_proofs`)

| Theorem | States |
| --- | --- |
| `TriggeredWhenFree` | `Spec => []FreeWhenTriggered` |
| `ReceptionsReportedOnce` | `Spec => []ReportedOnce` |
| `BadCrcDeafens` | `Spec => DeafAfterError`, an action property |
| `BusyMeansAtWork` | `Spec => []BusyAtWork`: a busy flag that is up will be reset |
| `SweepsInRange` | `Spec => []SweepInRange`, for every set of channels and every `LATENCY` |
| `LastCallHolds` | if `LATENCY <= 3` (`Prompt`), `Spec => []LastCallInForce` |
| `RadioDisableReturns` | under `Prompt`, `Spec => []WaitsEnd`: the event waited for is up or will be |

For any number of devices under `LinkAssumption` (no device both sends and
receives, and the value for "hears nobody" is no sender).  `SenderOK` and
`ReceiverOK` tie the place of the loop to the stage of the radio: `Off`,
`Listening`, `Ended` (interrupt pending), `ToReport`.  While the loop polls, it
may be in any of the four, and the flag says which.

In `RadioTest` the handler of the timer is alone with the radio while it runs,
which is enough for the sweep (`Handler`).  For the caller, `Timer` says how far
it can be when an interrupt is still pending after the timer was stopped:
`Prompt` makes that no further than the store of TASKS_DISABLE, so `Caller`, what
the caller may rely on at each place, is not disturbed.  `Prompt` is sharp for
the code's good behaviour: with 4 TLC finds `WaitsEnd` violated and a call may
hang (`CallsReturn`), with 5 `LastCallInForce` is false.

### The event pump (`Device_proofs`)

For every queue size from 1 to 255, every number of priorities from 3 up, every
list of sources and every budget of events:

| Theorem | States |
| --- | --- |
| `EventsRunInOrder` | `PumpSpec => []RunsInOrder`: once each, in the order of the slots, never from a slot that is not filled |
| `RunningSlotIsKept` | `PumpSpec => []SlotUntouched`: the handler's pointer stays good |
| `QueueHoldsItsSize` | `PumpSpec => []FullMeansFull`: refused exactly when `m_queue_size` events wait |
| `NoEventIsStranded` | `PumpSpec => []NoStrandedEvent`: no event of the SoftDevice is forgotten |

`PumpSpec` is the pump of `Device` seen alone, with a reset at any time.
`PumpInDevice` proves `Device!Spec => PumpSpec`, so the four hold
of the chip.  Assumptions: `QueueAssumption` and `SoftDeviceAssumption`.

Two invariants carry the proofs.  `QueueInv` says where every event is: those
that wait occupy the slots from the start index to the end index in the order
of `given` (`Ring`), each is in its slot or in the hands of a put under way
(`Stored`), a put under way is for one of them (`Writing`), and the slot taken
last lies right before the start index and still holds its event (`Claimed`).
It is `Stored` that makes the properties inductive: a slot whose put was
preempted is filled before anyone reads it, because the main program takes an
event only when no context above it is at work (`NoPutUnderWay`).  `PumpInv`
adds to `NoStrandedEvent` what its steps need of the flags (`StateOK`): an
event is owed only to a handler that is set, and only while the SoftDevice is
on, so a loop that starts does not give up a source that is owed an event
(`LoopStarts`), and a question takes a source off the loop only when it has
answered that it has no more (`AskStep`).

### The chip (`Device_proofs`)

For every behaviour of `Device`, with its resets and its power cuts:

| Theorem | States |
| --- | --- |
| `PumpInDevice` | `Spec => PumpSpec` |
| `ChipTyped` | `Spec => []TypeOK` |
| `OptionsInForce` | `Spec => []ConfiguredUnlessTorn` |
| `BuffersAlternate` | `Spec => []NeverOverwritten` |
| `BytesAreRight` | `Spec => []RightBytes` |
| `PinsSensedForUsers` | `Spec => []SensedForUsers` |
| `EdgesToldRight` | `Spec => []EdgesRight` |
| `WritesLast` | `Spec => []Durable` |
| `ReadsAreWhole` | if `CrcTells`, `Spec => []ReadWhole` |
| `TransfersAreAnswered` | `Spec => []AnswerComes`: a loop of `TransferSPI` waits for a READY that is up or will be |

Each part has its invariant, a lemma for its own steps and one for the steps of
`Device` (`DeviceStartup`, `DeviceSaadc`, ...), which are a step of the part, a
reset of it, or none.  `StartupInv`: an option that `SystemInit` has passed is in
force, whatever UICR held at this start, but for the second word of the pin
reset, which may be misset; PSELRESET[1] is touched only when PSELRESET[0] is
right (`WordsStaySound`).  `SaadcInv`: flag, PTR and STARTED
together tell which buffer is being filled (`Follows`).  `SpiInv`: the answers on
their way in and out at each place of the transfer (`Answers`).  `AppUartInv`:
what the driver had is what was told, then what the handler has in hand, then
what is not yet reported (`AllHeard`); a byte in the buffer is the newest
(`Ranks`).  `GpioteInv`: the
pins of the user being enabled or disabled that are done and to do (`SenseInv`);
until a window has mixed two edges, the snapshot differs from the levels at the
pending pins only (`EdgeInv`).  `FlashInv`: what the page holds at each step of a
write (`PageOK`); a header that is there is that of a page that holds its array, or
the page is torn.

`ReadsAreWhole` needs more of the page than `FlashInv` tells: what any
number of power cuts may have left of it. `WornInv` says that outside the
programming of an array the page has no magic number in its header, or is
what is left of one array (`Worn`): header whole or with its low half
erased, count and words each as written or erased, nothing behind them. An
erase that is cut takes words away from such a page and adds none
(`CutWorn`); a write that is cut before its header leaves no magic number,
because it begins with an erase, and is `Worn` from the header on
(`TailErased` while it goes on). What a read returns is then an array with
some words erased, or one read on to an erased count (`Left`), and all that
keeps it from being taken for whole is its CRC. `CrcTells` says just that:
no such remainder has the CRC of the whole array, or of the erased half of
the header, unless it is itself an array the caller writes. It is a
condition on the arrays and cannot be had for all of them: the remainders of
an array of n words are up to 2^n, so 16 bits cannot tell them all apart for
a long array, and there the code's promise is only as good as the odds of a
CRC. TLC finds it true of the arrays of the run. The theorem thus shows that
a collision of this kind is the only way `ble_flash_page_read` can return
what was never written.

Assumptions beside those of the pump: `GpioteAssumption` (users ask for pins
there are) and `FlashAssumption` (arrays of words that fit into the page, whose
CRC has 16 bits).  The last is a fact about `ble_flash_crc16_compute`, a
recursion over the array, and proving it takes induction over data; TLC
evaluates it for the arrays of the run.

### What is only model-checked

Every invariant and action property of the passing runs is proved.  What is
left to TLC is liveness: `Delivered`, `Stored`, the liveness of
`ImplementsPipe`, `EveryReplyDecoded`, `ReturnsToStandby`, `KeepsSending`,
`ListensUntilError`, `CallsReturn`, `SweepReachesAll`, `Progress`; fairness and
ENABLED are out of this prover's reach.  For several of them the part that does
not depend on fairness, and in which a lost event or a flag nobody resets would
show, is a theorem of its own:

| Liveness | Its safety core | Theorem |
| --- | --- | --- |
| `Delivered` | no byte is left in the ring with nothing pending | `NoneStranded` |
| `Stored` | `NotDeaf` | `DriverIsNotDeaf` |
| `KeepsSending`, `ListensUntilError` | `BusyAtWork` | `BusyMeansAtWork` |
| `CallsReturn`, `SweepReachesAll` | `WaitsEnd` | `RadioDisableReturns` |
| `Progress`, of the pump | `NoStrandedEvent` | `NoEventIsStranded` |
| `Progress`, of `TransferSPI` | `AnswerComes` | `TransfersAreAnswered` |

Two theorems have a hypothesis that is more than an assumption on sizes:
`Prompt` (the timing of the chip) and `CrcTells` (what a CRC can tell).  And
that a CRC has 16 bits is assumed for the arrays written (`FlashAssumption`),
since `ble_flash_crc16_compute` is a recursion over the array.

## 5. The plan

Done, in this order: transmit driver, receive driver, main loop, decoder,
first proofs, radio packets, radio test modes; then the whole UART driver, the
drivers `main.c` does not call, and the libraries of `RTE` that keep state, in
one composition with start-up and resets; then a proof of every safety
property of the runs, and of the safety core of most of the liveness.  To come:

1. A caller of the test modes that starts a sweep while another runs
   (`radio.c:263`), with its parameters assigned one by one.
2. `RadioDisable` with `RADIO_IRQHandler` enabled (`radio.c:203`), to state
   what exactly can go wrong.

## 6. What is not modelled, and why

* `RadioInit`, `swap_bits`, `bytewise_bitswap`, `GPIOInit`: register writes and
  reversed bits, without a decision; the models start behind them.
  `ClockInitialization` waits once for the crystal, before anything else runs.
  `radio_config.c`, which nothing includes, is a copy of helpers of `radio.c`.
* What the packet of the modulated carrier holds; that it is waited for is in
  `RadioTest`.
* The payload of radio packets, which is empty (section 2), and what the code
  does once a message has written over the decoder's own counters.
* Rounding of floats: the division by 1000.000F is exact to the width of a
  float, and the decoder's properties are about digits.
* Framing and parity errors of the line inside a reply: a message carries no
  checksum, so the code decodes whatever arrives.
* `softdevice_enable`, `softdevice_enable_get_default_config`,
  `sd_check_ram_start`: they fill a structure, pass it on and log.
* `app_gpiote_pins_state_get`, which only reads, and the failure of
  `nrf_drv_gpiote_in_init` in a registration, which leaves the user in the
  table (`app_gpiote.c:132`).
* SWO and trace pins in `SystemInit`, and each workaround by itself: they are
  register writes that a reset undoes and the next start repeats.
* The rest of `RTE`: inline functions that read or write one register
  (`nrf_clock.h`, `nrf_ppi.h`, `nrf_qdec.h`, `nrf_rng.h`), configuration
  macros, the vector table, the SoftDevice's image.
* `nrf_drv_uart` and `nrf_drv_gpiote` are not in the repository; what the
  modules above them assume of them is in `AppUart` and `Gpiote`.
