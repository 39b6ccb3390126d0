------------------------------- MODULE Device -------------------------------
(***************************************************************************)
(* The chip around the drivers and libraries main.c does not call today:   *)
(* SystemInit (Startup) runs after every reset, then main with the one     *)
(* part a build contains.  The parts share the processor, the reset and    *)
(* the power, and nothing else.  A power cut may come at any moment; the   *)
(* flash page and UICR survive it, everything else starts anew.            *)
(***************************************************************************)
EXTENDS SoftDevice, Startup, FlashPage, Saadc, Timer0, Spi, AppUart, Gpiote

CONSTANTS
  Parts,     \* builds: of "none", "pump", "flash", "saadc", "timer", "spi",
             \* "app_uart", "gpiote"
  MaxCuts    \* bound on the power cuts

VARIABLES
  part,      \* the part this build contains
  cuts       \* power cuts so far

drivers == <<saadc, timer, spi, appUart, gpiote>>
vars == <<startupVars, pumpVars, flashVars, drivers, part, cuts>>

(* Options vary in the build without a part, the choices of the event pump *)
(* in its build: a part does not see them.  Of the pump's choices one at a *)
(* time is made: DEBUG decides only what comes after an error.             *)
Init ==
  /\ part \in Parts /\ cuts = 0
  /\ StartupInit /\ (part # "none" => config = {})
  /\ PumpInit /\ ~(direct /\ debug) /\ (part # "pump" => ~direct /\ ~debug)
  /\ FlashInit /\ SaadcInit /\ TimerInit /\ SpiInit /\ AppUartInit /\ GpioteInit

-----------------------------------------------------------------------------
StartsUp ==
  /\ StartupNext
  /\ UNCHANGED <<pumpVars, flashVars, drivers, part, cuts>>

Runs(name) == InMain /\ part = name /\ UNCHANGED <<startupVars, part, cuts>>

Pump == Runs("pump") /\ PumpNext /\ UNCHANGED <<flashVars, drivers>>
Flash == Runs("flash") /\ FlashNext /\ UNCHANGED <<pumpVars, drivers>>
Converter ==
  /\ Runs("saadc") /\ SaadcNext
  /\ UNCHANGED <<pumpVars, flashVars, timer, spi, appUart, gpiote>>
Timer ==
  /\ Runs("timer") /\ TimerNext
  /\ UNCHANGED <<pumpVars, flashVars, saadc, spi, appUart, gpiote>>
Transfer ==
  /\ Runs("spi") /\ SpiNext
  /\ UNCHANGED <<pumpVars, flashVars, saadc, timer, appUart, gpiote>>
Serial ==
  /\ Runs("app_uart") /\ AppUartNext
  /\ UNCHANGED <<pumpVars, flashVars, saadc, timer, spi, gpiote>>
Port ==
  /\ Runs("gpiote") /\ GpioteNext
  /\ UNCHANGED <<pumpVars, flashVars, saadc, timer, spi, appUart>>

(* The reset the error handler asks for.                                   *)
ErrorReset ==
  /\ cpu = "reset"
  /\ PumpReset /\ ResetTo(uicr)
  /\ UNCHANGED <<config, flashVars, drivers, part, cuts>>

PowerCut ==
  /\ cuts < MaxCuts /\ cuts' = cuts + 1
  /\ \E words \in UicrAfterCut : ResetTo(words)
  /\ FlashCut /\ PumpReset
  /\ saadc' = SaadcOff /\ timer' = TimerOff /\ spi' = SpiOff
  /\ appUart' = [UartOff EXCEPT !.came = appUart.came, !.puts = appUart.puts]
  /\ gpiote' = [GpioteOff EXCEPT !.level = gpiote.level, !.edges = gpiote.edges]
  /\ UNCHANGED <<config, part>>

Next ==
  \/ StartsUp \/ ErrorReset \/ PowerCut
  \/ Pump \/ Flash \/ Converter \/ Timer \/ Transfer \/ Serial \/ Port

(* The processor executes whatever the part is; the peripherals work.      *)
(* m_radio_active goes up and down for ever, and stays down longer than a  *)
(* pass of the loop that waits for it, hence the strong fairness.          *)
Works ==
  \/ StartsUp \/ ErrorReset
  \/ Runs("pump") /\ PumpCpu /\ UNCHANGED <<flashVars, drivers>>
  \/ Converter \/ Timer
  \/ Runs("spi") /\ (SPI0Init \/ TransferSPI \/ Shift)
     /\ UNCHANGED <<pumpVars, flashVars, saadc, timer, appUart, gpiote>>
  \/ Runs("app_uart") /\ AppUartCpu
     /\ UNCHANGED <<pumpVars, flashVars, saadc, timer, spi, gpiote>>
  \/ Runs("gpiote") /\ GpioteCpu
     /\ UNCHANGED <<pumpVars, flashVars, saadc, timer, spi, appUart>>

FlashWorks == Runs("flash") /\ FlashCpu /\ UNCHANGED <<pumpVars, drivers>>
RadioEnds == Runs("flash") /\ RadioActiveEvt(FALSE) /\ UNCHANGED <<pumpVars, drivers>>

Spec == Init /\ [][Next]_vars
FairSpec ==
  Spec /\ WF_vars(Works) /\ WF_vars(RadioEnds) /\ SF_vars(FlashWorks)

-----------------------------------------------------------------------------
TypeOK ==
  /\ PumpTypeOK
  /\ boot.at \in 0 .. 3 /\ boot.step \in 0 .. 4
  /\ page \in [Places -> Word32]

(* The byte a caller of SPI or of app_uart gets or sends is the right one. *)
RightBytes == SpiRight /\ UartRight

(* After any cut SystemInit gets to main again.                            *)
Boots == []<>InMain

(* A write to flash ends, however often the radio keeps it waiting.        *)
WriteReturns == (flash # Idle) ~> (flash = Idle)

(* Nothing gets stuck: SystemInit ends, the SoftDevice's events are served,*)
(* writes and transfers return, conversions and reception go on.           *)
Progress ==
  Boots /\ Served /\ WriteReturns /\ ConvertsOn /\ TransferReturns /\ StaysOpen
=============================================================================
