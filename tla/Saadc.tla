------------------------------- MODULE Saadc -------------------------------
(***************************************************************************)
(* The SAADC driver, src/Src/adc.c, with the converter (external): the     *)
(* START task takes the buffer pointer over and raises STARTED, a full     *)
(* buffer raises END and ends the run.  The handler serves both events in  *)
(* one call, STARTED first; the converter goes on between its two parts.   *)
(***************************************************************************)
EXTENDS Naturals

VARIABLE saadc

saadcVars == <<saadc>>

SaadcOff ==
  [pc |-> "off", flag |-> 0, PTR |-> 0, latched |-> 0, converting |-> FALSE,
   STARTED |-> FALSE, END |-> FALSE,
   full |-> 0]     \* history: the buffer filled last

SaadcInit == saadc = SaadcOff

TaskStart(s) ==
  [s EXCEPT !.latched = s.PTR, !.converting = TRUE, !.STARTED = TRUE]

SAADCInit ==
  /\ saadc.pc = "off"
  /\ saadc' = TaskStart([saadc EXCEPT !.pc = "main", !.PTR = 1])

BufferFull ==
  /\ saadc.converting
  /\ saadc' = [saadc EXCEPT !.converting = FALSE, !.END = TRUE, !.full = saadc.latched]

SaadcInterrupt ==
  /\ saadc.pc = "main" /\ (saadc.STARTED \/ saadc.END)
  /\ saadc' = [saadc EXCEPT !.pc = "started"]

(* Bug: line 79 is missing.                                                *)
StartedBranchNoFlag ==
  /\ saadc.pc = "started"
  /\ saadc' = [(IF ~saadc.STARTED THEN saadc
                ELSE [saadc EXCEPT !.STARTED = FALSE, !.flag = 0,
                                   !.PTR = IF saadc.flag = 1 THEN 1 ELSE 2])
               EXCEPT !.pc = "end"]
StartedBranch ==
  /\ saadc.pc = "started"
  /\ saadc' = [(IF ~saadc.STARTED THEN saadc
                ELSE [saadc EXCEPT !.STARTED = FALSE, !.flag = 1 - @,
                                   !.PTR = IF saadc.flag = 1 THEN 1 ELSE 2])
               EXCEPT !.pc = "end"]

EndBranch ==
  /\ saadc.pc = "end"
  /\ saadc' = [(IF ~saadc.END THEN saadc
                ELSE TaskStart([saadc EXCEPT !.END = FALSE]))
               EXCEPT !.pc = "main"]

SaadcNext ==
  SAADCInit \/ BufferFull \/ SaadcInterrupt \/ StartedBranch \/ EndBranch

-----------------------------------------------------------------------------
(* The converter never fills the buffer it has filled last, which is the   *)
(* one to be processed, however late the interrupt is served: STARTED and  *)
(* END may be pending together, and the order of the branches decides.     *)
NeverOverwritten == saadc.converting => saadc.latched # saadc.full

(* Conversions go on for ever.                                             *)
ConvertsOn == []<>(saadc.converting \/ saadc.pc = "off")
=============================================================================
