------------------------------ MODULE Startup ------------------------------
(***************************************************************************)
(* SystemInit of system_nrf52.c, which runs after every reset and before   *)
(* main: workarounds in registers, then the options a build may have       *)
(* compiled in, CONFIG_NFCT_PINS_AS_GPIOS and CONFIG_GPIO_AS_PINRESET.     *)
(* An option lives in words of UICR, a part of the flash, that are read    *)
(* into force at reset: SystemInit programs the words once and resets.     *)
(*                                                                         *)
(* A word of UICR is "erased", "programmed" as the option wants it, or     *)
(* "misset": its CONNECT bit is programmed but not yet its pin number.     *)
(***************************************************************************)
EXTENDS Naturals, Sequences

VARIABLES
  config,    \* the options compiled in
  uicr,      \* persistent: the words of UICR
  inForce,   \* the words as they were at the last reset
  boot       \* the option SystemInit is at, the step of its programming,
             \* NVMC CONFIG, and whether the workarounds are applied

startupVars == <<config, uicr, inForce, boot>>

Options == <<"nfct", "pinreset">>
WordsOf(option) ==
  IF option = "nfct" THEN <<"NFCPINS">> ELSE <<"PSELRESET[0]", "PSELRESET[1]">>
UicrWords == {"NFCPINS", "PSELRESET[0]", "PSELRESET[1]"}

AtReset == [at |-> 0, step |-> 0, CONFIG |-> "Ren", applied |-> FALSE]
InMain == boot.at > Len(Options)
Here == Options[boot.at]
Programming == boot.at \in DOMAIN Options /\ boot.step \in DOMAIN WordsOf(Here)

StartupInit ==
  /\ config \in SUBSET {"nfct", "pinreset"}
  /\ uicr = [w \in UicrWords |-> "erased"] /\ inForce = uicr
  /\ boot = AtReset

(* The workarounds, registers that a reset clears.                         *)
Workarounds ==
  /\ boot.at = 0
  /\ boot' = [boot EXCEPT !.applied = TRUE, !.at = 1]
  /\ UNCHANGED <<config, uicr, inForce>>

(* Bug: only the first word is looked at.                                  *)
MissingFirst(option) == uicr[WordsOf(option)[1]] = "erased"
Missing(option) ==
  \E k \in DOMAIN WordsOf(option) : uicr[WordsOf(option)[k]] = "erased"

(* Bug: NVMC is left read-only.                                            *)
OpenNever ==
  boot' = (IF Here \in config /\ Missing(Here)
           THEN [boot EXCEPT !.step = 1] ELSE [boot EXCEPT !.at = @ + 1])
Open ==
  boot' = (IF Here \in config /\ Missing(Here)
           THEN [boot EXCEPT !.step = 1, !.CONFIG = "Wen"]
           ELSE [boot EXCEPT !.at = @ + 1])

Test ==
  /\ boot.at \in DOMAIN Options /\ boot.step = 0
  /\ Open
  /\ UNCHANGED <<config, uicr, inForce>>

Program ==
  /\ Programming
  /\ uicr' = (IF boot.CONFIG = "Wen"
              THEN [uicr EXCEPT ![WordsOf(Here)[boot.step]] = "programmed"]
              ELSE uicr)
  /\ boot' = [boot EXCEPT !.step = @ + 1]
  /\ UNCHANGED <<config, inForce>>

Close ==
  /\ boot.step > 0 /\ ~Programming /\ boot.CONFIG = "Wen"
  /\ boot' = [boot EXCEPT !.CONFIG = "Ren"]
  /\ UNCHANGED <<config, uicr, inForce>>

(* NVIC_SystemReset, called here or by the error handler.                  *)
ResetTo(words) == uicr' = words /\ inForce' = words /\ boot' = AtReset

SystemReset ==
  /\ boot.step > 0 /\ ~Programming /\ boot.CONFIG = "Ren"
  /\ ResetTo(uicr)
  /\ UNCHANGED config

StartupNext == Workarounds \/ Test \/ Program \/ Close \/ SystemReset

(* Power comes back after a cut.  A word that was being programmed may     *)
(* have kept any part of it.                                               *)
UicrAfterCut ==
  IF Programming /\ boot.CONFIG = "Wen"
  THEN LET w == WordsOf(Here)[boot.step]
       IN  {[uicr EXCEPT ![w] = v] : v \in {uicr[w], "programmed"} \cup
              (IF w = "NFCPINS" \/ uicr[w] # "erased" THEN {} ELSE {"misset"})}
  ELSE {uicr}

-----------------------------------------------------------------------------
(* In main every option of the build is in force, the workarounds are      *)
(* applied and the flash is read-only ("Configure GPIO pads as pPin Reset  *)
(* pin if Pin Reset capabilities desired", system_nrf52.c:185).            *)
Configured ==
  InMain =>
    /\ boot.applied /\ boot.CONFIG = "Ren"
    /\ \A o \in config : \A k \in DOMAIN WordsOf(o) :
         inForce[WordsOf(o)[k]] = "programmed"

(* What holds of it when the power may have been cut: the only word that   *)
(* may be wrong in main is PSELRESET[1], cut off with CONNECT programmed   *)
(* and its pin not, which SystemInit then takes for programmed.  (Any      *)
(* other word cut off is programmed again: both words are tested, and the  *)
(* second is touched only when the first is right.)                        *)
ConfiguredUnlessTorn ==
  InMain =>
    /\ boot.applied /\ boot.CONFIG = "Ren"
    /\ \A o \in config : \A k \in DOMAIN WordsOf(o) :
         \/ inForce[WordsOf(o)[k]] = "programmed"
         \/ WordsOf(o)[k] = "PSELRESET[1]" /\ inForce[WordsOf(o)[k]] = "misset"
=============================================================================
