------------------------------- MODULE Timer0 -------------------------------
(***************************************************************************)
(* The driver of timer 0, src/Src/timer.c, with the timer (external): of   *)
(* INTENSET the timer implements bits 16 to 21, bit 16 for COMPARE0.       *)
(***************************************************************************)
EXTENDS Naturals

VARIABLE timer

timerVars == <<timer>>

(* NRF_TIMER_EVENT_COMPARE0 is the offset of the event's register, 0x140.  *)
EVENT_COMPARE0 == 320
Bits(mask) == {b \in 0 .. 30 : (mask \div 2^b) % 2 = 1}
IntSet(mask) == Bits(mask) \cap (16 .. 21)

TimerOff == [on |-> FALSE, INTEN |-> {}, COMPARE0 |-> FALSE, timerFlag |-> 0]

TimerInit == timer = TimerOff

Timer0Init ==
  /\ ~timer.on
  /\ timer' = [timer EXCEPT !.on = TRUE, !.COMPARE0 = FALSE,
                            !.INTEN = IntSet(EVENT_COMPARE0)]

TIMER0_IRQHandler(t) ==
  IF IntSet(EVENT_COMPARE0) \cap t.INTEN # {} /\ t.COMPARE0
  THEN [t EXCEPT !.COMPARE0 = FALSE, !.timerFlag = 1] ELSE t

(* A second is over: the event, and the interrupt if it is enabled.        *)
Compare0 ==
  /\ timer.on
  /\ LET t == [timer EXCEPT !.COMPARE0 = TRUE]
     IN  timer' = (IF 16 \in t.INTEN THEN TIMER0_IRQHandler(t) ELSE t)

TimerNext == Timer0Init \/ Compare0

-----------------------------------------------------------------------------
(* timer.c:15: "count timer ticks to interrupt every 1 sec".  A timer that *)
(* runs gets its flag set.                                                 *)
TicksEverySecond == timer.on ~> (timer.timerFlag = 1 \/ ~timer.on)
=============================================================================
