----------------------------- MODULE RadioTest -----------------------------
(***************************************************************************)
(* The test modes of src/Src/radio.c: an unmodulated or modulated carrier, *)
(* an open receiver, and the sweeps, in which TIMER1_IRQHandler moves the  *)
(* carrier from channel to channel.  Every one of them goes through        *)
(* RadioDisable, which switches the radio off and waits for it.            *)
(*                                                                         *)
(* Two threads run this code: the caller ("main") and TIMER1_IRQHandler    *)
(* ("timer"), which preempts the caller.  A thread makes one access to the *)
(* radio or the timer at a time.  Nothing in the repository calls the test *)
(* modes; the caller of this module uses them in any order, with two rules:*)
(* a sweep is ended by RadioSweepEnd before anything else is started, and  *)
(* RadioInit has not been called.  (It enables RADIO_IRQHandler, which     *)
(* clears the very event RadioDisable waits for.)                          *)
(* The modulated carrier sends random numbers and waits for the generator  *)
(* of the chip, which nothing in the repository starts: rng says whether   *)
(* the caller of this module has.                                          *)
(* TXPOWER and MODE are set along with FREQUENCY and left out.             *)
(***************************************************************************)
EXTENDS Integers

CONSTANTS
  Channels,     \* channels the caller asks for
  LATENCY       \* accesses the caller may make before an interrupt is taken

ASSUME TestAssumption ==
  /\ Channels \subseteq 0 .. 100
  /\ Channels # {}
  /\ LATENCY \in Nat \ {0}

VARIABLES
  channel_start_, channel_, channel_end_, sweep_tx_,   \* statics of radio.c
  pc,         \* next access of a thread, "idle" when it is not running
  job,        \* what the thread is to start: <<kind, channel>>
  SHORTS,     \* "none", "start", or "repeat" for the modulated carrier
  radio,      \* DISABLED, RU (ramp-up), ON, or DISABLING
  disabled,   \* EVENTS_DISABLED
  carrier,    \* what the radio was last enabled for: <<kind, channel>>
  running,    \* TIMER1 is counting
  compare,    \* TIMER1 EVENTS_COMPARE[0]
  lag,        \* accesses the caller has made since compare was raised
  rng         \* the random number generator has been started

sweep == <<channel_start_, channel_, channel_end_, sweep_tx_>>
chip == <<SHORTS, radio, disabled, carrier>>
timer == <<running, compare>>
vars == <<sweep, pc, job, chip, timer, lag, rng>>

Threads == {"main", "timer"}

Init ==
  /\ channel_start_ = 0 /\ channel_ = 0 /\ channel_end_ = 0
  /\ sweep_tx_ = FALSE
  /\ pc = [t \in Threads |-> "idle"]
  /\ job = [t \in Threads |-> <<"end", 0>>]
  /\ SHORTS = "none"
  /\ radio = "DISABLED"
  /\ disabled = FALSE
  /\ carrier = <<"end", 0>>
  /\ running = FALSE
  /\ compare = FALSE
  /\ lag = 0
  /\ rng \in BOOLEAN

-----------------------------------------------------------------------------
(* The caller runs while the handler does not; when an interrupt is        *)
(* pending it makes a few accesses at most before it is preempted.         *)
Runs(t) ==
  IF t = "timer" THEN UNCHANGED lag
  ELSE /\ pc["timer"] = "idle"
       /\ compare => lag < LATENCY
       /\ lag' = (IF compare THEN lag + 1 ELSE 0)

Step(t, from, to) == Runs(t) /\ pc[t] = from /\ pc' = [pc EXCEPT ![t] = to]

(* RadioTxCarrier, RadioModulatedTxCarrier, RadioRxCarrier.                *)
Sweeping == running
CallCarrier ==
  /\ ~Sweeping
  /\ Step("main", "idle", "shorts")
  /\ \E kind \in {"tx", "modulated", "rx"}, c \in Channels :
       job' = [job EXCEPT !["main"] = <<kind, c>>]
  /\ UNCHANGED <<sweep, rng, chip, timer>>

(* Timer1Init starts the timer; the event is left as it is.                *)
Timer1Init == running' = TRUE /\ UNCHANGED compare

(* RadioTxSweepStart, RadioRxSweepStart.  No sweep is running, so nothing  *)
(* can look at the parameters while they are assigned one by one.          *)
CallSweepStart ==
  /\ ~Sweeping
  /\ Step("main", "idle", "idle")
  /\ \E from, to \in Channels :
       channel_start_' = from /\ channel_' = from /\ channel_end_' = to
  /\ sweep_tx_' \in BOOLEAN
  /\ Timer1Init
  /\ job' = [job EXCEPT !["main"] = <<"sweep", 0>>]
  /\ UNCHANGED <<chip, rng>>

CallSweepEnd ==
  /\ Step("main", "idle", "stop timer")
  /\ job' = [job EXCEPT !["main"] = <<"end", 0>>]
  /\ UNCHANGED <<sweep, rng, chip, timer>>

(* Bug: the timer is not stopped.                                          *)
StopTimerNever ==
  /\ Step("main", "stop timer", "shorts")
  /\ UNCHANGED <<sweep, rng, job, chip, timer>>

StopTimer ==
  /\ Step("main", "stop timer", "shorts")
  /\ running' = FALSE
  /\ UNCHANGED <<sweep, rng, job, chip, compare>>

-----------------------------------------------------------------------------
(* RadioDisable.                                                           *)

(* Bug: the shortcut that repeats the packet is left in place.             *)
KeepShorts(t) ==
  /\ Step(t, "shorts", "clear")
  /\ UNCHANGED <<sweep, rng, job, chip, timer>>

ClearShorts(t) ==
  /\ Step(t, "shorts", "clear")
  /\ SHORTS' = "none"
  /\ UNCHANGED <<sweep, rng, job, radio, disabled, carrier, timer>>

ClearEvent(t) ==
  /\ Step(t, "clear", "disable")
  /\ disabled' = FALSE
  /\ UNCHANGED <<sweep, rng, job, SHORTS, radio, carrier, timer>>

(* The radio acknowledges the task at once if it is disabled already.      *)
TriggerDisable(t) ==
  /\ Step(t, "disable", "wait")
  /\ IF radio = "DISABLED"
     THEN disabled' = TRUE /\ UNCHANGED radio
     ELSE radio' = "DISABLING" /\ UNCHANGED disabled
  /\ UNCHANGED <<sweep, rng, job, SHORTS, carrier, timer>>

(* Bug: the loop of line 203 is missing.                                   *)
WaitNever(t) ==
  /\ Step(t, "wait", "clear again")
  /\ UNCHANGED <<sweep, rng, job, chip, timer>>

(* while (EVENTS_DISABLED == 0)                                            *)
Wait(t) ==
  /\ Step(t, "wait", "clear again")
  /\ disabled
  /\ UNCHANGED <<sweep, rng, job, chip, timer>>

ClearAgain(t) ==
  /\ Step(t, "clear again", IF job[t][1] = "end" THEN "idle"
                         ELSE IF job[t][1] = "modulated" THEN "generate"
                         ELSE "set up")
  /\ disabled' = FALSE
  /\ UNCHANGED <<sweep, rng, job, SHORTS, radio, carrier, timer>>

RadioDisable(t) ==
  \/ ClearShorts(t)
  \/ ClearEvent(t)
  \/ TriggerDisable(t)
  \/ Wait(t)
  \/ ClearAgain(t)

(* GenerateModulatedRfPacket: address and payload are 259 numbers of rnd8, *)
(* each awaited with while (EVENTS_VALRDY == 0).  They come one after the  *)
(* other if the generator is running, and the first never if it is not.    *)
Generate(t) ==
  /\ Step(t, "generate", "set up")
  /\ rng
  /\ UNCHANGED <<sweep, rng, job, chip, timer>>

(* The rest of the three functions that start a carrier.                   *)
SetUp(t) ==
  /\ Step(t, "set up", "enable")
  /\ SHORTS' = IF job[t][1] = "modulated" THEN "repeat" ELSE "start"
  /\ UNCHANGED <<sweep, rng, job, radio, disabled, carrier, timer>>

(* TASKS_TXEN, TASKS_RXEN: without effect unless the radio is disabled.    *)
Enable(t) ==
  /\ Step(t, "enable", IF t = "main" THEN "idle" ELSE "advance")
  /\ IF radio = "DISABLED"
     THEN radio' = "RU" /\ carrier' = job[t]
     ELSE UNCHANGED <<radio, carrier>>
  /\ UNCHANGED <<sweep, rng, job, SHORTS, disabled, timer>>

Carrier(t) == RadioDisable(t) \/ Generate(t) \/ SetUp(t) \/ Enable(t)

-----------------------------------------------------------------------------
(* TIMER1_IRQHandler.                                                      *)
TimerIrq ==
  /\ compare
  /\ Step("timer", "idle", "shorts")
  /\ job' = [job EXCEPT !["timer"] =
               <<IF sweep_tx_ THEN "tx" ELSE "rx", channel_>>]
  /\ UNCHANGED <<sweep, rng, chip, timer>>

(* Bug: ">=" in line 298.                                                  *)
AdvanceShort ==
  /\ Step("timer", "advance", "done")
  /\ channel_' = IF channel_ + 1 >= channel_end_ THEN channel_start_
                 ELSE channel_ + 1
  /\ UNCHANGED <<channel_start_, channel_end_, sweep_tx_, rng, job, chip,
                 timer>>

Advance ==
  /\ Step("timer", "advance", "done")
  /\ channel_' = IF channel_ + 1 > channel_end_ THEN channel_start_
                 ELSE channel_ + 1
  /\ UNCHANGED <<channel_start_, channel_end_, sweep_tx_, rng, job, chip,
                 timer>>

TimerDone ==
  /\ pc["timer"] = "done"
  /\ pc' = [pc EXCEPT !["timer"] = "idle"]
  /\ compare' = FALSE
  /\ lag' = 0
  /\ UNCHANGED <<sweep, rng, job, chip, running>>

TIMER1_IRQHandler == TimerIrq \/ Carrier("timer") \/ Advance \/ TimerDone

-----------------------------------------------------------------------------
(* The timer and the radio.                                                *)
Compare ==
  /\ running
  /\ ~compare
  /\ compare' = TRUE
  /\ UNCHANGED <<sweep, rng, pc, job, chip, running, lag>>

RampedUp ==
  /\ radio = "RU"
  /\ radio' = "ON"
  /\ UNCHANGED <<sweep, rng, pc, job, SHORTS, disabled, carrier, timer, lag>>

(* A packet of the modulated carrier ends: shortcut END_DISABLE.           *)
PacketEnds ==
  /\ radio = "ON"
  /\ SHORTS = "repeat"
  /\ radio' = "DISABLING"
  /\ UNCHANGED <<sweep, rng, pc, job, SHORTS, disabled, carrier, timer, lag>>

(* And with the shortcut DISABLED_TXEN the next one starts.                *)
Disabled ==
  /\ radio = "DISABLING"
  /\ radio' = IF SHORTS = "repeat" THEN "RU" ELSE "DISABLED"
  /\ disabled' = TRUE
  /\ UNCHANGED <<sweep, rng, pc, job, SHORTS, carrier, timer, lag>>

Main == StopTimer \/ Carrier("main")
Calls == CallCarrier \/ CallSweepStart \/ CallSweepEnd
Radio == RampedUp \/ PacketEnds \/ Disabled

Next == Calls \/ Main \/ TIMER1_IRQHandler \/ Compare \/ Radio

Spec == Init /\ [][Next]_vars

(* The CPU executes, the radio and the timer run.  Timer interrupts are a  *)
(* millisecond or more apart and take microseconds, so the caller is not   *)
(* starved by them (SF).                                                   *)
FairSpec ==
  /\ Spec
  /\ SF_vars(Main)
  /\ WF_vars(TIMER1_IRQHandler)
  /\ WF_vars(Compare)
  /\ WF_vars(RampedUp)
  /\ WF_vars(Disabled)

-----------------------------------------------------------------------------
(* When a call has returned, the radio does what was asked and goes on     *)
(* doing it: off after RadioSweepEnd (no late timer interrupt switches it  *)
(* on again), and otherwise on, with the carrier and the channel asked for *)
(* (no TASKS_TXEN came while the radio was still busy being disabled).     *)
LastCallInForce ==
  LET asked == job["main"] IN
  pc["main"] = "idle" =>
    CASE asked[1] = "end" -> radio = "DISABLED"
      [] asked[1] = "sweep" -> TRUE
      [] OTHER -> carrier = asked /\ radio # "DISABLED"

(* In a sweep every TASKS_TXEN or TASKS_RXEN takes effect, inside the      *)
(* channels asked for.                                                     *)
SweepInRange ==
  pc["timer"] \in {"advance", "done"} =>
    /\ carrier = job["timer"]
    /\ radio # "DISABLED"
    /\ carrier[2] = channel_start_ \/ carrier[2] \in channel_start_ .. channel_end_

(* A sweep reaches every one of its channels, the first and the last       *)
(* included, with the carrier it is a sweep of.                            *)
SweepReachesAll ==
  \A c \in Channels, tx \in BOOLEAN :
    (/\ running /\ sweep_tx_ = tx
     /\ c = channel_start_ \/ c \in channel_start_ .. channel_end_)
      ~> (carrier = <<IF tx THEN "tx" ELSE "rx", c>> \/ ~running)

(* Every call returns: RadioDisable does not wait for ever.  The one       *)
(* exception is RadioModulatedTxCarrier with the generator not running.    *)
CallsReturn ==
  (/\ pc["main"] \in {"stop timer", "shorts"}
   /\ job["main"][1] = "modulated" => rng) ~> pc["main"] = "idle"
=============================================================================
