-------------------------- MODULE RadioTest_proofs --------------------------
(***************************************************************************)
(* Proofs about the test modes of radio.c, for every set of channels: what *)
(* a sweep switches on is what it asked for, and when a call has returned  *)
(* the radio does what the call asked.                                     *)
(***************************************************************************)
EXTENDS RadioTest, TLAPS

Kinds == {"tx", "modulated", "rx", "sweep", "end"}

Disabling == {"shorts", "clear", "disable", "wait", "clear again"}
Starting == {"generate", "set up", "enable"}
Labels == {"idle", "stop timer", "advance", "done"} \cup Disabling \cup Starting

TypeOK ==
  /\ channel_start_ \in Int /\ channel_ \in Int /\ channel_end_ \in Int
  /\ sweep_tx_ \in BOOLEAN
  /\ pc \in [Threads -> Labels]
  /\ pc["main"] \notin {"advance", "done"}
  /\ pc["timer"] # "stop timer"
  /\ job \in [Threads -> Kinds \X Int]
  /\ SHORTS \in {"none", "start", "repeat"}
  /\ radio \in {"DISABLED", "RU", "ON", "DISABLING"}
  /\ disabled \in BOOLEAN
  /\ running \in BOOLEAN
  /\ compare \in BOOLEAN
  /\ lag \in Nat
  /\ rng \in BOOLEAN

-----------------------------------------------------------------------------
(* The handler: while it runs nothing else does but the radio.             *)

InRange(c) == c = channel_start_ \/ c \in channel_start_ .. channel_end_

Handler ==
  LET at == pc["timer"] IN
  /\ InRange(channel_)
  /\ at # "idle" => InRange(job["timer"][2]) /\ job["timer"][1] \in {"tx", "rx"}
  /\ at \in {"clear", "disable", "wait", "clear again", "generate", "set up"} =>
       SHORTS = "none"
  /\ at \in {"disable", "wait"} /\ disabled => radio = "DISABLED"
  /\ at \in {"clear again"} \cup Starting => radio = "DISABLED"
  /\ at \in Starting => ~disabled
  /\ at \in {"enable", "advance", "done"} => SHORTS = "start"
  /\ at \in {"advance", "done"} =>
       carrier = job["timer"] /\ radio \in {"RU", "ON"} /\ ~disabled

SweepInv == TypeOK /\ Handler

-----------------------------------------------------------------------------
(* The caller.  An interrupt pending when the timer is stopped is taken    *)
(* before RadioDisable triggers TASKS_DISABLE, the third access from there.*)
Prompt == LATENCY <= 3

Timer ==
  /\ pc["timer"] # "idle" => compare
  /\ ~compare => lag = 0
  /\ running => \/ pc["main"] = "idle" /\ job["main"][1] = "sweep"
                \/ pc["main"] = "stop timer"
  /\ compare /\ ~running => \/ pc["main"] = "shorts" /\ lag >= 1
                            \/ pc["main"] = "clear" /\ lag >= 2
                            \/ pc["main"] = "disable" /\ lag >= 3
  /\ compare /\ ~running => job["main"][1] = "end"
  /\ pc["main"] = "stop timer" => job["main"][1] = "end"

Caller ==
  LET at == pc["main"]
      asked == job["main"]
  IN
  /\ at \in {"clear", "disable", "wait"} => SHORTS # "repeat"
  /\ at \in {"disable", "wait"} /\ disabled => radio = "DISABLED"
  /\ at \in {"clear again"} \cup Starting => radio = "DISABLED"
  /\ at \in Starting => asked[1] \in {"tx", "modulated", "rx"}
  /\ at # "idle" => asked[1] # "sweep"
  /\ at = "idle" /\ asked[1] = "end" => radio = "DISABLED"
  /\ at = "idle" /\ asked[1] \in {"tx", "modulated", "rx"} =>
       /\ carrier = asked
       /\ radio # "DISABLED"
       /\ radio = "DISABLING" => SHORTS = "repeat"

CallInv == SweepInv /\ Timer /\ Caller
-----------------------------------------------------------------------------
(* What an access of a thread does to the places of both.                  *)
LEMMA Places ==
  ASSUME TypeOK, NEW t \in Threads, NEW from, NEW to, Step(t, from, to)
  PROVE  /\ pc[t] = from /\ pc'[t] = to
         /\ \A u \in Threads : u # t => pc'[u] = pc[u]
         /\ pc' = [pc EXCEPT ![t] = to]
         /\ t = "main" => pc["timer"] = "idle"
  BY DEF TypeOK, Step, Runs, Threads

LEMMA PlaceTypes ==
  ASSUME TypeOK, NEW t \in Threads, NEW from, NEW to \in Labels,
         Step(t, from, to),
         to \in {"advance", "done"} => t = "timer",
         to = "stop timer" => t = "main"
  PROVE  /\ pc' \in [Threads -> Labels]
         /\ pc'["main"] \notin {"advance", "done"}
         /\ pc'["timer"] # "stop timer"
<1>1. pc' = [pc EXCEPT ![t] = to] BY Places
<1>2. pc \in [Threads -> Labels] BY DEF TypeOK
<1>3. pc' \in [Threads -> Labels] BY <1>1, <1>2
<1>4. CASE t = "main"
  <2>1. pc'["main"] = to /\ pc'["timer"] = pc["timer"]
    BY <1>1, <1>2, <1>4 DEF Threads
  <2> QED BY <1>3, <1>4, <2>1 DEF TypeOK
<1>5. CASE t = "timer"
  <2>1. pc'["timer"] = to /\ pc'["main"] = pc["main"]
    BY <1>1, <1>2, <1>5 DEF Threads
  <2> QED BY <1>3, <1>5, <2>1 DEF TypeOK
<1> QED BY <1>4, <1>5 DEF Threads

LEMMA LagType ==
  ASSUME TypeOK, NEW t \in Threads, NEW from, NEW to, Step(t, from, to)
  PROVE  lag' \in Nat
<1>1. lag \in Nat BY DEF TypeOK
<1>2. CASE t = "timer" BY <1>1, <1>2 DEF Step, Runs
<1>3. CASE t # "timer"
  <2>1. lag' = IF compare THEN lag + 1 ELSE 0 BY <1>3 DEF Step, Runs
  <2>2. CASE compare BY <1>1, <2>1, <2>2
  <2>3. CASE ~compare BY <2>1, <2>3
  <2> QED BY <2>2, <2>3
<1> QED BY <1>2, <1>3

LEMMA JobType ==
  ASSUME TypeOK, NEW t \in Threads, NEW j \in Kinds \X Int,
         job' = [job EXCEPT ![t] = j]
  PROVE  /\ job' \in [Threads -> Kinds \X Int]
         /\ job'[t] = j
         /\ \A u \in Threads : u # t => job'[u] = job[u]
  BY DEF TypeOK

LEMMA InitSweep == ASSUME Init PROVE SweepInv
<1>1. TypeOK
  <2>1. pc \in [Threads -> Labels] BY DEF Init, Labels
  <2>2. job \in [Threads -> Kinds \X Int]
    <3>1. <<"end", 0>> \in Kinds \X Int BY DEF Kinds
    <3> QED BY <3>1 DEF Init
  <2> QED BY <2>1, <2>2 DEF Init, TypeOK, Threads
<1>2. Handler BY DEF Init, Handler, Threads, InRange, Starting
<1> QED BY <1>1, <1>2 DEF SweepInv

(* Calls of the main program are made outside the handler.                 *)
LEMMA CallsSweep == ASSUME SweepInv, Calls PROVE SweepInv'
<1> USE DEF SweepInv
<1>1. CASE CallCarrier
  <2>1. PICK k \in {"tx", "modulated", "rx"}, c \in Channels :
          job' = [job EXCEPT !["main"] = <<k, c>>]
    BY <1>1 DEF CallCarrier
  <2>2. Step("main", "idle", "shorts") /\ UNCHANGED <<sweep, rng, chip, timer>>
    BY <1>1 DEF CallCarrier
  <2>3. /\ pc' = [pc EXCEPT !["main"] = "shorts"]
        /\ pc'["timer"] = "idle" /\ pc'["main"] = "shorts"
    BY <2>2, Places DEF Threads
  <2>4. c \in Int BY TestAssumption
  <2>5. job' \in [Threads -> Kinds \X Int]
    <3>1. <<k, c>> \in Kinds \X Int BY <2>4 DEF Kinds
    <3> QED BY <2>1, <3>1, JobType DEF Threads
  <2>6. TypeOK'
    BY <2>2, <2>3, <2>5, LagType
    DEF TypeOK, Threads, Labels, Disabling, sweep, chip, timer
  <2>7. Handler' BY <2>2, <2>3 DEF Handler, InRange, Starting, sweep, chip, timer
  <2> QED BY <2>6, <2>7
<1>2. CASE CallSweepStart
  <2>1. PICK from \in Channels, to \in Channels :
          channel_start_' = from /\ channel_' = from /\ channel_end_' = to
    BY <1>2 DEF CallSweepStart
  <2>2. /\ Step("main", "idle", "idle") /\ sweep_tx_' \in BOOLEAN
        /\ running' = TRUE /\ compare' = compare
        /\ job' = [job EXCEPT !["main"] = <<"sweep", 0>>]
        /\ UNCHANGED <<chip, rng>>
    BY <1>2 DEF CallSweepStart, Timer1Init
  <2>3. /\ pc' = [pc EXCEPT !["main"] = "idle"]
        /\ pc'["timer"] = "idle" /\ pc'["main"] = "idle"
    BY <2>2, Places DEF Threads
  <2>4. from \in Int /\ to \in Int BY TestAssumption
  <2>5. job' \in [Threads -> Kinds \X Int]
    <3>1. <<"sweep", 0>> \in Kinds \X Int BY DEF Kinds
    <3> QED BY <2>2, <3>1, JobType DEF Threads
  <2>6. TypeOK'
    BY <2>1, <2>2, <2>3, <2>4, <2>5, LagType
    DEF TypeOK, Threads, Labels, Disabling, chip
  <2>7. Handler' BY <2>1, <2>2, <2>3 DEF Handler, InRange, Starting, chip
  <2> QED BY <2>6, <2>7
<1>3. CASE CallSweepEnd
  <2>1. /\ Step("main", "idle", "stop timer")
        /\ job' = [job EXCEPT !["main"] = <<"end", 0>>]
        /\ UNCHANGED <<sweep, rng, chip, timer>>
    BY <1>3 DEF CallSweepEnd
  <2>2. /\ pc' = [pc EXCEPT !["main"] = "stop timer"]
        /\ pc'["timer"] = "idle" /\ pc'["main"] = "stop timer"
    BY <2>1, Places DEF Threads
  <2>3. job' \in [Threads -> Kinds \X Int]
    <3>1. <<"end", 0>> \in Kinds \X Int BY DEF Kinds
    <3> QED BY <2>1, <3>1, JobType DEF Threads
  <2>4. TypeOK'
    BY <2>1, <2>2, <2>3, LagType
    DEF TypeOK, Threads, Labels, Disabling, sweep, chip, timer
  <2>5. Handler' BY <2>1, <2>2 DEF Handler, InRange, Starting, sweep, chip, timer
  <2> QED BY <2>4, <2>5
<1> QED BY <1>1, <1>2, <1>3 DEF Calls
(* RadioDisable and the start of a carrier, by either thread.  While the   *)
(* handler is idle the caller cannot disturb it; while it is not, the      *)
(* caller does not run.                                                    *)
ThreadStep(t) == Carrier(t) \/ (t = "main" /\ StopTimer)

LEMMA ThreadTypes ==
  ASSUME TypeOK, NEW t \in Threads, ThreadStep(t)
  PROVE  TypeOK' /\ UNCHANGED <<sweep, rng, job, compare>>
<1>1. PICK from, to \in Labels :
        /\ Step(t, from, to)
        /\ to \notin {"stop timer", "done"}
        /\ to = "advance" => t = "timer"
  <2>1. /\ "clear" \in Labels /\ "disable" \in Labels /\ "wait" \in Labels
        /\ "clear again" \in Labels /\ "set up" \in Labels
        /\ "generate" \in Labels
        /\ "enable" \in Labels /\ "idle" \in Labels /\ "advance" \in Labels
        /\ "shorts" \in Labels /\ "stop timer" \in Labels
    BY DEF Labels, Disabling, Starting
  <2>2. CASE ClearShorts(t) BY <2>1, <2>2 DEF ClearShorts
  <2>3. CASE ClearEvent(t) BY <2>1, <2>3 DEF ClearEvent
  <2>4. CASE TriggerDisable(t) BY <2>1, <2>4 DEF TriggerDisable
  <2>5. CASE Wait(t) BY <2>1, <2>5 DEF Wait
  <2>6. CASE ClearAgain(t)
    <3>1. Step(t, "clear again", "idle") \/ Step(t, "clear again", "generate")
          \/ Step(t, "clear again", "set up")
      BY <2>6 DEF ClearAgain
    <3> QED BY <2>1, <3>1
  <2>10. CASE Generate(t) BY <2>1, <2>10 DEF Generate
  <2>7. CASE SetUp(t) BY <2>1, <2>7 DEF SetUp
  <2>8. CASE Enable(t) BY <2>1, <2>8 DEF Enable, Threads
  <2>9. CASE t = "main" /\ StopTimer BY <2>1, <2>9 DEF StopTimer
  <2> QED BY <2>2, <2>3, <2>4, <2>5, <2>6, <2>7, <2>8, <2>9, <2>10
          DEF ThreadStep, Carrier, RadioDisable
<1>2. /\ pc' \in [Threads -> Labels]
      /\ pc'["main"] \notin {"advance", "done"} /\ pc'["timer"] # "stop timer"
  BY <1>1, PlaceTypes
<1>3. lag' \in Nat BY <1>1, LagType
<1>4. /\ UNCHANGED <<sweep, rng, job, compare>>
      /\ running' \in BOOLEAN
      /\ SHORTS' \in {"none", "start", "repeat"}
      /\ radio' \in {"DISABLED", "RU", "ON", "DISABLING"}
      /\ disabled' \in BOOLEAN
  BY DEF ThreadStep, StopTimer, Carrier, RadioDisable, ClearShorts, ClearEvent,
     TriggerDisable,
         Wait, ClearAgain, Generate, SetUp, Enable, TypeOK, chip, timer
<1> QED BY <1>2, <1>3, <1>4 DEF TypeOK, sweep

LEMMA MainSweep == ASSUME SweepInv, Main PROVE SweepInv'
<1>1. TypeOK' /\ UNCHANGED <<sweep, job, compare>>
  <2>1. "main" \in Threads /\ ThreadStep("main")
    BY DEF Threads, ThreadStep, Main
  <2> QED BY <2>1, ThreadTypes DEF SweepInv
<1>2. /\ pc["timer"] = "idle" /\ pc'["timer"] = "idle"
      /\ UNCHANGED sweep
  BY Places DEF SweepInv, Threads, Main, StopTimer, Carrier, RadioDisable,
     ClearShorts, ClearEvent, TriggerDisable, Wait, ClearAgain, Generate, SetUp, Enable
<1>3. Handler' BY <1>2 DEF SweepInv, Handler, InRange, Starting, sweep
<1> QED BY <1>1, <1>3 DEF SweepInv

(* The handler disables the radio, waits for it, and only then enables it. *)
LEMMA HandlerCarrier == ASSUME SweepInv, Carrier("timer") PROVE SweepInv'
<1>1. "timer" \in Threads BY DEF Threads
<1>2. TypeOK' /\ UNCHANGED <<sweep, job, compare>>
  <2>1. ThreadStep("timer") BY DEF ThreadStep
  <2> QED BY <1>1, <2>1, ThreadTypes DEF SweepInv
<1>3. TypeOK /\ Handler BY DEF SweepInv
<1>4. InRange(channel_)' /\ (InRange(job["timer"][2]) <=> InRange(job["timer"][2])')
  BY <1>2, <1>3 DEF Handler, InRange, sweep
<1>5. Handler'
  <2>1. CASE ClearShorts("timer")
    <3>1. /\ pc["timer"] = "shorts" /\ pc'["timer"] = "clear"
          /\ SHORTS' = "none"
      BY <1>1, <1>3, <2>1, Places DEF ClearShorts
    <3> QED BY <1>2, <1>3, <1>4, <3>1 DEF Handler, Starting
  <2>2. CASE ClearEvent("timer")
    <3>1. /\ pc["timer"] = "clear" /\ pc'["timer"] = "disable"
          /\ disabled' = FALSE /\ SHORTS' = SHORTS
      BY <1>1, <1>3, <2>2, Places DEF ClearEvent
    <3> QED BY <1>2, <1>3, <1>4, <3>1 DEF Handler, Starting
  <2>3. CASE TriggerDisable("timer")
    <3>1. /\ pc["timer"] = "disable" /\ pc'["timer"] = "wait"
          /\ SHORTS' = SHORTS
          /\ IF radio = "DISABLED"
             THEN disabled' = TRUE /\ UNCHANGED radio
             ELSE radio' = "DISABLING" /\ UNCHANGED disabled
      BY <1>1, <1>3, <2>3, Places DEF TriggerDisable
    <3> QED BY <1>2, <1>3, <1>4, <3>1 DEF Handler, Starting
  <2>4. CASE Wait("timer")
    <3>1. /\ pc["timer"] = "wait" /\ pc'["timer"] = "clear again"
          /\ disabled /\ UNCHANGED <<SHORTS, radio, disabled>>
      BY <1>1, <1>3, <2>4, Places DEF Wait, chip
    <3> QED BY <1>2, <1>3, <1>4, <3>1 DEF Handler, Starting
  <2>5. CASE ClearAgain("timer")
    <3>1. pc["timer"] = "clear again" /\ job["timer"][1] # "end"
      <4>1. pc["timer"] = "clear again" BY <2>5 DEF ClearAgain, Step
      <4> QED BY <1>3, <4>1 DEF Handler
    <3>3. job["timer"][1] # "modulated" BY <1>3, <3>1 DEF Handler
    <3>2. /\ pc'["timer"] = "set up"
          /\ disabled' = FALSE /\ UNCHANGED <<SHORTS, radio>>
      BY <1>1, <1>3, <2>5, <3>1, <3>3, Places DEF ClearAgain
    <3> QED BY <1>2, <1>3, <1>4, <3>1, <3>2 DEF Handler, Starting
  <2>6. CASE SetUp("timer")
    <3>1. pc["timer"] = "set up" /\ job["timer"][1] # "modulated"
      BY <1>1, <1>3, <2>6, Places DEF SetUp, Handler
    <3>2. /\ pc'["timer"] = "enable"
          /\ SHORTS' = "start" /\ UNCHANGED <<disabled, radio>>
      BY <1>1, <1>3, <2>6, <3>1, Places DEF SetUp
    <3> QED BY <1>2, <1>3, <1>4, <3>1, <3>2 DEF Handler, Starting
  <2>7. CASE Enable("timer")
    <3>1. pc["timer"] = "enable" /\ radio = "DISABLED"
      BY <1>1, <1>3, <2>7, Places DEF Enable, Handler, Starting
    <3>2. /\ pc'["timer"] = "advance"
          /\ radio' = "RU" /\ carrier' = job["timer"]
          /\ UNCHANGED <<disabled, SHORTS>>
      BY <1>1, <1>3, <2>7, <3>1, Places DEF Enable
    <3> QED BY <1>2, <1>3, <1>4, <3>1, <3>2 DEF Handler, Starting
  <2>8. CASE Generate("timer")
    <3>1. /\ pc["timer"] = "generate" /\ pc'["timer"] = "set up"
          /\ UNCHANGED <<SHORTS, radio, disabled>>
      BY <1>1, <1>3, <2>8, Places DEF Generate, chip
    <3> QED BY <1>2, <1>3, <1>4, <3>1 DEF Handler, Starting
  <2> QED BY <2>1, <2>2, <2>3, <2>4, <2>5, <2>6, <2>7, <2>8
          DEF Carrier, RadioDisable
<1> QED BY <1>2, <1>5 DEF SweepInv

(* The handler begins with the channel of the sweep and ends with the next.*)
LEMMA HandlerSweep ==
  ASSUME SweepInv, TimerIrq \/ Advance \/ TimerDone PROVE SweepInv'
<1>1. "timer" \in Threads BY DEF Threads
<1>2. TypeOK /\ Handler BY DEF SweepInv
<1>3. CASE TimerIrq
  <2>1. Step("timer", "idle", "shorts") /\ UNCHANGED <<sweep, rng, chip, timer>>
    BY <1>3 DEF TimerIrq
  <2>2. PICK k \in {"tx", "rx"} :
          job' = [job EXCEPT !["timer"] = <<k, channel_>>]
    BY <1>3 DEF TimerIrq
  <2>3. <<k, channel_>> \in Kinds \X Int BY <1>2 DEF TypeOK, Kinds
  <2>4. job' \in [Threads -> Kinds \X Int] /\ job'["timer"] = <<k, channel_>>
    BY <1>1, <1>2, <2>2, <2>3, JobType
  <2>5. pc["timer"] = "idle" /\ pc'["timer"] = "shorts"
    BY <1>1, <1>2, <2>1, Places
  <2>6. /\ pc' \in [Threads -> Labels]
        /\ pc'["main"] \notin {"advance", "done"}
        /\ pc'["timer"] # "stop timer"
    <3>1. "shorts" \in Labels BY DEF Labels, Disabling
    <3> QED BY <1>1, <1>2, <2>1, <3>1, PlaceTypes
  <2>7. lag' \in Nat BY <1>1, <1>2, <2>1, LagType
  <2>8. TypeOK'
    BY <1>2, <2>1, <2>4, <2>6, <2>7 DEF TypeOK, sweep, chip, timer
  <2>9. Handler'
    BY <1>2, <2>1, <2>4, <2>5 DEF Handler, InRange, Starting, sweep, chip
  <2> QED BY <2>8, <2>9 DEF SweepInv
<1>4. CASE Advance
  <2>1. /\ Step("timer", "advance", "done")
        /\ channel_' = IF channel_ + 1 > channel_end_ THEN channel_start_
                       ELSE channel_ + 1
        /\ UNCHANGED <<channel_start_, channel_end_, sweep_tx_, rng, job>>
        /\ UNCHANGED <<chip, timer>>
    BY <1>4 DEF Advance
  <2>2. pc["timer"] = "advance" /\ pc'["timer"] = "done"
    BY <1>1, <1>2, <2>1, Places
  <2>3. /\ pc' \in [Threads -> Labels]
        /\ pc'["main"] \notin {"advance", "done"}
        /\ pc'["timer"] # "stop timer"
    <3>1. "done" \in Labels BY DEF Labels
    <3> QED BY <1>1, <1>2, <2>1, <3>1, PlaceTypes
  <2>4. lag' \in Nat BY <1>1, <1>2, <2>1, LagType
  <2>5. channel_' \in Int /\ InRange(channel_)'
    <3>1. /\ channel_ \in Int /\ channel_start_ \in Int /\ channel_end_ \in Int
          /\ channel_ = channel_start_
             \/ channel_ \in channel_start_ .. channel_end_
      BY <1>2 DEF TypeOK, Handler, InRange
    <3> QED BY <2>1, <3>1 DEF InRange
  <2>6. TypeOK' BY <1>2, <2>1, <2>3, <2>4, <2>5 DEF TypeOK, chip, timer
  <2>7. Handler'
    BY <1>2, <2>1, <2>2, <2>5 DEF Handler, InRange, Starting, chip
  <2> QED BY <2>6, <2>7 DEF SweepInv
<1>5. CASE TimerDone
  <2>1. /\ pc["timer"] = "done" /\ pc' = [pc EXCEPT !["timer"] = "idle"]
        /\ compare' = FALSE /\ lag' = 0
        /\ UNCHANGED <<sweep, rng, job, chip, running>>
    BY <1>5 DEF TimerDone
  <2>2. /\ pc' \in [Threads -> Labels] /\ pc'["timer"] = "idle"
        /\ pc'["main"] = pc["main"]
    <3>1. "idle" \in Labels BY DEF Labels
    <3> QED BY <1>2, <2>1, <3>1 DEF TypeOK, Threads
  <2>3. TypeOK' BY <1>2, <2>1, <2>2 DEF TypeOK, sweep, chip
  <2>4. Handler' BY <1>2, <2>1, <2>2 DEF Handler, InRange, Starting, sweep
  <2> QED BY <2>3, <2>4 DEF SweepInv
<1> QED BY <1>3, <1>4, <1>5

LEMMA ChipSweep == ASSUME SweepInv, Compare \/ Radio PROVE SweepInv'
<1>1. TypeOK /\ Handler BY DEF SweepInv
<1>2. TypeOK'
  <2>1. CASE Compare BY <1>1, <2>1 DEF Compare, TypeOK, sweep, chip
  <2>2. CASE RampedUp BY <1>1, <2>2 DEF RampedUp, TypeOK, sweep, timer
  <2>3. CASE PacketEnds BY <1>1, <2>3 DEF PacketEnds, TypeOK, sweep, timer
  <2>4. CASE Disabled BY <1>1, <2>4 DEF Disabled, TypeOK, sweep, timer
  <2> QED BY <2>1, <2>2, <2>3, <2>4 DEF Radio
<1>3. Handler'
  <2>1. CASE Compare BY <1>1, <2>1 DEF Compare, Handler, InRange, sweep, chip
  <2>2. CASE RampedUp
    BY <1>1, <2>2 DEF RampedUp, Handler, InRange, Starting, sweep
  <2>3. CASE PacketEnds
    BY <1>1, <2>3 DEF PacketEnds, Handler, InRange, Starting, sweep
  <2>4. CASE Disabled
    BY <1>1, <2>4 DEF Disabled, Handler, InRange, Starting, sweep
  <2> QED BY <2>1, <2>2, <2>3, <2>4 DEF Radio
<1> QED BY <1>2, <1>3 DEF SweepInv

LEMMA NextSweep == ASSUME SweepInv, [Next]_vars PROVE SweepInv'
<1>1. CASE UNCHANGED vars
  <2>1. UNCHANGED <<sweep, pc, job, chip, timer, lag, rng>> BY <1>1 DEF vars
  <2>2. TypeOK'
    BY <2>1 DEF SweepInv, TypeOK, sweep, chip, timer
  <2>3. Handler' BY <2>1 DEF SweepInv, Handler, InRange, sweep, chip
  <2> QED BY <2>2, <2>3 DEF SweepInv
<1> QED BY <1>1, CallsSweep, MainSweep, HandlerCarrier, HandlerSweep, ChipSweep
        DEF Next, TIMER1_IRQHandler

(* In a sweep every TASKS_TXEN or TASKS_RXEN takes effect, inside the      *)
(* channels asked for: TIMER1_IRQHandler (radio.c:287-303) enables a radio *)
(* that RadioDisable has seen disabled, whatever the main program was      *)
(* doing when it was interrupted.                                          *)
THEOREM SweepsInRange == Spec => []SweepInRange
<1>1. SweepInv => SweepInRange
  BY DEF SweepInv, Handler, InRange, SweepInRange
<1> QED BY <1>1, InitSweep, NextSweep, PTL DEF Spec

-----------------------------------------------------------------------------
(* What an access of the caller does to lag: with compare raised it is one *)
(* more of the few that the latency allows.                                *)
LEMMA Lags ==
  ASSUME TypeOK, NEW from, NEW to, Step("main", from, to)
  PROVE  /\ compare => lag' = lag + 1 /\ lag < LATENCY
         /\ ~compare => lag' = 0
         /\ lag \in Nat
  BY DEF TypeOK, Step, Runs

LEMMA MainPlaces ==
  ASSUME TypeOK, NEW from, NEW to, Step("main", from, to)
  PROVE  /\ pc["main"] = from /\ pc'["main"] = to
         /\ pc["timer"] = "idle" /\ pc'["timer"] = "idle"
<1>1. "main" \in Threads /\ "timer" \in Threads BY DEF Threads
<1> QED BY <1>1, Places

LEMMA InitCall == ASSUME Init PROVE CallInv
<1>1. Timer /\ Caller BY DEF Init, Timer, Caller, Threads, Starting
<1> QED BY <1>1, InitSweep DEF CallInv

LEMMA CallsCall == ASSUME CallInv, Calls PROVE Timer' /\ Caller'
<1>1. TypeOK /\ Timer /\ Caller BY DEF CallInv, SweepInv
<1>2. CASE CallCarrier
  <2>1. /\ Step("main", "idle", "shorts") /\ ~running
        /\ UNCHANGED <<chip, timer>>
    BY <1>2 DEF CallCarrier, Sweeping
  <2>2. PICK k \in {"tx", "modulated", "rx"}, c \in Channels :
          job' = [job EXCEPT !["main"] = <<k, c>>]
    BY <1>2 DEF CallCarrier
  <2>3. job'["main"][1] = k BY <1>1, <2>2 DEF TypeOK, Threads
  <2>4. ~compare BY <1>1, <2>1, MainPlaces DEF Timer
  <2>5. lag' = 0 BY <1>1, <2>1, <2>4, Lags
  <2>6. pc'["main"] = "shorts" /\ pc'["timer"] = "idle"
    BY <1>1, <2>1, MainPlaces
  <2>7. Timer' BY <2>1, <2>4, <2>5, <2>6 DEF Timer, timer
  <2>8. Caller' BY <2>3, <2>6 DEF Caller, Starting
  <2> QED BY <2>7, <2>8
<1>3. CASE CallSweepStart
  <2>1. /\ Step("main", "idle", "idle") /\ ~running
        /\ running' = TRUE /\ compare' = compare
        /\ job' = [job EXCEPT !["main"] = <<"sweep", 0>>]
    BY <1>3 DEF CallSweepStart, Sweeping, Timer1Init
  <2>2. job'["main"][1] = "sweep" BY <1>1, <2>1 DEF TypeOK, Threads
  <2>3. ~compare BY <1>1, <2>1, MainPlaces DEF Timer
  <2>4. lag' = 0 BY <1>1, <2>1, <2>3, Lags
  <2>5. pc'["main"] = "idle" /\ pc'["timer"] = "idle"
    BY <1>1, <2>1, MainPlaces
  <2>6. Timer' BY <2>1, <2>2, <2>3, <2>4, <2>5 DEF Timer
  <2>7. Caller' BY <2>2, <2>5 DEF Caller, Starting
  <2> QED BY <2>6, <2>7
<1>4. CASE CallSweepEnd
  <2>1. /\ Step("main", "idle", "stop timer") /\ UNCHANGED timer
        /\ job' = [job EXCEPT !["main"] = <<"end", 0>>]
    BY <1>4 DEF CallSweepEnd
  <2>2. job'["main"][1] = "end" BY <1>1, <2>1 DEF TypeOK, Threads
  <2>3. compare => running BY <1>1, <2>1, MainPlaces DEF Timer
  <2>4. ~compare => lag' = 0 BY <1>1, <2>1, Lags
  <2>5. pc'["main"] = "stop timer" /\ pc'["timer"] = "idle"
    BY <1>1, <2>1, MainPlaces
  <2>6. Timer' BY <2>1, <2>2, <2>3, <2>4, <2>5 DEF Timer, timer
  <2>7. Caller' BY <2>2, <2>5 DEF Caller, Starting
  <2> QED BY <2>6, <2>7
<1> QED BY <1>2, <1>3, <1>4 DEF Calls

(* The caller in RadioDisable: by the access that triggers the task no     *)
(* timer interrupt is pending any more, and none comes.                    *)
LEMMA MainCall == ASSUME CallInv, Prompt, Main PROVE Timer' /\ Caller'
<1>1. TypeOK /\ Timer /\ Caller BY DEF CallInv, SweepInv
<1>2. LATENCY \in Nat /\ LATENCY <= 3 BY TestAssumption DEF Prompt
<1>3. CASE StopTimer
  <2>1. /\ Step("main", "stop timer", "shorts")
        /\ running' = FALSE /\ UNCHANGED <<job, compare>>
    BY <1>3 DEF StopTimer
  <2>2. /\ pc["main"] = "stop timer" /\ pc'["main"] = "shorts"
        /\ pc'["timer"] = "idle"
    BY <1>1, <2>1, MainPlaces
  <2>3. (compare => lag' >= 1) /\ (~compare => lag' = 0)
    <3>1. /\ compare => lag' = lag + 1
          /\ ~compare => lag' = 0
          /\ lag \in Nat
      BY <1>1, <2>1, Lags
    <3>2. lag' = lag + 1 => lag' >= 1 BY <3>1
    <3> QED BY <3>1, <3>2
  <2>4. job["main"][1] = "end" BY <1>1, <2>2 DEF Timer
  <2>5. Timer' BY <2>1, <2>2, <2>3, <2>4 DEF Timer
  <2>6. Caller' BY <2>1, <2>2, <2>4 DEF Caller, Starting
  <2> QED BY <2>5, <2>6
<1>4. CASE ClearShorts("main")
  <2>1. /\ Step("main", "shorts", "clear") /\ SHORTS' = "none"
        /\ UNCHANGED <<job, timer>>
    BY <1>4 DEF ClearShorts
  <2>2. /\ pc["main"] = "shorts" /\ pc'["main"] = "clear"
        /\ pc'["timer"] = "idle"
    BY <1>1, <2>1, MainPlaces
  <2>3. ~running /\ (compare => lag >= 1) /\ job["main"][1] # "sweep"
    BY <1>1, <2>2 DEF Timer, Caller
  <2>4. (compare => lag' >= 2) /\ (~compare => lag' = 0)
    BY <1>1, <2>1, <2>3, Lags
  <2>5. Timer' BY <1>1, <2>1, <2>2, <2>3, <2>4 DEF Timer, timer
  <2>6. Caller' BY <2>1, <2>2, <2>3 DEF Caller, Starting
  <2> QED BY <2>5, <2>6
<1>5. CASE ClearEvent("main")
  <2>1. /\ Step("main", "clear", "disable") /\ disabled' = FALSE
        /\ UNCHANGED <<job, SHORTS, timer>>
    BY <1>5 DEF ClearEvent
  <2>2. /\ pc["main"] = "clear" /\ pc'["main"] = "disable"
        /\ pc'["timer"] = "idle"
    BY <1>1, <2>1, MainPlaces
  <2>3. /\ ~running /\ (compare => lag >= 2)
        /\ job["main"][1] # "sweep" /\ SHORTS # "repeat"
    BY <1>1, <2>2 DEF Timer, Caller
  <2>4. (compare => lag' >= 3) /\ (~compare => lag' = 0)
    BY <1>1, <2>1, <2>3, Lags
  <2>5. Timer' BY <1>1, <2>1, <2>2, <2>3, <2>4 DEF Timer, timer
  <2>6. Caller' BY <2>1, <2>2, <2>3 DEF Caller, Starting
  <2> QED BY <2>5, <2>6
<1>6. CASE TriggerDisable("main")
  <2>1. /\ Step("main", "disable", "wait")
        /\ IF radio = "DISABLED"
           THEN disabled' = TRUE /\ UNCHANGED radio
           ELSE radio' = "DISABLING" /\ UNCHANGED disabled
        /\ UNCHANGED <<job, SHORTS, timer>>
    BY <1>6 DEF TriggerDisable
  <2>2. /\ pc["main"] = "disable" /\ pc'["main"] = "wait"
        /\ pc'["timer"] = "idle"
    BY <1>1, <2>1, MainPlaces
  <2>3. /\ ~running /\ (compare => lag >= 3)
        /\ job["main"][1] # "sweep" /\ SHORTS # "repeat"
        /\ disabled => radio = "DISABLED"
    BY <1>1, <2>2 DEF Timer, Caller
  <2>4. ~compare BY <1>1, <1>2, <2>1, <2>3, Lags
  <2>5. lag' = 0 BY <1>1, <2>1, <2>4, Lags
  <2>6. Timer' BY <2>1, <2>2, <2>3, <2>4, <2>5 DEF Timer, timer
  <2>7. Caller' BY <2>1, <2>2, <2>3 DEF Caller, Starting
  <2> QED BY <2>6, <2>7
<1>7. CASE Wait("main")
  <2>1. /\ Step("main", "wait", "clear again") /\ disabled
        /\ UNCHANGED <<job, chip, timer>>
    BY <1>7 DEF Wait
  <2>2. /\ pc["main"] = "wait" /\ pc'["main"] = "clear again"
        /\ pc'["timer"] = "idle"
    BY <1>1, <2>1, MainPlaces
  <2>3. /\ ~running /\ ~compare /\ job["main"][1] # "sweep"
        /\ radio = "DISABLED"
    BY <1>1, <2>1, <2>2 DEF Timer, Caller
  <2>4. lag' = 0 BY <1>1, <2>1, <2>3, Lags
  <2>5. Timer' BY <2>1, <2>2, <2>3, <2>4 DEF Timer, timer
  <2>6. Caller' BY <2>1, <2>2, <2>3 DEF Caller, Starting, chip
  <2> QED BY <2>5, <2>6
<1>8. CASE ClearAgain("main")
  <2>1. PICK to \in {"idle", "generate", "set up"} :
          /\ to = "idle" <=> job["main"][1] = "end"
          /\ Step("main", "clear again", to)
    <3>1. CASE job["main"][1] = "end" BY <1>8, <3>1 DEF ClearAgain
    <3>2. CASE job["main"][1] = "modulated" BY <1>8, <3>2 DEF ClearAgain
    <3>3. CASE job["main"][1] \notin {"end", "modulated"}
      BY <1>8, <3>3 DEF ClearAgain
    <3> QED BY <3>1, <3>2, <3>3
  <2>2. UNCHANGED <<job, radio, timer>> BY <1>8 DEF ClearAgain
  <2>3. /\ pc["main"] = "clear again" /\ pc'["main"] = to
        /\ pc'["timer"] = "idle"
    BY <1>1, <2>1, MainPlaces
  <2>4. /\ ~running /\ ~compare /\ job["main"][1] # "sweep"
        /\ radio = "DISABLED"
    BY <1>1, <2>3 DEF Timer, Caller
  <2>5. job["main"][1] \in Kinds BY <1>1 DEF TypeOK, Threads
  <2>6. lag' = 0 BY <1>1, <2>1, <2>4, Lags
  <2>7. Timer' BY <2>2, <2>3, <2>4, <2>6 DEF Timer, timer
  <2>8. Caller'
    BY <2>1, <2>2, <2>3, <2>4, <2>5 DEF Caller, Starting, Kinds
  <2> QED BY <2>7, <2>8
<1>9. CASE SetUp("main")
  <2>1. Step("main", "set up", "enable") /\ UNCHANGED <<job, radio, timer>>
    BY <1>9 DEF SetUp
  <2>2. /\ pc["main"] = "set up" /\ pc'["main"] = "enable"
        /\ pc'["timer"] = "idle"
    BY <1>1, <2>1, MainPlaces
  <2>3. /\ ~running /\ ~compare /\ radio = "DISABLED"
        /\ job["main"][1] \in {"tx", "modulated", "rx"}
    BY <1>1, <2>2 DEF Timer, Caller, Starting
  <2>4. lag' = 0 BY <1>1, <2>1, <2>3, Lags
  <2>5. Timer' BY <2>1, <2>2, <2>3, <2>4 DEF Timer, timer
  <2>6. Caller' BY <2>1, <2>2, <2>3 DEF Caller, Starting
  <2> QED BY <2>5, <2>6
<1>10. CASE Enable("main")
  <2>1. /\ Step("main", "enable", "idle") /\ UNCHANGED <<job, timer>>
        /\ radio = "DISABLED" => radio' = "RU" /\ carrier' = job["main"]
    BY <1>10 DEF Enable
  <2>2. /\ pc["main"] = "enable" /\ pc'["main"] = "idle"
        /\ pc'["timer"] = "idle"
    BY <1>1, <2>1, MainPlaces
  <2>3. /\ ~running /\ ~compare /\ radio = "DISABLED"
        /\ job["main"][1] \in {"tx", "modulated", "rx"}
    BY <1>1, <2>2 DEF Timer, Caller, Starting
  <2>4. lag' = 0 BY <1>1, <2>1, <2>3, Lags
  <2>5. Timer' BY <2>1, <2>2, <2>3, <2>4 DEF Timer, timer
  <2>6. Caller' BY <2>1, <2>2, <2>3 DEF Caller, Starting
  <2> QED BY <2>5, <2>6
<1>11. CASE Generate("main")
  <2>1. /\ Step("main", "generate", "set up")
        /\ UNCHANGED <<job, chip, timer>>
    BY <1>11 DEF Generate
  <2>2. /\ pc["main"] = "generate" /\ pc'["main"] = "set up"
        /\ pc'["timer"] = "idle"
    BY <1>1, <2>1, MainPlaces
  <2>3. /\ ~running /\ ~compare /\ radio = "DISABLED"
        /\ job["main"][1] \in {"tx", "modulated", "rx"}
    BY <1>1, <2>2 DEF Timer, Caller, Starting
  <2>4. lag' = 0 BY <1>1, <2>1, <2>3, Lags
  <2>5. Timer' BY <2>1, <2>2, <2>3, <2>4 DEF Timer, timer
  <2>6. Caller' BY <2>1, <2>2, <2>3 DEF Caller, Starting, chip
  <2> QED BY <2>5, <2>6
<1> QED BY <1>3, <1>4, <1>5, <1>6, <1>7, <1>8, <1>9, <1>10, <1>11
        DEF Main, Carrier, RadioDisable

(* The handler runs only while the caller waits for a sweep to end or is   *)
(* at the first accesses of RadioDisable.                                  *)
LEMMA HandlerCarrierCall ==
  ASSUME CallInv, Carrier("timer") PROVE Timer' /\ Caller'
<1>1. TypeOK /\ Handler /\ Timer /\ Caller BY DEF CallInv, SweepInv
<1>2. PICK from, to :
        Step("timer", from, to) /\ from \in Disabling \cup Starting
  BY DEF Carrier, RadioDisable, ClearShorts, ClearEvent, TriggerDisable, Wait,
     ClearAgain, Generate, SetUp, Enable, Disabling, Starting
<1>3. pc["timer"] # "idle" /\ pc'["main"] = pc["main"] /\ lag' = lag
  <2>1. "timer" \in Threads /\ "main" \in Threads BY DEF Threads
  <2>2. pc["timer"] = from /\ pc'["main"] = pc["main"]
    BY <1>1, <1>2, <2>1, Places
  <2>3. lag' = lag BY <1>2 DEF Step, Runs
  <2> QED BY <1>2, <2>2, <2>3 DEF Disabling, Starting
<1>4. UNCHANGED <<job, running, compare>>
  BY DEF Carrier, RadioDisable, ClearShorts, ClearEvent, TriggerDisable, Wait,
     ClearAgain, Generate, SetUp, Enable, timer, chip
<1>5. compare BY <1>1, <1>3 DEF Timer
<1>6. Timer' BY <1>1, <1>3, <1>4, <1>5 DEF Timer
<1>7. \/ pc["main"] = "idle" /\ job["main"][1] = "sweep"
      \/ pc["main"] \in {"stop timer", "shorts", "clear", "disable"}
  BY <1>1, <1>5 DEF Timer
<1>8. pc["main"] # "idle" => job["main"][1] # "sweep"
  BY <1>1 DEF Caller
<1>9. pc["main"] \in {"clear", "disable"} => SHORTS' # "repeat"
  <2>1. SHORTS' = SHORTS \/ SHORTS' # "repeat"
    <3>1. SetUp("timer") => SHORTS' = "start"
      <4>1. ASSUME SetUp("timer") PROVE job["timer"][1] # "modulated"
        <5>1. pc["timer"] = "set up" BY <4>1 DEF SetUp, Step
        <5> QED BY <1>1, <5>1 DEF Handler
      <4> QED BY <4>1 DEF SetUp
    <3> QED BY <3>1 DEF Carrier, RadioDisable, ClearShorts, ClearEvent,
               TriggerDisable, Wait, ClearAgain, Generate, Enable, chip
  <2> QED BY <1>1, <2>1 DEF Caller
<1>10. pc["main"] = "disable" /\ disabled' => radio' = "DISABLED"
  <2>1. ASSUME Enable("timer") PROVE ~disabled'
    <3>1. pc["timer"] = "enable" /\ disabled' = disabled
      BY <2>1 DEF Enable, Step
    <3> QED BY <1>1, <3>1 DEF Handler, Starting
  <2>2. ASSUME TriggerDisable("timer"), pc["main"] = "disable", disabled'
        PROVE  radio' = "DISABLED"
    BY <1>1, <2>2 DEF TriggerDisable, Caller
  <2>3. ~TriggerDisable("timer") /\ ~Enable("timer") =>
          radio' = radio /\ (disabled' => disabled)
    BY DEF Carrier, RadioDisable, ClearShorts, ClearEvent, Wait, ClearAgain,
       Generate, SetUp, chip
  <2> QED BY <1>1, <2>1, <2>2, <2>3 DEF Caller
<1>11. Caller'
  BY <1>3, <1>4, <1>7, <1>8, <1>9, <1>10 DEF Caller, Starting
<1> QED BY <1>6, <1>11

LEMMA HandlerCall ==
  ASSUME CallInv, TimerIrq \/ Advance \/ TimerDone PROVE Timer' /\ Caller'
<1>1. TypeOK /\ Timer /\ Caller BY DEF CallInv, SweepInv
<1>2. pc'["main"] = pc["main"] /\ job'["main"] = job["main"]
  BY <1>1 DEF TimerIrq, Advance, TimerDone, Step, TypeOK, Threads
<1>3. UNCHANGED <<chip, running>>
  BY DEF TimerIrq, Advance, TimerDone, timer
<1>4. Caller' BY <1>1, <1>2, <1>3 DEF Caller, Starting, chip
<1>5. Timer'
  <2>1. CASE TimerIrq \/ Advance
    <3>1. compare /\ lag' = lag /\ compare' = compare
      BY <1>1, <2>1 DEF TimerIrq, Advance, Step, Runs, Timer, timer
    <3> QED BY <1>1, <1>2, <1>3, <3>1 DEF Timer
  <2>2. CASE TimerDone
    <3>1. compare' = FALSE /\ lag' = 0 /\ pc'["timer"] = "idle"
      BY <1>1, <2>2 DEF TimerDone, TypeOK, Threads
    <3> QED BY <1>1, <1>2, <1>3, <3>1 DEF Timer
  <2> QED BY <2>1, <2>2
<1> QED BY <1>4, <1>5

LEMMA ChipCall == ASSUME CallInv, Compare \/ Radio PROVE Timer' /\ Caller'
<1>1. TypeOK /\ Timer /\ Caller BY DEF CallInv, SweepInv
<1>2. CASE Compare
  BY <1>1, <1>2 DEF Compare, Timer, Caller, Starting, chip
<1>3. CASE RampedUp
  BY <1>1, <1>3 DEF RampedUp, Timer, Caller, Starting, timer
<1>4. CASE PacketEnds
  BY <1>1, <1>4 DEF PacketEnds, Timer, Caller, Starting, timer
<1>5. CASE Disabled
  BY <1>1, <1>5 DEF Disabled, Timer, Caller, Starting, timer
<1> QED BY <1>2, <1>3, <1>4, <1>5 DEF Radio

LEMMA NextCall == ASSUME CallInv, Prompt, [Next]_vars PROVE CallInv'
<1>1. SweepInv' BY NextSweep DEF CallInv
<1>2. Timer' /\ Caller'
  <2>1. CASE UNCHANGED vars
    BY <2>1 DEF vars, chip, timer, CallInv, Timer, Caller
  <2> QED BY <2>1, CallsCall, MainCall, HandlerCarrierCall, HandlerCall, ChipCall
          DEF Next, TIMER1_IRQHandler
<1> QED BY <1>1, <1>2 DEF CallInv

(* When a call has returned, the radio is and stays as it asked: off after *)
(* RadioSweepEnd (radio.c:212-216), on with the channel asked for after    *)
(* the three that start a carrier (radio.c:220-257), provided an interrupt  *)
(* pending when the timer is stopped is taken within three accesses.       *)
THEOREM LastCallHolds == ASSUME Prompt PROVE Spec => []LastCallInForce
<1>1. CallInv => LastCallInForce
  <2>1. CallInv => job["main"][1] \in Kinds
    BY DEF CallInv, SweepInv, TypeOK, Threads
  <2> QED BY <2>1 DEF CallInv, Caller, LastCallInForce, Kinds
<1>2. CallInv /\ [Next]_vars => CallInv' BY NextCall
<1> QED BY <1>1, <1>2, InitCall, PTL DEF Spec

-----------------------------------------------------------------------------
(* RadioDisable waits only for an event that is up or will be: what        *)
(* CallsReturn and SweepReachesAll need besides fairness.                  *)
WaitsEnd ==
  \A t \in Threads : pc[t] = "wait" => disabled \/ radio = "DISABLING"

(* No interrupt comes between TASKS_DISABLE and the end of the wait.       *)
LEMMA Undivided ==
  ASSUME CallInv, pc["main"] \in {"wait", "clear again"}
  PROVE  pc["timer"] = "idle" /\ ~compare
BY DEF CallInv, Timer

LEMMA OnlyOneActs ==
  ASSUME CallInv, NEW t \in Threads, NEW from, NEW to, Step(t, from, to),
         t = "main" \/ from # "idle" \/ compare,
         NEW u \in Threads, u # t
  PROVE  pc[u] # "wait"
<1>1. TypeOK BY DEF CallInv, SweepInv
<1>2. pc[t] = from /\ (t = "main" => pc["timer"] = "idle") BY <1>1, Places
<1>3. CASE t = "main" BY <1>2, <1>3 DEF Threads
<1>4. CASE t = "timer"
  <2>1. u = "main" BY <1>4 DEF Threads
  <2> QED BY <1>2, <1>4, <2>1, Undivided
<1> QED BY <1>3, <1>4 DEF Threads

LEMMA WaitsKept == ASSUME CallInv, WaitsEnd, [Next]_vars PROVE WaitsEnd'
<1>1. TypeOK BY DEF CallInv, SweepInv
<1>2. "main" \in Threads /\ "timer" \in Threads BY DEF Threads
<1>3. ASSUME NEW t \in Threads, NEW from, NEW to, Step(t, from, to),
             t = "main" \/ from # "idle" \/ compare, to # "wait"
      PROVE  WaitsEnd'
  <2>1. ASSUME NEW u \in Threads PROVE pc'[u] # "wait"
    <3>1. CASE u = t BY <1>1, <1>3, <3>1, Places
    <3>2. CASE u # t BY <1>1, <1>3, <3>2, Places, OnlyOneActs
    <3> QED BY <3>1, <3>2
  <2> QED BY <2>1 DEF WaitsEnd
<1>4. CASE Calls
  <2>1. PICK to \in {"shorts", "idle", "stop timer"} : Step("main", "idle", to)
    BY <1>4 DEF Calls, CallCarrier, CallSweepStart, CallSweepEnd
  <2> QED BY <1>2, <1>3, <2>1
<1>5. CASE StopTimer BY <1>2, <1>3, <1>5 DEF StopTimer
<1>6. ASSUME NEW t \in Threads, Carrier(t) PROVE WaitsEnd'
  <2>1. CASE TriggerDisable(t) BY <2>1 DEF TriggerDisable, WaitsEnd
  <2>2. CASE ClearShorts(t) BY <1>3, <2>2 DEF ClearShorts
  <2>3. CASE ClearEvent(t) BY <1>3, <2>3 DEF ClearEvent
  <2>4. CASE Wait(t) BY <1>3, <2>4 DEF Wait
  <2>5. CASE ClearAgain(t)
    <3>1. Step(t, "clear again", "idle") \/ Step(t, "clear again", "generate")
          \/ Step(t, "clear again", "set up")
      BY <2>5 DEF ClearAgain
    <3> QED BY <1>3, <3>1
  <2>8. CASE Generate(t) BY <1>3, <2>8 DEF Generate
  <2>6. CASE SetUp(t) BY <1>3, <2>6 DEF SetUp
  <2>7. CASE Enable(t) BY <1>3, <2>7 DEF Enable
  <2> QED BY <1>6, <2>1, <2>2, <2>3, <2>4, <2>5, <2>6, <2>7, <2>8
          DEF Carrier, RadioDisable
<1>7. CASE TimerIrq BY <1>2, <1>3, <1>7 DEF TimerIrq
<1>8. CASE Advance BY <1>2, <1>3, <1>8 DEF Advance
<1>9. CASE TimerDone
  <2>1. pc["timer"] = "done" /\ pc' = [pc EXCEPT !["timer"] = "idle"]
    BY <1>9 DEF TimerDone
  <2>2. pc["main"] # "wait" BY <2>1, Undivided
  <2>3. \A u \in Threads : pc'[u] # "wait" BY <1>1, <2>1, <2>2 DEF TypeOK, Threads
  <2> QED BY <2>3 DEF WaitsEnd
<1>10. CASE Compare BY <1>10 DEF Compare, chip, WaitsEnd
<1>11. CASE Radio
  BY <1>11 DEF Radio, RampedUp, PacketEnds, Disabled, WaitsEnd
<1>12. CASE UNCHANGED vars BY <1>12 DEF vars, chip, WaitsEnd
<1> QED BY <1>2, <1>4, <1>5, <1>6, <1>7, <1>8, <1>9, <1>10, <1>11, <1>12
        DEF Next, Main, TIMER1_IRQHandler

(* RadioDisable (radio.c:193-206) never waits for an EVENTS_DISABLED that  *)
(* has been cleared under its hands: neither the main program's call nor   *)
(* the handler's, each of which clears the event the other may wait for.   *)
THEOREM RadioDisableReturns == ASSUME Prompt PROVE Spec => []WaitsEnd
<1>1. Init => WaitsEnd BY DEF Init, WaitsEnd, Threads
<1>2. Spec => []CallInv BY InitCall, NextCall, PTL DEF Spec
<1>3. CallInv /\ WaitsEnd /\ [Next]_vars => WaitsEnd' BY WaitsKept
<1> QED BY <1>1, <1>2, <1>3, PTL DEF Spec
=============================================================================
