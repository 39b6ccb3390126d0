----------------------------- MODULE SoftDevice -----------------------------
(***************************************************************************)
(* softdevice_handler.c on top of the scheduler (softdevice_handler_appsh.c*)
(* joins them) with the error handling of app_error.c.                     *)
(*                                                                         *)
(* The SoftDevice (external) queues events of several sources and raises   *)
(* SWI2 for each.  The handler of SWI2, context 1, either fetches the      *)
(* events itself or schedules softdevice_evt_get, which fetches them in    *)
(* the main program; the fetching loop is intern_softdevice_events_execute.*)
(* Context 2 is any interrupt of the application that puts events.         *)
(***************************************************************************)
EXTENDS Scheduler, SequencesExt

CONSTANTS
  Sources,     \* the sources in the order they are asked: SOC, BLE, ANT
  MaxApp,      \* bound on the events the application puts
  MaxSd,       \* bound on the events of the SoftDevice
  MaxCalls     \* bound on calls of sd_disable

Names == ToSet(Sources)

ASSUME SoftDeviceAssumption ==
  /\ HIGHEST >= 2 /\ MaxSd \in Nat
  /\ Sources \in Seq(Names) /\ Len(Sources) > 0

VARIABLES
  direct,               \* m_evt_schedule_func is NULL
  debug,                \* compiled with DEBUG
  cpu,                  \* "runs", "reset" or "stopped" by the error handler
  call,                 \* progress of softdevice_handler_init
  m_softdevice_enabled,
  sdOn,                 \* the SoftDevice is enabled
  irq,                  \* SWI2 pending
  irqEnabled,
  pend,                 \* events the SoftDevice holds, of each source
  handlers,             \* sources whose event handler is set
  owed,                 \* sources with an event that came after their handler
  fetch,                \* where the loop runs, whom it asks next, no_more_*
  budget                \* what is left of MaxApp, MaxSd and MaxCalls

sdVars == <<direct, debug, call, m_softdevice_enabled, sdOn, irq, irqEnabled,
            pend, handlers, owed>>
irqRest == <<direct, debug, call, m_softdevice_enabled, sdOn, irqEnabled, pend,
             handlers, owed, cpu, budget>>
pumpVars == <<schedVars, sdVars, cpu, fetch, budget>>

NoFetch == [where |-> NONE, i |-> 1, no_more |-> {}]

PumpInit ==
  /\ SchedInit
  /\ direct \in BOOLEAN /\ debug \in BOOLEAN
  /\ cpu = "runs" /\ call = "off" /\ m_softdevice_enabled = FALSE
  /\ sdOn = FALSE /\ irq = FALSE /\ irqEnabled = FALSE
  /\ pend = [s \in Names |-> 0] /\ handlers = {} /\ owed = {}
  /\ fetch = NoFetch
  /\ budget = [app |-> MaxApp, sd |-> MaxSd, calls |-> MaxCalls]

(* A reset of the chip leaves nothing: what follows it is what can follow  *)
(* Init.  The bounds are used up, so that TLC explores that once.          *)
PumpReset ==
  /\ headers' = [s \in Slots |-> NoEvent]
  /\ m_queue_start_index' = 0 /\ m_queue_end_index' = 0
  /\ putting' = [c \in Contexts |-> NoPut]
  /\ claimed' = NONE /\ running' = NoEvent
  /\ given' = <<>> /\ ran' = 0
  /\ cpu' = "runs" /\ call' = "off" /\ m_softdevice_enabled' = FALSE
  /\ sdOn' = FALSE /\ irq' = FALSE /\ irqEnabled' = FALSE
  /\ pend' = [s \in Names |-> 0] /\ handlers' = {} /\ owed' = {}
  /\ fetch' = NoFetch /\ budget' = [app |-> 0, sd |-> 0, calls |-> 0]
  /\ UNCHANGED <<direct, debug>>

Spend(what) ==
  budget[what] > 0 /\ budget' = [budget EXCEPT ![what] = @ - 1]

(* Context c has the CPU: no context above it is at work.                  *)
Busy(c) == putting[c] # NoPut \/ fetch.where = c
Has(c) == cpu = "runs" /\ \A d \in Contexts : d > c => ~Busy(d)
(* The main program is between two calls, or in the handler of an event.   *)
MainFree == Has(0) /\ ~Busy(0) /\ call \in {"off", "on"}

-----------------------------------------------------------------------------
(* app_error_handler, from APP_ERROR_CHECK or APP_ERROR_HANDLER: a reset,  *)
(* or with DEBUG the end, with interrupts disabled.                        *)
Fault ==
  /\ cpu' = (IF debug THEN "stopped" ELSE "reset")
  /\ UNCHANGED <<schedVars, sdVars, fetch, budget>>

(* softdevice_handler_init: the SoftDevice, the flag, the interrupt.       *)
SdInit ==
  /\ Has(0) /\ ~Busy(0)
  /\ \/ /\ call = "off" /\ running = NoEvent /\ claimed = NONE
        /\ call' = "enabled" /\ sdOn' = TRUE
        /\ UNCHANGED <<m_softdevice_enabled, irqEnabled>>
     \/ /\ call = "enabled" /\ call' = "flagged"
        /\ m_softdevice_enabled' = TRUE
        /\ UNCHANGED <<sdOn, irqEnabled>>
     \/ /\ call = "flagged" /\ call' = "on"
        /\ irqEnabled' = TRUE
        /\ UNCHANGED <<sdOn, m_softdevice_enabled>>
  /\ UNCHANGED <<schedVars, direct, debug, irq, pend, handlers, owed, cpu,
                 fetch, budget>>

(* softdevice_handler_sd_disable.  A softdevice_evt_get may still wait.    *)
SdDisable ==
  /\ MainFree /\ call = "on" /\ running = NoEvent
  /\ Spend("calls")
  /\ call' = "off" /\ sdOn' = FALSE /\ m_softdevice_enabled' = FALSE
  /\ irq' = FALSE /\ irqEnabled' = FALSE
  /\ pend' = [s \in Names |-> 0] /\ owed' = {}
  /\ UNCHANGED <<schedVars, direct, debug, handlers, cpu, fetch>>

(* softdevice_sys_evt_handler_set and its siblings for BLE and ANT.        *)
HandlerSet(s) ==
  /\ MainFree /\ s \notin handlers
  /\ handlers' = handlers \cup {s}
  /\ UNCHANGED <<schedVars, direct, debug, call, m_softdevice_enabled, sdOn,
                 irq, irqEnabled, pend, owed, cpu, fetch, budget>>

SdEvent(s) ==
  /\ sdOn /\ cpu = "runs" /\ Spend("sd")
  /\ pend' = [pend EXCEPT ![s] = @ + 1]
  /\ irq' = TRUE
  /\ owed' = owed \cup ({s} \cap handlers)
  /\ UNCHANGED <<schedVars, direct, debug, call, m_softdevice_enabled, sdOn,
                 irqEnabled, handlers, cpu, fetch>>

(* An application's put: in an interrupt, in the main program between two  *)
(* events, or in a handler.  That it copes with NRF_ERROR_NO_MEM is its    *)
(* own part.                                                               *)
AppPut(c) ==
  /\ Has(c) /\ putting[c] = NoPut
  /\ c = 0 => call \in {"off", "on"} /\ (claimed = NONE \/ running # NoEvent)
  /\ c = 1 => fetch.where = 1
  /\ Spend("app")
  /\ Reserve(c, "app")
  /\ UNCHANGED <<sdVars, cpu, fetch>>

PutEnd(c) ==
  /\ Has(c)
  /\ Fill(c)
  /\ UNCHANGED <<sdVars, cpu, fetch, budget>>

-----------------------------------------------------------------------------
(* The loop starts: with nothing to ask of a source that has no handler.   *)
StartFetch(c) ==
  fetch' = (IF m_softdevice_enabled
            THEN [where |-> c, i |-> 1, no_more |-> Names \ handlers]
            ELSE fetch)

(* SOFTDEVICE_EVT_IRQHandler.                                              *)
Irq ==
  /\ Has(1) /\ ~Busy(1) /\ irq /\ irqEnabled
  /\ \/ /\ direct
        /\ StartFetch(1) /\ irq' = FALSE /\ UNCHANGED <<schedVars, irqRest>>
     \/ /\ ~direct
        /\ Reserve(1, "sd") /\ irq' = FALSE /\ UNCHANGED <<fetch, irqRest>>
     \/ ~direct /\ Full /\ Fault

(* Bug: the loop ends as soon as the first source has no more events.      *)
AskOnce ==
  LET s == Sources[fetch.i]
      empty == s \in fetch.no_more \/ pend[s] = 0
      no_more == fetch.no_more \cup (IF empty THEN {s} ELSE {})
      last == fetch.i = Len(Sources)
  IN  /\ Has(fetch.where)
      /\ pend' = (IF empty THEN pend ELSE [pend EXCEPT ![s] = @ - 1])
      /\ owed' = (IF pend'[s] = 0 THEN owed \ {s} ELSE owed)
      /\ fetch' = (IF last /\ Sources[1] \in no_more THEN NoFetch
                   ELSE [fetch EXCEPT !.i = (IF last THEN 1 ELSE @ + 1),
                                      !.no_more = no_more])

(* intern_softdevice_events_execute: ask one source, and at the end of a   *)
(* round stop when all have answered NRF_ERROR_NOT_FOUND.                  *)
Ask ==
  LET s == Sources[fetch.i]
      empty == s \in fetch.no_more \/ pend[s] = 0
      no_more == fetch.no_more \cup (IF empty THEN {s} ELSE {})
      last == fetch.i = Len(Sources)
  IN  /\ Has(fetch.where)
      /\ pend' = (IF empty THEN pend ELSE [pend EXCEPT ![s] = @ - 1])
      /\ owed' = (IF pend'[s] = 0 THEN owed \ {s} ELSE owed)
      /\ fetch' = (IF last /\ no_more = Names THEN NoFetch
                   ELSE [fetch EXCEPT !.i = (IF last THEN 1 ELSE @ + 1),
                                      !.no_more = no_more])

Fetch ==
  /\ fetch # NoFetch /\ putting[fetch.where] = NoPut
  /\ \/ /\ Ask
        /\ UNCHANGED <<schedVars, direct, debug, call, m_softdevice_enabled,
                       sdOn, irq, irqEnabled, handlers, cpu, budget>>
     \/ Has(fetch.where) /\ Fault      \* another error code

(* app_sched_execute.  The handler softdevice_evt_get returns when its     *)
(* loop has ended; one of the application does nothing that matters here.  *)
Execute ==
  /\ MainFree
  /\ \/ (Claim \/ Return) /\ UNCHANGED fetch
     \/ Load /\ (IF running'.what = "sd" THEN StartFetch(0) ELSE UNCHANGED fetch)
  /\ UNCHANGED <<sdVars, cpu, budget>>

PumpNext ==
  \/ SdInit \/ SdDisable
  \/ \E s \in Names : HandlerSet(s) \/ SdEvent(s)
  \/ \E c \in Contexts : AppPut(c) \/ PutEnd(c)
  \/ Irq \/ Fetch \/ Execute

(* The pump by itself, with resets at any time.                            *)
PumpSpec == PumpInit /\ [][PumpNext \/ PumpReset]_pumpVars

(* What the CPU does by itself: interrupts are taken, the main loop goes on*)
PumpCpu ==
  SdInit \/ Irq \/ Fetch \/ Execute \/ \E c \in Contexts : PutEnd(c)

-----------------------------------------------------------------------------
PumpTypeOK ==
  /\ {m_queue_start_index, m_queue_end_index} \subseteq Slots
  /\ claimed \in Slots \cup {NONE}
  /\ call \in {"off", "enabled", "flagged", "on"}
  /\ cpu \in {"runs", "reset", "stopped"}
  /\ {m_softdevice_enabled, sdOn, irq, irqEnabled} \subseteq BOOLEAN
  /\ pend \in [Names -> 0 .. MaxSd]
  /\ handlers \subseteq Names /\ owed \subseteq Names
  /\ fetch.where \in {NONE, 0, 1} /\ fetch.i \in 1 .. Len(Sources)

(* A softdevice_evt_get that has not started its loop is in the queue.     *)
Scheduled ==
  \E k \in (ran + (IF running = NoEvent THEN 1 ELSE 2)) .. Len(given) :
    given[k].what = "sd"

(* No event of the SoftDevice is stranded: one that came when its handler  *)
(* was set is about to be asked for, by the loop that runs, by one that is *)
(* scheduled or by SWI2, also when it came from a source that the running  *)
(* loop has already given up.                                              *)
NoStrandedEvent ==
  cpu = "runs" => \A s \in owed :
    irq \/ Scheduled \/ (fetch # NoFetch /\ s \notin fetch.no_more)

(* Every such event is handed to its handler, unless an error comes first. *)
Served ==
  \A s \in Names : (s \in owed) ~> (s \notin owed \/ cpu # "runs")
=============================================================================
