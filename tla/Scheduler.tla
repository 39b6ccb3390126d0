----------------------------- MODULE Scheduler -----------------------------
(***************************************************************************)
(* The event queue of app_scheduler.c: interrupt handlers, and the main    *)
(* program itself, put events; app_sched_execute, in the main program,     *)
(* takes them and calls their handlers.                                    *)
(*                                                                         *)
(* Contexts are numbered by priority: 0 is the main program, a higher      *)
(* number preempts a lower one.  A put takes two steps, because only the   *)
(* reservation of the slot is a critical region; a get takes two, because  *)
(* the start index moves before the slot is read.  An event is the record  *)
(* of what it asks for and of its rank n among the slots reserved.         *)
(***************************************************************************)
EXTENDS Integers, Sequences

CONSTANTS
  QUEUE_SIZE,   \* m_queue_size, events that can wait
  HIGHEST       \* the highest priority of a context that puts events

(* The indices are uint8_t: a larger queue_size would wrap too early.      *)
ASSUME QueueAssumption == QUEUE_SIZE \in 1 .. 255 /\ HIGHEST \in Nat

VARIABLES
  headers,               \* m_queue_event_headers, with the data of the event
  m_queue_start_index,
  m_queue_end_index,
  putting,               \* the put under way in each context
  claimed,               \* the slot of the event being executed, or NONE
  running,               \* the event whose handler runs, or NoEvent
  given,                 \* history: the events put, in the order of their slots
  ran                    \* number of handlers that have returned

queue == <<headers, m_queue_start_index, m_queue_end_index>>
schedVars == <<queue, putting, claimed, running, given, ran>>

Slots == 0 .. QUEUE_SIZE
Contexts == 0 .. HIGHEST
NONE == -1
NoEvent == [what |-> "none", n |-> 0]
NoPut == [slot |-> NONE, event |-> NoEvent]

(* Bugs: one slot too few or too many; a put that does not test for full.  *)
next_indexLong(index) == IF index <= QUEUE_SIZE THEN index + 1 ELSE 0
next_indexShort(index) == IF index + 1 < QUEUE_SIZE THEN index + 1 ELSE 0
next_index(index) == IF index < QUEUE_SIZE THEN index + 1 ELSE 0

FullNever == FALSE
Full == next_index(m_queue_end_index) = m_queue_start_index
Empty == m_queue_end_index = m_queue_start_index

(* app_sched_init.                                                         *)
SchedInit ==
  /\ headers = [s \in Slots |-> NoEvent]
  /\ m_queue_start_index = 0 /\ m_queue_end_index = 0
  /\ putting = [c \in Contexts |-> NoPut]
  /\ claimed = NONE /\ running = NoEvent
  /\ given = <<>> /\ ran = 0

(* app_sched_event_put, the critical region: NRF_ERROR_NO_MEM when full.   *)
Reserve(c, what) ==
  LET event == [what |-> what, n |-> Len(given) + 1]
  IN  /\ ~Full
      /\ putting' = [putting EXCEPT
                       ![c] = [slot |-> m_queue_end_index, event |-> event]]
      /\ m_queue_end_index' = next_index(m_queue_end_index)
      /\ given' = Append(given, event)
      /\ UNCHANGED <<headers, m_queue_start_index, claimed, running, ran>>

(* The rest of it: the reserved slot is filled outside the region.         *)
Fill(c) ==
  /\ putting[c] # NoPut
  /\ headers' = [headers EXCEPT ![putting[c].slot] = putting[c].event]
  /\ putting' = [putting EXCEPT ![c] = NoPut]
  /\ UNCHANGED <<m_queue_start_index, m_queue_end_index, claimed, running,
                 given, ran>>

(* app_sched_event_get: the slot is given up, then read.                   *)
Claim ==
  /\ claimed = NONE /\ ~Empty
  /\ claimed' = m_queue_start_index
  /\ m_queue_start_index' = next_index(m_queue_start_index)
  /\ UNCHANGED <<headers, m_queue_end_index, putting, running, given, ran>>

(* Bug: the entry at the (new) start index is read.                        *)
LoadNext ==
  /\ claimed # NONE /\ running = NoEvent
  /\ running' = headers[m_queue_start_index]
  /\ UNCHANGED <<queue, putting, claimed, given, ran>>

Load ==
  /\ claimed # NONE /\ running = NoEvent
  /\ running' = headers[claimed]
  /\ UNCHANGED <<queue, putting, claimed, given, ran>>

(* app_sched_execute: the handler returns, the loop goes on.               *)
Return ==
  /\ running # NoEvent
  /\ running' = NoEvent /\ claimed' = NONE
  /\ ran' = ran + 1
  /\ UNCHANGED <<queue, putting, given>>

-----------------------------------------------------------------------------
(* Events are executed once each and in the order in which their slots     *)
(* were reserved, whichever contexts put them and however these preempted  *)
(* each other: no handler is called for a slot not filled yet.             *)
RunsInOrder == running # NoEvent => running = given[ran + 1]

(* The slot of the running event has been given back to the ring, and the  *)
(* handler has a pointer into it: no put may overwrite it, even when the   *)
(* ring is full.  This is what the extra slot of app_sched_init is for.    *)
SlotUntouched == running # NoEvent => headers[claimed] = running

(* app_scheduler.h: QUEUE_SIZE is "the maximum number of events that can   *)
(* be scheduled": a put is refused only when as many wait.                 *)
Waiting == Len(given) - ran - (IF claimed = NONE THEN 0 ELSE 1)
FullMeansFull == Full <=> Waiting = QUEUE_SIZE
=============================================================================
