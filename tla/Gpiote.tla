------------------------------- MODULE Gpiote -------------------------------
(***************************************************************************)
(* app_gpiote.c on top of nrf_drv_gpiote (external): users register for    *)
(* edges of pins; a pin of an enabled user senses, and each change of it   *)
(* calls gpiote_handler.  The handler learns the direction of an edge from *)
(* m_last_pins_state, one snapshot shared by all pins.                     *)
(*                                                                         *)
(* Masks are sets of pins.  Enabling and disabling walk over the pins of   *)
(* the user in the main program, with interrupts between the pins.         *)
(***************************************************************************)
EXTENDS Naturals, Sequences

CONSTANTS
  Pins,
  UserMasks,     \* the pairs <<low to high, high to low>> users register
  MAX_USERS,     \* m_user_array_size
  MaxEdges       \* bound on the changes of the pins

ASSUME GpioteAssumption == \A m \in UserMasks : m[1] \cup m[2] \subseteq Pins

VARIABLE gpiote

gpioteVars == <<gpiote>>

NoCall == [enable |-> FALSE, user |-> 0, todo |-> {}, pin |-> {}]

GpioteOff ==
  [mp_users |-> <<>>, m_pins |-> {}, m_last_pins_state |-> {},
   level |-> {},         \* pins that are high
   sense |-> {},         \* pins whose event is enabled
   pending |-> {},       \* pins that changed since their handler ran
   call |-> NoCall,      \* the user_enable under way, the pin it is at
   edges |-> 0,
   mixed |-> FALSE,      \* history: the snapshot was taken while a change was
                         \* pending, or a pin changed before its sensing began
   wrong |-> FALSE,      \* history: a user was told of the opposite edge
   missed |-> FALSE]     \* history: a user enabled for an edge was not told

GpioteInit == gpiote = GpioteOff

PinsOf(user) == user.up \cup user.down
Users == DOMAIN gpiote.mp_users
Shared(pin) == \E u \in Users : gpiote.mp_users[u].enabled /\ pin \in PinsOf(gpiote.mp_users[u])
MainFreeOfGpiote == gpiote.call = NoCall

app_gpiote_user_register(up, down) ==
  /\ MainFreeOfGpiote /\ Len(gpiote.mp_users) < MAX_USERS
  /\ gpiote' = [gpiote EXCEPT
       !.mp_users = Append(@, [up |-> up, down |-> down, enabled |-> FALSE]),
       !.m_pins = @ \cup up \cup down]

(* app_gpiote_user_enable and app_gpiote_user_disable, their beginnings.   *)
(* Bug: the user is still enabled while its pins are given up.             *)
UserEnable(u) ==
  /\ MainFreeOfGpiote /\ ~gpiote.mp_users[u].enabled
  /\ gpiote' = [gpiote EXCEPT
       !.call = [enable |-> TRUE, user |-> u, todo |-> PinsOf(gpiote.mp_users[u]), pin |-> {}]]

UserDisableLate(u) ==
  /\ MainFreeOfGpiote /\ gpiote.mp_users[u].enabled
  /\ gpiote' = [gpiote EXCEPT
       !.call = [enable |-> FALSE, user |-> u, todo |-> PinsOf(gpiote.mp_users[u]), pin |-> {}]]
UserDisable(u) ==
  /\ MainFreeOfGpiote /\ gpiote.mp_users[u].enabled
  /\ gpiote' = [gpiote EXCEPT
       !.mp_users[u].enabled = FALSE,
       !.call = [enable |-> FALSE, user |-> u, todo |-> PinsOf(gpiote.mp_users[u]), pin |-> {}]]

(* pin_event_enable of the next pin: nothing to do for a pin that another  *)
(* enabled user has; to enable it, a snapshot first and the sensing later. *)
NextPin ==
  /\ gpiote.call.todo # {} /\ gpiote.call.pin = {}
  /\ LET pin == CHOOSE p \in gpiote.call.todo : TRUE
         g == [gpiote EXCEPT !.call.todo = @ \ {pin}]
     IN  gpiote' =
           (IF Shared(pin) THEN g
            ELSE IF gpiote.call.enable
            THEN [g EXCEPT !.m_last_pins_state = gpiote.level, !.call.pin = {pin},
                           !.mixed = @ \/ gpiote.pending # {}]
            ELSE [g EXCEPT !.sense = @ \ {pin}, !.pending = @ \ {pin}])

SensePin ==
  /\ gpiote.call.pin # {}
  /\ gpiote' = [gpiote EXCEPT !.sense = @ \cup gpiote.call.pin, !.call.pin = {}]

CallEnd ==
  /\ gpiote.call # NoCall /\ gpiote.call.todo = {} /\ gpiote.call.pin = {}
  /\ gpiote' = [gpiote EXCEPT !.mp_users[gpiote.call.user].enabled = gpiote.call.enable,
                              !.call = NoCall]

(* A pin changes.                                                          *)
Toggle(pin) ==
  /\ gpiote.edges < MaxEdges
  /\ gpiote' = [gpiote EXCEPT
       !.edges = @ + 1,
       !.level = IF pin \in @ THEN @ \ {pin} ELSE @ \cup {pin},
       !.pending = @ \cup ({pin} \cap gpiote.sense),
       !.mixed = @ \/ pin \in gpiote.call.pin
                   \/ (pin \in gpiote.sense /\ gpiote.pending # {})]

(* gpiote_handler.  The snapshot is that of every pin.                     *)
(* Bug: the snapshot is taken before the direction is read from it.        *)
hitoloNew(pin) == pin \in gpiote.level
hitolo(pin) == pin \in gpiote.m_last_pins_state

Told(user, pin) ==
  user.enabled /\ pin \in (IF hitolo(pin) THEN user.down ELSE user.up)

gpiote_handler(pin) ==
  /\ pin \in gpiote.pending
  /\ gpiote' = [gpiote EXCEPT
       !.pending = @ \ {pin},
       !.m_last_pins_state = gpiote.level,
       !.mixed = @ \/ gpiote.pending # {pin},
       !.wrong = @ \/ \E u \in Users :
         Told(gpiote.mp_users[u], pin) /\ hitolo(pin) = (pin \in gpiote.level),
       !.missed = @ \/ \E u \in Users :
         /\ gpiote.mp_users[u].enabled /\ ~Told(gpiote.mp_users[u], pin)
         /\ pin \in (IF pin \in gpiote.level THEN gpiote.mp_users[u].up
                     ELSE gpiote.mp_users[u].down)]

GpioteCpu ==
  NextPin \/ SensePin \/ CallEnd \/ \E pin \in Pins : gpiote_handler(pin)

GpioteNext ==
  \/ \E masks \in UserMasks : app_gpiote_user_register(masks[1], masks[2])
  \/ \E u \in Users : UserEnable(u) \/ UserDisable(u)
  \/ \E pin \in Pins : Toggle(pin)
  \/ GpioteCpu

-----------------------------------------------------------------------------
(* Between calls, a pin senses exactly when an enabled user wants it: a    *)
(* user that is disabled takes no pin from another one and leaves none on. *)
SensedForUsers ==
  MainFreeOfGpiote => gpiote.sense = {p \in Pins : Shared(p)}

(* Enabled users are told of every edge they registered for, and of the    *)
(* edge it was, as long as no two pins change before the handler runs and  *)
(* none while pin_event_enable starts.  (app_gpiote.h:107 promises events  *)
(* "when state is changed from low->high" without that condition.)         *)
EdgesRight == ~gpiote.mixed => ~gpiote.wrong /\ ~gpiote.missed
=============================================================================
