----------------------------- MODULE InputManager -----------------------------
(***************************************************************************)
(* The footswitch reader (components/input_manager): one task samples      *)
(* every pin once per poll interval, debounces it, and reports a short     *)
(* press on release or a long press while the switch is still down.        *)
(*                                                                         *)
(* SampleUncapped, ConfirmKeepsStart, ShortAfterLong and LongRepeats are   *)
(* mistaken versions of what follows them, to try the properties against.  *)
(*                                                                         *)
(* The unit of time is the poll interval.  The level of a pin is constant  *)
(* within a unit; bounce is a level that changes from unit to unit.  A     *)
(* pass over the buttons takes no time, except that the callback runs      *)
(* inside the pass: it writes to the UART and to the sockets of the        *)
(* browsers, and may keep the task for up to MaxBlock units, during which  *)
(* the pins move, nothing is sampled, and the remaining buttons of the     *)
(* pass are still to be compared with a time read before.                  *)
(***************************************************************************)
EXTENDS Integers

CONSTANTS
    ButtonCount,        \* s_button_count
    Threshold,          \* long_press_threshold_ms of each button, in units
    DEBOUNCE_SAMPLES,
    ClockModulus,       \* the clock is a uint32_t
    MaxBlock,           \* bound: longest time a callback blocks
    MaxHeld             \* bound of the history of a press, in units

Button == 0 .. ButtonCount - 1
Millis == 0 .. ClockModulus - 1
Press == {"short", "long"}
NoEvent == [fs |-> ButtonCount, press |-> "short"]

ASSUME InputAssumption ==
    /\ ButtonCount \in Nat \ {0}
    /\ Threshold \in [Button -> Millis]
    /\ DEBOUNCE_SAMPLES \in Nat \ {0}
    /\ ClockModulus \in Nat \ {0}
    /\ MaxBlock \in Nat
    /\ MaxHeld \in Nat
    /\ \A b \in Button : Threshold[b] <= MaxHeld

VARIABLES
    s_buttons,      \* the state of each button
    i,              \* loop index; ButtonCount between two passes
    t,              \* the time read at the start of the pass
    callback,       \* the event whose callback is running, or NoEvent
    blocked,        \* how long it has been running
    rested,         \* the delay between two passes is over
    now,
    raw_pressed,    \* the position of each switch
    \* History, for the properties only:
    episode,        \* what has happened to each switch since it was last released
    seen            \* what its samples showed, and what was reported meanwhile

vars == <<s_buttons, i, t, callback, blocked, rested, now, raw_pressed, episode,
          seen>>

ButtonState ==
    [candidate_pressed : BOOLEAN, raw_count : 0 .. DEBOUNCE_SAMPLES,
     debounced_pressed : BOOLEAN, press_start_ms : Millis,
     long_press_fired : BOOLEAN]

(* run: samples since the level last changed.  pressed: down for a whole    *)
(* debounce window.  held: time since then.  disturbed: a callback blocked  *)
(* the task meanwhile.                                                      *)
Episode ==
    [run : 0 .. DEBOUNCE_SAMPLES, pressed : BOOLEAN, held : 0 .. MaxHeld,
     events : 0 .. 2, disturbed : BOOLEAN]

(* The same in samples taken instead of time passed: run samples in a row   *)
(* showed level; pressed, events: a whole window of them has shown the      *)
(* switch down, and what was reported, since a whole window showed it up.   *)
Seen ==
    [level : BOOLEAN, run : 0 .. DEBOUNCE_SAMPLES, pressed : BOOLEAN,
     events : 0 .. 2]

TypeOK ==
    /\ s_buttons \in [Button -> ButtonState]
    /\ i \in 0 .. ButtonCount
    /\ t \in Millis
    /\ callback \in [fs : Button, press : Press] \cup {NoEvent}
    /\ blocked \in 0 .. MaxBlock
    /\ rested \in BOOLEAN
    /\ now \in Millis
    /\ raw_pressed \in [Button -> BOOLEAN]
    /\ episode \in [Button -> Episode]
    /\ seen \in [Button -> Seen]

-------------------------------------------------------------------------------
(* The body of the loop, for one button *)

AtMost(a, b) == IF a < b THEN a ELSE b

UintSub(a, b) == IF a >= b THEN a - b ELSE (a - b) + ClockModulus

SampleUncapped(b, level) ==
    IF level = b.candidate_pressed
    THEN [b EXCEPT !.raw_count = @ + 1]
    ELSE [b EXCEPT !.candidate_pressed = level, !.raw_count = 1]

Sample(b, level) ==
    IF level = b.candidate_pressed
    THEN [b EXCEPT !.raw_count = AtMost(@ + 1, DEBOUNCE_SAMPLES)]
    ELSE [b EXCEPT !.candidate_pressed = level, !.raw_count = 1]

Confirmed(b) ==
    /\ b.raw_count >= DEBOUNCE_SAMPLES
    /\ b.candidate_pressed # b.debounced_pressed

ConfirmKeepsStart(b) ==
    IF ~Confirmed(b) THEN b
    ELSE [b EXCEPT !.debounced_pressed = b.candidate_pressed,
                   !.long_press_fired = @ /\ ~b.candidate_pressed]

Confirm(b) ==
    IF ~Confirmed(b) THEN b
    ELSE IF b.candidate_pressed
    THEN [b EXCEPT !.debounced_pressed = TRUE, !.press_start_ms = t,
                   !.long_press_fired = FALSE]
    ELSE [b EXCEPT !.debounced_pressed = FALSE]

ShortAfterLong(b) == Confirmed(b) /\ ~b.candidate_pressed

ShortPress(b) == Confirmed(b) /\ ~b.candidate_pressed /\ ~b.long_press_fired

LongRepeats(b, threshold) ==
    b.debounced_pressed /\ UintSub(t, b.press_start_ms) >= threshold

LongPress(b, threshold) ==
    /\ b.debounced_pressed
    /\ ~b.long_press_fired
    /\ UintSub(t, b.press_start_ms) >= threshold

-------------------------------------------------------------------------------
(* The poll task *)

Init ==
    /\ s_buttons = [b \in Button |->
          [candidate_pressed |-> FALSE, raw_count |-> 0,
           debounced_pressed |-> FALSE, press_start_ms |-> 0,
           long_press_fired |-> FALSE]]
    /\ i = ButtonCount
    /\ t = 0
    /\ callback = NoEvent
    /\ blocked = 0
    /\ rested = TRUE
    /\ now = 0
    /\ raw_pressed = [b \in Button |-> FALSE]
    /\ episode = [b \in Button |->
          [run |-> 0, pressed |-> FALSE, held |-> 0, events |-> 0,
           disturbed |-> FALSE]]
    /\ seen = [b \in Button |->
          [level |-> FALSE, run |-> 0, pressed |-> FALSE, events |-> 0]]

StartPass ==
    /\ i = ButtonCount
    /\ callback = NoEvent
    /\ rested
    /\ i' = 0
    /\ t' = now
    /\ rested' = FALSE
    /\ UNCHANGED <<s_buttons, callback, blocked, now, raw_pressed, episode, seen>>

(* What the history records when button b is sampled. *)
Sampled(e, level, fired) ==
    LET down == level /\ AtMost(e.run + 1, DEBOUNCE_SAMPLES) = DEBOUNCE_SAMPLES
    IN  [e EXCEPT !.run = AtMost(@ + 1, DEBOUNCE_SAMPLES),
                  !.pressed = @ \/ down,
                  !.events = IF fired THEN AtMost(@ + 1, 2) ELSE @]

Counted(s, level, fired) ==
    LET run == IF level = s.level THEN AtMost(s.run + 1, DEBOUNCE_SAMPLES) ELSE 1
        over == ~s.level /\ s.run = DEBOUNCE_SAMPLES
        before == IF over THEN 0 ELSE s.events
    IN  [level |-> level, run |-> run,
         pressed |-> (s.pressed /\ ~over) \/ (level /\ run = DEBOUNCE_SAMPLES),
         events |-> IF fired THEN AtMost(before + 1, 2) ELSE before]

PollButton ==
    /\ i < ButtonCount
    /\ callback = NoEvent
    /\ LET sampled == Sample(s_buttons[i], raw_pressed[i])
           short == ShortPress(sampled)
           settled == Confirm(sampled)
           long == LongPress(settled, Threshold[i])
       IN  /\ s_buttons' = [s_buttons EXCEPT
                 ![i] = [settled EXCEPT !.long_press_fired = @ \/ long]]
           /\ callback' = IF short THEN [fs |-> i, press |-> "short"]
                          ELSE IF long THEN [fs |-> i, press |-> "long"]
                          ELSE NoEvent
           /\ episode' = [episode EXCEPT
                 ![i] = Sampled(@, raw_pressed[i], short \/ long)]
           /\ seen' = [seen EXCEPT
                 ![i] = Counted(@, raw_pressed[i], short \/ long)]
    /\ i' = i + 1
    /\ blocked' = 0
    /\ UNCHANGED <<t, rested, now, raw_pressed>>

CallbackReturns ==
    /\ callback # NoEvent
    /\ callback' = NoEvent
    /\ UNCHANGED <<s_buttons, i, t, blocked, rested, now, raw_pressed,
                   episode, seen>>

(* The history when a unit of time has passed and the switch is at level.   *)
(* It starts afresh after a whole debounce window of released samples.      *)
Elapsed(e, before, level) ==
    LET stalled == callback # NoEvent
        released == ~before /\ e.run = DEBOUNCE_SAMPLES /\ ~stalled
    IN  [run |-> IF level # before \/ stalled THEN 0 ELSE e.run,
         pressed |-> e.pressed /\ ~released,
         held |-> IF e.pressed /\ ~released THEN AtMost(e.held + 1, MaxHeld) ELSE 0,
         events |-> IF released THEN 0 ELSE e.events,
         disturbed |-> (e.disturbed /\ ~released) \/ stalled]

(* Time passes while the task sleeps or waits for a callback; the feet of   *)
(* the player move.                                                         *)
AdvanceClock ==
    /\ \/ callback # NoEvent /\ blocked < MaxBlock /\ blocked' = blocked + 1
       \/ callback = NoEvent /\ i = ButtonCount /\ ~rested /\ UNCHANGED blocked
    /\ now' = IF now = ClockModulus - 1 THEN 0 ELSE now + 1
    /\ rested' = (callback = NoEvent)
    /\ raw_pressed' \in [Button -> BOOLEAN]
    /\ episode' = [b \in Button |->
                      Elapsed(episode[b], raw_pressed[b], raw_pressed'[b])]
    /\ UNCHANGED <<s_buttons, i, t, callback, seen>>

Next == StartPass \/ PollButton \/ CallbackReturns \/ AdvanceClock

Spec == Init /\ [][Next]_vars

-------------------------------------------------------------------------------
(* Properties *)

PassDone == i = ButtonCount /\ ~rested /\ callback = NoEvent

(* When a pass is over, every switch whose presses were not disturbed by a  *)
(* blocked callback has reported exactly what its history calls for:        *)
(* nothing for bounce shorter than the debounce window, one long press from *)
(* the moment the threshold is reached, and after a release exactly one     *)
(* event in all, never both kinds and never none (lines 54-89).             *)
PressesAreReportedOnce ==
    PassDone =>
        \A b \in Button :
            LET e == episode[b]
                over == e.held >= Threshold[b]
                released == ~raw_pressed[b] /\ e.run = DEBOUNCE_SAMPLES
            IN  ~e.disturbed =>
                    e.events = IF e.pressed /\ (over \/ released) THEN 1 ELSE 0

(* A long press is reported only for a switch that has really been held for *)
(* its threshold, also when the clock wraps, unless a callback blocked.     *)
LongMeansHeld ==
    [][\A b \in Button :
          callback = NoEvent /\ callback' = [fs |-> b, press |-> "long"] =>
              episode[b].disturbed \/ episode[b].held >= Threshold[b]]_vars

(* Not even blocked callbacks lose a press or make it count twice, as far   *)
(* as samples were taken at all: what never showed for a whole window is    *)
(* bounce and reports nothing, a switch that did is reported at most once   *)
(* however long it stays down, and once it has been seen up for a whole     *)
(* window it has been reported, as one kind or the other (lines 54-89).     *)
EveryPressCountsOnce ==
    \A b \in Button :
        LET s == seen[b]
            released == ~s.level /\ s.run = DEBOUNCE_SAMPLES
        IN  /\ s.events <= IF s.pressed THEN 1 ELSE 0
            /\ s.pressed /\ released => s.events = 1
===============================================================================
