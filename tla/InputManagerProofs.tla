-------------------------- MODULE InputManagerProofs --------------------------
(***************************************************************************)
(* Proofs about InputManager, for any number of buttons, any thresholds a  *)
(* configuration may hold, any debounce window, and any width of the clock *)
(* that can hold the thresholds.                                           *)
(***************************************************************************)
EXTENDS InputManager, TLAPS

LEMMA Sizes ==
    /\ ButtonCount \in Nat \ {0}
    /\ DEBOUNCE_SAMPLES \in Nat \ {0}
    /\ ClockModulus \in Nat \ {0}
    /\ MaxBlock \in Nat
    /\ MaxHeld \in Nat
    /\ \A b \in Button : /\ Threshold[b] \in 0 .. ClockModulus - 1
                         /\ Threshold[b] <= MaxHeld
BY InputAssumption DEF Millis

(* The fields of a well-typed button. *)
LEMMA ButtonFields ==
    ASSUME NEW s \in ButtonState
    PROVE  /\ s.candidate_pressed \in BOOLEAN
           /\ s.raw_count \in 0 .. DEBOUNCE_SAMPLES
           /\ s.debounced_pressed \in BOOLEAN
           /\ s.press_start_ms \in Millis
           /\ s.long_press_fired \in BOOLEAN
BY DEF ButtonState

-------------------------------------------------------------------------------
(* The loop body on one button *)

(* A sample is counted, up to the debounce window. *)
LEMMA SampleEffect ==
    ASSUME NEW s \in ButtonState, NEW level \in BOOLEAN
    PROVE  LET q == Sample(s, level)
           IN  /\ q \in ButtonState
               /\ q.candidate_pressed = level
               /\ q.raw_count = IF level = s.candidate_pressed
                                THEN AtMost(s.raw_count + 1, DEBOUNCE_SAMPLES) ELSE 1
               /\ q.debounced_pressed = s.debounced_pressed
               /\ q.press_start_ms = s.press_start_ms
               /\ q.long_press_fired = s.long_press_fired
<1>1. AtMost(s.raw_count + 1, DEBOUNCE_SAMPLES) \in 0 .. DEBOUNCE_SAMPLES
    BY Sizes, ButtonFields DEF AtMost
<1>2. 1 \in 0 .. DEBOUNCE_SAMPLES
    BY Sizes
<1>3. CASE level = s.candidate_pressed
    BY <1>1, <1>3 DEF Sample, ButtonState
<1>4. CASE level # s.candidate_pressed
    BY <1>2, <1>4 DEF Sample, ButtonState
<1>5. QED
    BY <1>3, <1>4

(* What confirming a level leaves. *)
LEMMA ConfirmEffect ==
    ASSUME NEW q \in ButtonState, t \in Millis
    PROVE  LET r == Confirm(q)
           IN  /\ r \in ButtonState
               /\ r.candidate_pressed = q.candidate_pressed
               /\ r.raw_count = q.raw_count
               /\ r.debounced_pressed = IF Confirmed(q) THEN q.candidate_pressed
                                        ELSE q.debounced_pressed
               /\ Confirmed(q) /\ q.candidate_pressed =>
                      r.press_start_ms = t /\ r.long_press_fired = FALSE
               /\ ~(Confirmed(q) /\ q.candidate_pressed) =>
                      /\ r.press_start_ms = q.press_start_ms
                      /\ r.long_press_fired = q.long_press_fired
<1>1. CASE ~Confirmed(q)
    BY <1>1 DEF Confirm
<1>2. CASE Confirmed(q) /\ q.candidate_pressed
    BY <1>2 DEF Confirm, ButtonState
<1>3. CASE Confirmed(q) /\ ~q.candidate_pressed
    BY <1>3 DEF Confirm, ButtonState
<1>4. QED
    BY <1>1, <1>2, <1>3

(* The history a sample leaves. *)
LEMMA SampledEffect ==
    ASSUME NEW e \in Episode, NEW level \in BOOLEAN, NEW fired \in BOOLEAN
    PROVE  LET x == Sampled(e, level, fired)
               run == AtMost(e.run + 1, DEBOUNCE_SAMPLES)
           IN  /\ x \in Episode
               /\ x.run = run
               /\ x.pressed <=> e.pressed \/ (level /\ run = DEBOUNCE_SAMPLES)
               /\ x.events = IF fired THEN AtMost(e.events + 1, 2) ELSE e.events
               /\ x.held = e.held
               /\ x.disturbed = e.disturbed
<1> DEFINE run == AtMost(e.run + 1, DEBOUNCE_SAMPLES)
           events == IF fired THEN AtMost(e.events + 1, 2) ELSE e.events
           pressed == e.pressed \/ (level /\ run = DEBOUNCE_SAMPLES)
           x == Sampled(e, level, fired)
<1>1. run \in 0 .. DEBOUNCE_SAMPLES
    BY Sizes DEF AtMost, Episode
<1>2. events \in 0 .. 2
    BY DEF AtMost, Episode
<1>3. pressed \in BOOLEAN
    BY DEF Episode
<1>4. x = [e EXCEPT !.run = run, !.pressed = pressed, !.events = events]
    BY DEF Sampled
<1> HIDE DEF run, events, pressed, x
<1>5. /\ x \in Episode
      /\ x.run = run
      /\ x.pressed = pressed
      /\ x.events = events
      /\ x.held = e.held
      /\ x.disturbed = e.disturbed
    BY <1>1, <1>2, <1>3, <1>4 DEF Episode
<1>6. QED
    BY <1>5 DEF run, events, pressed, x

LEMMA CountedEffect ==
    ASSUME NEW s \in Seen, NEW level \in BOOLEAN, NEW fired \in BOOLEAN
    PROVE  LET x == Counted(s, level, fired)
               run == IF level = s.level THEN AtMost(s.run + 1, DEBOUNCE_SAMPLES) ELSE 1
               over == ~s.level /\ s.run = DEBOUNCE_SAMPLES
               before == IF over THEN 0 ELSE s.events
           IN  /\ x \in Seen
               /\ x.level = level
               /\ x.run = run
               /\ x.pressed <=> (s.pressed /\ ~over) \/ (level /\ run = DEBOUNCE_SAMPLES)
               /\ x.events = IF fired THEN AtMost(before + 1, 2) ELSE before
<1> DEFINE run == IF level = s.level THEN AtMost(s.run + 1, DEBOUNCE_SAMPLES) ELSE 1
           over == ~s.level /\ s.run = DEBOUNCE_SAMPLES
           before == IF over THEN 0 ELSE s.events
           pressed == (s.pressed /\ ~over) \/ (level /\ run = DEBOUNCE_SAMPLES)
           events == IF fired THEN AtMost(before + 1, 2) ELSE before
           x == Counted(s, level, fired)
<1>1. run \in 0 .. DEBOUNCE_SAMPLES
    BY Sizes DEF AtMost, Seen
<1>2. events \in 0 .. 2
    BY DEF AtMost, Seen
<1>3. pressed \in BOOLEAN
    BY DEF Seen
<1>4. x = [level |-> level, run |-> run, pressed |-> pressed, events |-> events]
    BY DEF Counted
<1> HIDE DEF run, pressed, events, x
<1>5. x \in Seen /\ x.level = level /\ x.run = run /\ x.pressed = pressed
      /\ x.events = events
    BY <1>1, <1>2, <1>3, <1>4 DEF Seen
<1>6. QED
    BY <1>5 DEF run, pressed, events, x

(* What PollButton makes of button i, in terms of the state before: the     *)
(* count of its samples, whether they confirm a change, and the two events. *)
Count ==
    IF raw_pressed[i] = s_buttons[i].candidate_pressed
    THEN AtMost(s_buttons[i].raw_count + 1, DEBOUNCE_SAMPLES) ELSE 1

Changes ==
    Count >= DEBOUNCE_SAMPLES /\ raw_pressed[i] # s_buttons[i].debounced_pressed

PressedNow == Changes /\ raw_pressed[i]
ReleasedNow == Changes /\ ~raw_pressed[i]
Short == ReleasedNow /\ ~s_buttons[i].long_press_fired

Long ==
    \/ PressedNow /\ UintSub(t, t) >= Threshold[i]
    \/ /\ ~Changes
       /\ s_buttons[i].debounced_pressed
       /\ ~s_buttons[i].long_press_fired
       /\ UintSub(t, s_buttons[i].press_start_ms) >= Threshold[i]

Run == AtMost(episode[i].run + 1, DEBOUNCE_SAMPLES)

SeenRun ==
    IF raw_pressed[i] = seen[i].level
    THEN AtMost(seen[i].run + 1, DEBOUNCE_SAMPLES) ELSE 1

SeenUp == ~seen[i].level /\ seen[i].run = DEBOUNCE_SAMPLES

SeenBefore == IF SeenUp THEN 0 ELSE seen[i].events

LEMMA PollEffect ==
    ASSUME TypeOK, PollButton
    PROVE  /\ i \in Button
           /\ s_buttons'[i] \in ButtonState
           /\ s_buttons'[i].candidate_pressed = raw_pressed[i]
           /\ s_buttons'[i].raw_count = Count
           /\ s_buttons'[i].debounced_pressed =
                 IF Changes THEN raw_pressed[i] ELSE s_buttons[i].debounced_pressed
           /\ PressedNow => s_buttons'[i].press_start_ms = t
           /\ ~PressedNow =>
                 s_buttons'[i].press_start_ms = s_buttons[i].press_start_ms
           /\ s_buttons'[i].long_press_fired <=>
                 Long \/ (s_buttons[i].long_press_fired /\ ~PressedNow)
           /\ episode'[i] \in Episode
           /\ episode'[i].run = Run
           /\ episode'[i].pressed <=>
                 episode[i].pressed \/ (raw_pressed[i] /\ Run = DEBOUNCE_SAMPLES)
           /\ episode'[i].events = IF Short \/ Long THEN AtMost(episode[i].events + 1, 2)
                                   ELSE episode[i].events
           /\ episode'[i].held = episode[i].held
           /\ episode'[i].disturbed = episode[i].disturbed
           /\ seen'[i] \in Seen
           /\ seen'[i].level = raw_pressed[i]
           /\ seen'[i].run = SeenRun
           /\ seen'[i].pressed <=>
                 \/ seen[i].pressed /\ ~SeenUp
                 \/ raw_pressed[i] /\ SeenRun = DEBOUNCE_SAMPLES
           /\ seen'[i].events = IF Short \/ Long THEN AtMost(SeenBefore + 1, 2)
                                ELSE SeenBefore
           /\ s_buttons' = [s_buttons EXCEPT ![i] = s_buttons'[i]]
           /\ episode' = [episode EXCEPT ![i] = episode'[i]]
           /\ seen' = [seen EXCEPT ![i] = seen'[i]]
           /\ callback' = IF Short THEN [fs |-> i, press |-> "short"]
                          ELSE IF Long THEN [fs |-> i, press |-> "long"]
                          ELSE NoEvent
<1> DEFINE s == s_buttons[i]
           level == raw_pressed[i]
           q == Sample(s, level)
           r == Confirm(q)
           short == ShortPress(q)
           long == LongPress(r, Threshold[i])
           n == [r EXCEPT !.long_press_fired = @ \/ long]
           x == Sampled(episode[i], level, short \/ long)
           y == Counted(seen[i], level, short \/ long)
<1>1. i \in Button /\ s \in ButtonState /\ level \in BOOLEAN /\ episode[i] \in Episode
      /\ seen[i] \in Seen
      /\ t \in Millis
    BY Sizes DEF TypeOK, PollButton, Button
<1>2. /\ q \in ButtonState
      /\ q.candidate_pressed = level
      /\ q.raw_count = Count
      /\ q.debounced_pressed = s.debounced_pressed
      /\ q.press_start_ms = s.press_start_ms
      /\ q.long_press_fired = s.long_press_fired
    BY <1>1, SampleEffect DEF Count
<1>3. Confirmed(q) <=> Changes
    BY <1>2 DEF Confirmed, Changes
<1>4. /\ r \in ButtonState
      /\ r.candidate_pressed = level
      /\ r.raw_count = Count
      /\ r.debounced_pressed = IF Changes THEN level ELSE s.debounced_pressed
      /\ PressedNow => r.press_start_ms = t /\ r.long_press_fired = FALSE
      /\ ~PressedNow => /\ r.press_start_ms = s.press_start_ms
                        /\ r.long_press_fired = s.long_press_fired
    <2> HIDE DEF q, r
    <2>1. /\ r \in ButtonState
          /\ r.candidate_pressed = q.candidate_pressed
          /\ r.raw_count = q.raw_count
          /\ r.debounced_pressed = IF Confirmed(q) THEN q.candidate_pressed
                                   ELSE q.debounced_pressed
          /\ Confirmed(q) /\ q.candidate_pressed =>
                 r.press_start_ms = t /\ r.long_press_fired = FALSE
          /\ ~(Confirmed(q) /\ q.candidate_pressed) =>
                 /\ r.press_start_ms = q.press_start_ms
                 /\ r.long_press_fired = q.long_press_fired
        BY <1>1, <1>2, ConfirmEffect DEF r
    <2>2. QED
        BY <1>2, <1>3, <2>1 DEF PressedNow
<1>5. short <=> Short
    BY <1>2, <1>3 DEF ShortPress, Short, ReleasedNow
<1>6. long <=> Long
    <2> HIDE DEF r, q
    <2>1. CASE PressedNow
        BY <1>4, <2>1 DEF LongPress, Long, PressedNow
    <2>2. CASE ReleasedNow
        BY <1>4, <2>2 DEF LongPress, Long, PressedNow, ReleasedNow
    <2>3. CASE ~Changes
        BY <1>4, <2>3 DEF LongPress, Long, PressedNow
    <2>4. QED
        BY <1>1, <2>1, <2>2, <2>3 DEF PressedNow, ReleasedNow
<1>7. /\ s_buttons' = [s_buttons EXCEPT ![i] = n]
      /\ episode' = [episode EXCEPT ![i] = x]
      /\ seen' = [seen EXCEPT ![i] = y]
      /\ callback' = IF short THEN [fs |-> i, press |-> "short"]
                     ELSE IF long THEN [fs |-> i, press |-> "long"]
                     ELSE NoEvent
    BY DEF PollButton
<1> HIDE DEF q, r, short, long
<1>8. /\ n \in ButtonState
      /\ n.candidate_pressed = r.candidate_pressed
      /\ n.raw_count = r.raw_count
      /\ n.debounced_pressed = r.debounced_pressed
      /\ n.press_start_ms = r.press_start_ms
      /\ n.long_press_fired <=> r.long_press_fired \/ long
    BY <1>4 DEF ButtonState
<1>9. /\ x \in Episode
      /\ x.run = Run
      /\ x.pressed <=> episode[i].pressed \/ (level /\ Run = DEBOUNCE_SAMPLES)
      /\ x.events = IF short \/ long THEN AtMost(episode[i].events + 1, 2)
                    ELSE episode[i].events
      /\ x.held = episode[i].held
      /\ x.disturbed = episode[i].disturbed
    <2>1. (short \/ long) \in BOOLEAN
        OBVIOUS
    <2>2. QED
        BY <1>1, <2>1, SampledEffect DEF Run
<1>13. /\ y \in Seen
       /\ y.level = level
       /\ y.run = SeenRun
       /\ y.pressed <=> \/ seen[i].pressed /\ ~SeenUp
                        \/ level /\ SeenRun = DEBOUNCE_SAMPLES
       /\ y.events = IF short \/ long THEN AtMost(SeenBefore + 1, 2) ELSE SeenBefore
    <2>1. (short \/ long) \in BOOLEAN
        OBVIOUS
    <2> DEFINE fired == short \/ long
    <2> HIDE DEF fired
    <2>2. y = Counted(seen[i], level, fired)
        BY DEF fired
    <2>3. fired \in BOOLEAN /\ (fired <=> short \/ long)
        BY <2>1 DEF fired
    <2> HIDE DEF y
    <2>4. /\ y \in Seen
          /\ y.level = level
          /\ y.run = SeenRun
          /\ y.pressed <=> \/ seen[i].pressed /\ ~SeenUp
                           \/ level /\ SeenRun = DEBOUNCE_SAMPLES
          /\ y.events = IF fired THEN AtMost(SeenBefore + 1, 2) ELSE SeenBefore
        BY <1>1, <2>2, <2>3, CountedEffect DEF SeenRun, SeenUp, SeenBefore
    <2>5. QED
        BY <2>3, <2>4
<1> HIDE DEF n, x, y
<1>10. s_buttons'[i] = n /\ episode'[i] = x /\ seen'[i] = y
    BY <1>1, <1>7 DEF TypeOK
<1>11. n.long_press_fired <=> Long \/ (s_buttons[i].long_press_fired /\ ~PressedNow)
    BY <1>4, <1>6, <1>8
<1>12. QED
    BY <1>1, <1>4, <1>5, <1>6, <1>7, <1>8, <1>9, <1>10, <1>11, <1>13

(* What a unit of time does to the history. *)
LEMMA ElapsedTyped ==
    ASSUME NEW e \in Episode, NEW before \in BOOLEAN, NEW level \in BOOLEAN
    PROVE  Elapsed(e, before, level) \in Episode
<1>1. AtMost(e.held + 1, MaxHeld) \in 0 .. MaxHeld
    BY Sizes DEF AtMost, Episode
<1>2. QED
    BY <1>1, Sizes DEF Elapsed, Episode

-------------------------------------------------------------------------------
(* Types *)

LEMMA TypeInit == Init => TypeOK
BY Sizes DEF Init, TypeOK, ButtonState, Episode, Seen, Millis

LEMMA TypeStep == TypeOK /\ [Next]_vars => TypeOK'
<1> SUFFICES ASSUME TypeOK, [Next]_vars PROVE TypeOK'
    OBVIOUS
<1> USE Sizes
<1>1. CASE StartPass
    <2>1. i' \in 0 .. ButtonCount /\ t' \in Millis
        BY <1>1 DEF StartPass, TypeOK
    <2>2. rested' \in BOOLEAN
        BY <1>1, Zenon DEF StartPass
    <2>3. QED
        BY <1>1, <2>1, <2>2 DEF StartPass, TypeOK
<1>2. CASE PollButton
    <2>1. /\ s_buttons' \in [Button -> ButtonState]
          /\ episode' \in [Button -> Episode]
          /\ seen' \in [Button -> Seen]
        BY <1>2, PollEffect DEF TypeOK
    <2>2. callback' \in [fs : Button, press : Press] \cup {NoEvent}
        BY <1>2, PollEffect DEF Press
    <2>3. i' \in 0 .. ButtonCount
        BY <1>2 DEF PollButton, TypeOK
    <2>4. QED
        BY <1>2, <2>1, <2>2, <2>3 DEF PollButton, TypeOK
<1>3. CASE CallbackReturns
    BY <1>3 DEF CallbackReturns, TypeOK
<1>4. CASE AdvanceClock
    <2>1. now' \in Millis /\ blocked' \in 0 .. MaxBlock /\ rested' \in BOOLEAN
        <3>1. now' \in Millis
            BY <1>4 DEF AdvanceClock, TypeOK, Millis
        <3>2. blocked' \in 0 .. MaxBlock
            BY <1>4 DEF AdvanceClock, TypeOK
        <3>3. rested' \in BOOLEAN
            BY <1>4, Zenon DEF AdvanceClock, TypeOK
        <3>4. QED
            BY <3>1, <3>2, <3>3
    <2>2. raw_pressed' \in [Button -> BOOLEAN]
        BY <1>4 DEF AdvanceClock
    <2>3. episode' \in [Button -> Episode]
        BY <1>4, <2>2, ElapsedTyped DEF AdvanceClock, TypeOK
    <2>4. QED
        BY <1>4, <2>1, <2>2, <2>3 DEF AdvanceClock, TypeOK
<1>5. CASE UNCHANGED vars
    BY <1>5 DEF vars, TypeOK
<1>6. QED
    BY <1>1, <1>2, <1>3, <1>4, <1>5 DEF Next

(* All variables keep their types. *)
THEOREM TypeCorrect == Spec => []TypeOK
<1>1. QED
    BY TypeInit, TypeStep, PTL DEF Spec

-------------------------------------------------------------------------------
(* The inductive invariant *)

(* Button b has been sampled in the present unit of time. *)
Done(b) == b < i /\ ~rested

(* A level that was seen for a whole window is the confirmed one. *)
Settled(b) ==
    s_buttons[b].raw_count = DEBOUNCE_SAMPLES =>
        s_buttons[b].debounced_pressed = s_buttons[b].candidate_pressed

(* The samples since the level last changed have all been counted. *)
Follows(b) ==
    episode[b].run > 0 =>
        /\ s_buttons[b].candidate_pressed = raw_pressed[b]
        /\ s_buttons[b].raw_count >= episode[b].run

(* Unless disturbed, no others have been, and no time passes in a pass. *)
InPhase(b) ==
    ~episode[b].disturbed =>
        /\ s_buttons[b].candidate_pressed = raw_pressed[b] =>
              s_buttons[b].raw_count = episode[b].run
        /\ s_buttons[b].candidate_pressed # raw_pressed[b] =>
              episode[b].run = 0 /\ ~Done(b)
        /\ i < ButtonCount => t = now

(* While a switch is confirmed to be down, the long press is late by no      *)
(* more than the sample that is still to come ...                            *)
HeldSoFar(b) ==
    ~episode[b].disturbed /\ s_buttons[b].debounced_pressed =>
        /\ episode[b].pressed
        /\ s_buttons[b].long_press_fired =>
              episode[b].events = 1 /\ episode[b].held >= Threshold[b]
        /\ ~s_buttons[b].long_press_fired =>
              /\ episode[b].events = 0
              /\ UintSub(now, s_buttons[b].press_start_ms) = episode[b].held
              /\ episode[b].held <= Threshold[b]
              /\ Done(b) => episode[b].held < Threshold[b]

(* ... and when it has been released the press has been reported.           *)
Reported(b) ==
    ~episode[b].disturbed /\ ~s_buttons[b].debounced_pressed =>
        /\ episode[b].pressed =>
              /\ episode[b].events = 1
              /\ Done(b)
              /\ ~raw_pressed[b]
              /\ episode[b].run = DEBOUNCE_SAMPLES
        /\ ~episode[b].pressed => episode[b].events = 0 /\ episode[b].held = 0

(* The samples taken, however late: the debounced level is down only when a  *)
(* press has been seen, which is reported by the time it is seen to be over. *)
Observed(b) ==
    /\ seen[b].level = s_buttons[b].candidate_pressed
    /\ seen[b].run = s_buttons[b].raw_count
    /\ s_buttons[b].debounced_pressed =>
          /\ seen[b].pressed
          /\ seen[b].events = IF s_buttons[b].long_press_fired THEN 1 ELSE 0
    /\ ~s_buttons[b].debounced_pressed =>
          /\ seen[b].events = IF seen[b].pressed THEN 1 ELSE 0
          /\ seen[b].pressed => ~seen[b].level /\ seen[b].run = DEBOUNCE_SAMPLES

ButtonInv(b) ==
    /\ Settled(b) /\ Follows(b) /\ InPhase(b) /\ HeldSoFar(b) /\ Reported(b)
    /\ Observed(b)

InputInv ==
    /\ i < ButtonCount => ~rested
    /\ \A b \in Button : ButtonInv(b)

LEMMA InvInit == Init => InputInv
<1> SUFFICES ASSUME Init PROVE InputInv
    OBVIOUS
<1>1. i < ButtonCount => ~rested
    BY Sizes DEF Init
<1>2. ASSUME NEW b \in Button PROVE ButtonInv(b)
    <2>1. /\ s_buttons[b].candidate_pressed = raw_pressed[b]
          /\ s_buttons[b].raw_count = 0
          /\ ~s_buttons[b].debounced_pressed
          /\ episode[b].run = 0
          /\ ~episode[b].pressed
          /\ episode[b].events = 0 /\ episode[b].held = 0
          /\ seen[b] = [level |-> FALSE, run |-> 0, pressed |-> FALSE, events |-> 0]
          /\ s_buttons[b].candidate_pressed = FALSE
          /\ i = ButtonCount
        BY DEF Init
    <2>2. Observed(b)
        <3>1. /\ seen[b].level = FALSE /\ seen[b].run = 0
              /\ seen[b].pressed = FALSE /\ seen[b].events = 0
            BY <2>1
        <3>2. QED
            BY <2>1, <3>1, Zenon DEF Observed
    <2>3. QED
        BY <2>1, <2>2, Sizes
            DEF ButtonInv, Settled, Follows, InPhase, HeldSoFar, Reported
<1>3. QED
    BY <1>1, <1>2 DEF InputInv

(* The clock is at most one unit of time ahead of what was compared. *)
LEMMA UintSubNext ==
    ASSUME NEW a \in Millis, NEW s \in Millis, NEW h \in Nat,
           UintSub(a, s) = h, h + 1 < ClockModulus
    PROVE  UintSub(IF a = ClockModulus - 1 THEN 0 ELSE a + 1, s) = h + 1
BY Sizes DEF UintSub, Millis

(* What is seen of the button that is polled. *)
LEMMA PolledObserved ==
    ASSUME TypeOK, InputInv, PollButton, NEW b \in Button, b = i
    PROVE  Observed(b)'
<1>1. /\ s_buttons[b] \in ButtonState /\ s_buttons'[b] \in ButtonState
      /\ seen[b] \in Seen /\ seen'[b] \in Seen
      /\ raw_pressed[b] \in BOOLEAN
    BY PollEffect DEF TypeOK
<1>2. Settled(b) /\ Observed(b)
    BY DEF InputInv, ButtonInv
<1>3. /\ s_buttons'[b].candidate_pressed = raw_pressed[b]
      /\ s_buttons'[b].raw_count = Count
      /\ s_buttons'[b].debounced_pressed =
            IF Changes THEN raw_pressed[b] ELSE s_buttons[b].debounced_pressed
      /\ s_buttons'[b].long_press_fired <=>
            Long \/ (s_buttons[b].long_press_fired /\ ~PressedNow)
    BY PollEffect
<1>4. /\ seen'[b].level = raw_pressed[b]
      /\ seen'[b].run = SeenRun
      /\ seen'[b].pressed <=>
            \/ seen[b].pressed /\ ~SeenUp
            \/ raw_pressed[b] /\ SeenRun = DEBOUNCE_SAMPLES
      /\ seen'[b].events = IF Short \/ Long THEN AtMost(SeenBefore + 1, 2)
                           ELSE SeenBefore
    BY PollEffect
<1>5. SeenRun = Count
    BY <1>2 DEF SeenRun, Count, Observed
<1>6. Count \in 1 .. DEBOUNCE_SAMPLES
    BY <1>1, Sizes DEF Count, AtMost, ButtonState
<1>7. SeenUp => ~s_buttons[b].debounced_pressed
    BY <1>2 DEF SeenUp, Observed, Settled
<1>8. CASE s_buttons[b].debounced_pressed
    <2>1. /\ seen[b].pressed /\ ~SeenUp
          /\ SeenBefore = IF s_buttons[b].long_press_fired THEN 1 ELSE 0
        BY <1>2, <1>7, <1>8 DEF SeenBefore, Observed
    <2>2. ~PressedNow
        BY <1>1, <1>8 DEF PressedNow, Changes, ButtonState
    <2>3. CASE ReleasedNow
        <3>1. ~Long /\ (Short <=> ~s_buttons[b].long_press_fired)
            BY <2>2, <2>3 DEF Long, Short, ReleasedNow
        <3>2. ~raw_pressed[b] /\ Count = DEBOUNCE_SAMPLES
              /\ ~s_buttons'[b].debounced_pressed
            BY <1>3, <1>6, <2>3, Sizes DEF ReleasedNow, Changes
        <3>3. seen'[b].pressed /\ seen'[b].events = 1
            BY <1>4, <2>1, <3>1 DEF AtMost
        <3>4. QED
            BY <1>3, <1>4, <1>5, <3>2, <3>3 DEF Observed
    <2>4. CASE ~ReleasedNow
        <3>1. ~Changes /\ ~Short
            BY <2>2, <2>4 DEF PressedNow, ReleasedNow, Short
        <3>2. Long => ~s_buttons[b].long_press_fired
            BY <3>1 DEF Long, PressedNow
        <3>3. seen'[b].pressed
              /\ seen'[b].events = IF s_buttons'[b].long_press_fired THEN 1 ELSE 0
            BY <1>3, <1>4, <2>1, <2>2, <3>1, <3>2 DEF AtMost
        <3>4. QED
            BY <1>3, <1>4, <1>5, <1>8, <3>1, <3>3 DEF Observed
    <2>5. QED
        BY <2>3, <2>4
<1>9. CASE ~s_buttons[b].debounced_pressed
    <2>1. SeenBefore = 0 /\ ~(seen[b].pressed /\ ~SeenUp)
        BY <1>1, <1>2, <1>9 DEF SeenBefore, SeenUp, Observed, Seen
    <2>2. ~Short
        BY <1>1, <1>9 DEF Short, ReleasedNow, Changes, ButtonState
    <2>3. seen'[b].events = IF Long THEN 1 ELSE 0
        BY <1>4, <2>1, <2>2 DEF AtMost
    <2>4. seen'[b].pressed <=> raw_pressed[b] /\ Count = DEBOUNCE_SAMPLES
        BY <1>4, <1>5, <2>1
    <2>5. CASE PressedNow
        <3>1. raw_pressed[b] /\ Count = DEBOUNCE_SAMPLES
              /\ s_buttons'[b].debounced_pressed
            BY <1>3, <1>6, <2>5, Sizes DEF PressedNow, Changes
        <3>3. s_buttons'[b].long_press_fired <=> Long
            BY <1>3, <2>5
        <3>2. QED
            BY <1>3, <1>4, <1>5, <2>3, <2>4, <3>1, <3>3 DEF Observed
    <2>6. CASE ~PressedNow
        <3>1. ~Changes /\ ~Long
            BY <1>1, <1>9, <2>6 DEF Long, PressedNow, Changes, ButtonState
        <3>2. ~(raw_pressed[b] /\ Count = DEBOUNCE_SAMPLES)
            BY <1>1, <1>6, <1>9, <3>1, Sizes DEF Changes, ButtonState
        <3>3. QED
            BY <1>3, <1>4, <1>5, <1>9, <2>3, <2>4, <3>1, <3>2 DEF Observed
    <2>7. QED
        BY <2>5, <2>6
<1>10. QED
    BY <1>8, <1>9

(* The button that is polled. *)
LEMMA PolledInv ==
    ASSUME TypeOK, InputInv, PollButton, NEW b \in Button, b = i
    PROVE  ButtonInv(b)'
<1>1. /\ s_buttons[b] \in ButtonState
      /\ episode[b] \in Episode
      /\ raw_pressed[b] \in BOOLEAN
      /\ t \in Millis /\ now \in Millis
    BY DEF TypeOK
<1>2. /\ s_buttons'[b] \in ButtonState
      /\ s_buttons'[b].candidate_pressed = raw_pressed[b]
      /\ s_buttons'[b].raw_count = Count
      /\ s_buttons'[b].debounced_pressed =
            IF Changes THEN raw_pressed[b] ELSE s_buttons[b].debounced_pressed
      /\ PressedNow => s_buttons'[b].press_start_ms = t
      /\ ~PressedNow => s_buttons'[b].press_start_ms = s_buttons[b].press_start_ms
      /\ s_buttons'[b].long_press_fired <=>
            Long \/ (s_buttons[b].long_press_fired /\ ~PressedNow)
    BY PollEffect
<1>3. /\ episode'[b] \in Episode
      /\ episode'[b].run = Run
      /\ episode'[b].pressed <=>
            episode[b].pressed \/ (raw_pressed[b] /\ Run = DEBOUNCE_SAMPLES)
      /\ episode'[b].events = IF Short \/ Long THEN AtMost(episode[b].events + 1, 2)
                              ELSE episode[b].events
      /\ episode'[b].held = episode[b].held
      /\ episode'[b].disturbed = episode[b].disturbed
    BY PollEffect
<1>4. /\ raw_pressed' = raw_pressed /\ now' = now /\ t' = t /\ i' = i + 1
      /\ rested' = rested /\ ~rested
      /\ i < ButtonCount
    BY DEF PollButton, InputInv
<1>5. Settled(b) /\ Follows(b) /\ InPhase(b) /\ HeldSoFar(b) /\ Reported(b)
    BY DEF InputInv, ButtonInv
<1>6. b < i' /\ ~(b < i) /\ Done(b)' /\ ~Done(b)
    BY <1>4 DEF Done, Button
<1>7. Count \in 1 .. DEBOUNCE_SAMPLES /\ Run \in 1 .. DEBOUNCE_SAMPLES
    BY <1>1, Sizes DEF Count, Run, AtMost, ButtonState, Episode
<1>8. Count >= Run
    BY <1>1, <1>5, Sizes DEF Follows, Count, Run, AtMost, ButtonState, Episode
<1>9. ~episode[b].disturbed => Count = Run /\ t = now
    BY <1>1, <1>4, <1>5, Sizes DEF InPhase, Count, Run, AtMost, ButtonState, Episode
<1>10. Settled(b)'
    BY <1>1, <1>2, <1>7 DEF Settled, Changes, ButtonState
<1>11. Follows(b)'
    BY <1>2, <1>3, <1>4, <1>8 DEF Follows
<1>12. InPhase(b)'
    BY <1>2, <1>3, <1>4, <1>9 DEF InPhase
<1>13. UintSub(t, t) = 0
    BY <1>1 DEF UintSub, Millis
<1>14. Threshold[b] \in Nat /\ episode[b].held \in Nat
    BY <1>1, Sizes DEF Episode
<1>15. HeldSoFar(b)'
    <2> SUFFICES ASSUME ~episode[b].disturbed, s_buttons'[b].debounced_pressed
                 PROVE  HeldSoFar(b)'
        BY <1>3 DEF HeldSoFar
    <2>1. Count = Run /\ t = now
        BY <1>9
    <2>2. CASE PressedNow
        <3>1. Run = DEBOUNCE_SAMPLES /\ raw_pressed[b] /\ ~s_buttons[b].debounced_pressed
            <4>1. Run = DEBOUNCE_SAMPLES
                BY <1>7, <2>1, <2>2, Sizes DEF PressedNow, Changes
            <4>2. s_buttons[b].debounced_pressed \in BOOLEAN
                BY <1>1, ButtonFields
            <4>3. QED
                BY <2>2, <4>1, <4>2 DEF PressedNow, Changes
        <3>2. episode[b].events = 0 /\ episode[b].held = 0
            BY <1>5, <1>6, <3>1 DEF Reported
        <3>3. ~Short /\ (Long <=> 0 >= Threshold[b])
            BY <2>2, <1>13 DEF Short, ReleasedNow, Long, PressedNow
        <3>4. UintSub(now', s_buttons'[b].press_start_ms) = 0
            BY <1>2, <1>4, <1>13, <2>1, <2>2
        <3>5. QED
            BY <1>2, <1>3, <1>14, <2>2, <3>1, <3>2, <3>3, <3>4 DEF HeldSoFar, AtMost
    <2>3. CASE ~PressedNow
        <3>1. ~Changes /\ s_buttons[b].debounced_pressed
            BY <1>2, <2>3 DEF PressedNow
        <3>2. ~Short
            BY <3>1 DEF Short, ReleasedNow
        <3>3. CASE s_buttons[b].long_press_fired
            <4>1. ~Long
                BY <2>3, <3>1, <3>3 DEF Long
            <4>2. QED
                BY <1>2, <1>3, <1>5, <2>3, <3>1, <3>2, <3>3, <4>1 DEF HeldSoFar
        <3>4. CASE ~s_buttons[b].long_press_fired
            <4>1. /\ episode[b].pressed /\ episode[b].events = 0
                  /\ UintSub(t, s_buttons[b].press_start_ms) = episode[b].held
                  /\ episode[b].held <= Threshold[b]
                BY <1>5, <2>1, <3>1, <3>4 DEF HeldSoFar
            <4>2. Long <=> episode[b].held >= Threshold[b]
                BY <2>3, <3>1, <3>4, <4>1 DEF Long
            <4>3. QED
                BY <1>2, <1>3, <1>4, <1>14, <2>1, <2>3, <3>1, <3>2, <3>4, <4>1, <4>2
                    DEF HeldSoFar, AtMost
        <3>5. QED
            BY <3>3, <3>4
    <2>4. QED
        BY <2>2, <2>3
<1>16. Reported(b)'
    <2> SUFFICES ASSUME ~episode[b].disturbed, ~s_buttons'[b].debounced_pressed
                 PROVE  Reported(b)'
        BY <1>3 DEF Reported
    <2>1. Count = Run
        BY <1>9
    <2>2. ~Long /\ ~PressedNow
        BY <1>2 DEF Long, PressedNow
    <2>3. CASE ReleasedNow
        <3>1. Run = DEBOUNCE_SAMPLES /\ ~raw_pressed[b] /\ s_buttons[b].debounced_pressed
            BY <1>1, <1>7, <2>1, <2>3, Sizes DEF ReleasedNow, Changes, ButtonState
        <3>2. episode[b].pressed /\ episode[b].events =
                  IF s_buttons[b].long_press_fired THEN 1 ELSE 0
            BY <1>5, <3>1 DEF HeldSoFar
        <3>3. Short <=> ~s_buttons[b].long_press_fired
            BY <2>3 DEF Short
        <3>4. QED
            BY <1>3, <1>4, <1>6, <2>2, <3>1, <3>2, <3>3 DEF Reported, AtMost
    <2>4. CASE ~ReleasedNow
        <3>1. ~Changes /\ ~s_buttons[b].debounced_pressed /\ ~Short
            BY <1>2, <2>2, <2>4 DEF ReleasedNow, PressedNow, Short
        <3>2. ~episode[b].pressed /\ episode[b].events = 0 /\ episode[b].held = 0
            BY <1>5, <1>6, <3>1 DEF Reported
        <3>3. ~(raw_pressed[b] /\ Run = DEBOUNCE_SAMPLES)
            BY <1>1, <1>7, <2>1, <3>1 DEF Changes, ButtonState
        <3>4. QED
            BY <1>3, <2>2, <3>1, <3>2, <3>3 DEF Reported
    <2>5. QED
        BY <2>3, <2>4
<1>17. QED
    BY <1>10, <1>11, <1>12, <1>15, <1>16, PolledObserved DEF ButtonInv

(* A unit of time passes while the task sleeps. *)
LEMMA SleepInv ==
    ASSUME TypeOK, InputInv, AdvanceClock, callback = NoEvent, NEW b \in Button
    PROVE  ButtonInv(b)'
<1> DEFINE released == ~raw_pressed[b] /\ episode[b].run = DEBOUNCE_SAMPLES
           down == episode[b].pressed /\ ~released
<1>1. /\ s_buttons[b] \in ButtonState
      /\ episode[b] \in Episode
      /\ raw_pressed[b] \in BOOLEAN
      /\ raw_pressed'[b] \in BOOLEAN
      /\ now \in Millis
    BY DEF TypeOK, AdvanceClock
<1>2. /\ i = ButtonCount /\ ~rested /\ rested'
      /\ s_buttons' = s_buttons /\ i' = i
      /\ now' = IF now = ClockModulus - 1 THEN 0 ELSE now + 1
    BY DEF AdvanceClock
<1>3. /\ episode'[b].run = IF raw_pressed'[b] # raw_pressed[b] THEN 0 ELSE episode[b].run
      /\ episode'[b].pressed <=> down
      /\ episode'[b].held = IF down THEN AtMost(episode[b].held + 1, MaxHeld) ELSE 0
      /\ episode'[b].events = IF released THEN 0 ELSE episode[b].events
      /\ episode'[b].disturbed <=> episode[b].disturbed /\ ~released
    BY <1>1 DEF AdvanceClock, Elapsed
<1>4. Done(b) /\ ~Done(b)'
    BY <1>2, Sizes DEF Done, Button
<1>5. Settled(b) /\ Follows(b) /\ InPhase(b) /\ HeldSoFar(b) /\ Reported(b)
    BY DEF InputInv, ButtonInv
<1>6. Settled(b)'
    BY <1>2, <1>5 DEF Settled
<1>7. Follows(b)'
    BY <1>2, <1>3, <1>5 DEF Follows
<1>8. released => /\ s_buttons[b].candidate_pressed = raw_pressed[b]
                  /\ s_buttons[b].raw_count = DEBOUNCE_SAMPLES
                  /\ ~s_buttons[b].debounced_pressed
    BY <1>1, <1>5, Sizes DEF Follows, Settled, ButtonState
<1>9. InPhase(b)'
    <2> SUFFICES ASSUME ~episode'[b].disturbed
                 PROVE  InPhase(b)'
        BY DEF InPhase
    <2>1. /\ s_buttons[b].candidate_pressed = raw_pressed[b]
          /\ s_buttons[b].raw_count = episode[b].run
        BY <1>3, <1>4, <1>5, <1>8 DEF InPhase
    <2>2. QED
        BY <1>2, <1>3, <1>4, <2>1, Sizes DEF InPhase
<1>10. HeldSoFar(b)'
    <2> SUFFICES ASSUME ~episode'[b].disturbed, s_buttons[b].debounced_pressed
                 PROVE  HeldSoFar(b)'
        BY <1>2 DEF HeldSoFar
    <2>1. ~released /\ ~episode[b].disturbed
        BY <1>3, <1>8
    <2>2. episode[b].pressed
        BY <1>5, <2>1 DEF HeldSoFar
    <2>3. /\ episode'[b].pressed
          /\ episode'[b].held = AtMost(episode[b].held + 1, MaxHeld)
          /\ episode'[b].events = episode[b].events
        BY <1>3, <2>1, <2>2
    <2>4. /\ Threshold[b] \in 0 .. ClockModulus - 1 /\ Threshold[b] <= MaxHeld
          /\ episode[b].held \in 0 .. MaxHeld /\ MaxHeld \in Nat
        BY <1>1, Sizes DEF Episode
    <2>5. CASE s_buttons[b].long_press_fired
        BY <1>2, <1>5, <2>1, <2>3, <2>4, <2>5 DEF HeldSoFar, AtMost
    <2>6. CASE ~s_buttons[b].long_press_fired
        <3>1. /\ episode[b].events = 0
              /\ UintSub(now, s_buttons[b].press_start_ms) = episode[b].held
              /\ episode[b].held < Threshold[b]
            BY <1>4, <1>5, <2>1, <2>6 DEF HeldSoFar
        <3>2. /\ episode'[b].held = episode[b].held + 1
              /\ episode[b].held + 1 < ClockModulus
              /\ episode[b].held + 1 <= Threshold[b]
            BY <2>3, <2>4, <3>1, Sizes DEF AtMost
        <3>3. UintSub(now', s_buttons[b].press_start_ms) = episode[b].held + 1
            <4>1. s_buttons[b].press_start_ms \in Millis /\ episode[b].held \in Nat
                BY <1>1, <2>4 DEF ButtonState
            <4>2. QED
                BY <1>1, <1>2, <3>1, <3>2, <4>1, UintSubNext
        <3>4. QED
            BY <1>2, <1>4, <2>3, <2>6, <3>1, <3>2, <3>3 DEF HeldSoFar
    <2>7. QED
        BY <2>5, <2>6
<1>11. Reported(b)'
    <2> SUFFICES ASSUME ~episode'[b].disturbed, ~s_buttons[b].debounced_pressed
                 PROVE  Reported(b)'
        BY <1>2 DEF Reported
    <2>1. CASE released
        BY <1>3, <2>1 DEF Reported
    <2>2. CASE ~released
        <3>1. ~episode[b].disturbed
            BY <1>3, <2>2
        <3>2. ~episode[b].pressed /\ episode[b].events = 0
            BY <1>5, <2>2, <3>1 DEF Reported
        <3>3. QED
            BY <1>3, <2>2, <3>2 DEF Reported
    <2>3. QED
        BY <2>1, <2>2
<1>13. Observed(b)'
    BY <1>2 DEF AdvanceClock, InputInv, ButtonInv, Observed
<1>12. QED
    BY <1>6, <1>7, <1>9, <1>10, <1>11, <1>13 DEF ButtonInv

(* A unit of time passes while a callback blocks: all buttons are disturbed. *)
LEMMA StallInv ==
    ASSUME TypeOK, InputInv, AdvanceClock, callback # NoEvent, NEW b \in Button
    PROVE  ButtonInv(b)'
<1>1. episode'[b].run = 0 /\ episode'[b].disturbed
    BY DEF AdvanceClock, Elapsed
<1>2. s_buttons' = s_buttons /\ seen' = seen
    BY DEF AdvanceClock
<1>3. QED
    BY <1>1, <1>2
        DEF InputInv, ButtonInv, Settled, Follows, InPhase, HeldSoFar, Reported, Observed

LEMMA InvStep == TypeOK /\ InputInv /\ [Next]_vars => InputInv'
<1> SUFFICES ASSUME TypeOK, InputInv, [Next]_vars PROVE InputInv'
    OBVIOUS
<1>1. CASE StartPass
    <2>1. ASSUME NEW b \in Button PROVE ButtonInv(b)'
        <3>1. /\ i' = 0 /\ t' = now /\ rested
              /\ UNCHANGED <<s_buttons, now, raw_pressed, episode, seen>>
            BY <1>1 DEF StartPass
        <3>2. ~Done(b) /\ ~Done(b)'
            BY <3>1 DEF Done, Button
        <3>3. Settled(b)' /\ Follows(b)'
            BY <3>1 DEF InputInv, ButtonInv, Settled, Follows
        <3>8. Observed(b)'
            BY <3>1 DEF InputInv, ButtonInv, Observed
        <3>4. InPhase(b)'
            BY <3>1, <3>2 DEF InputInv, ButtonInv, InPhase
        <3>5. HeldSoFar(b)'
            BY <3>1, <3>2 DEF InputInv, ButtonInv, HeldSoFar
        <3>6. Reported(b)'
            BY <3>1, <3>2 DEF InputInv, ButtonInv, Reported
        <3>7. QED
            BY <3>3, <3>4, <3>5, <3>6, <3>8 DEF ButtonInv
    <2>2. ~rested'
        BY <1>1 DEF StartPass
    <2>3. QED
        BY <2>1, <2>2 DEF InputInv
<1>2. CASE PollButton
    <2>1. i \in Int /\ i < ButtonCount /\ i' = i + 1 /\ rested' = rested
        BY <1>2 DEF PollButton, TypeOK
    <2>2. ASSUME NEW b \in Button, b # i PROVE ButtonInv(b)'
        <3>1. /\ s_buttons'[b] = s_buttons[b] /\ episode'[b] = episode[b]
              /\ seen'[b] = seen[b]
            BY <1>2, <2>2, PollEffect DEF TypeOK
        <3>2. raw_pressed' = raw_pressed /\ now' = now /\ t' = t
            BY <1>2 DEF PollButton
        <3>3. Done(b)' <=> Done(b)
            BY <2>1, <2>2 DEF Done, Button
        <3>4. InPhase(b)'
            BY <2>1, <3>1, <3>2, <3>3, Sizes DEF InputInv, ButtonInv, InPhase
        <3>5. Settled(b)' /\ Follows(b)'
            BY <3>1, <3>2 DEF InputInv, ButtonInv, Settled, Follows
        <3>6. HeldSoFar(b)' /\ Reported(b)'
            BY <3>1, <3>2, <3>3 DEF InputInv, ButtonInv, HeldSoFar, Reported
        <3>7. Observed(b)'
            BY <3>1 DEF InputInv, ButtonInv, Observed
        <3>8. QED
            BY <3>4, <3>5, <3>6, <3>7 DEF ButtonInv
    <2>3. \A b \in Button : ButtonInv(b)'
        BY <1>2, <2>2, PolledInv
    <2>4. ~rested'
        BY <2>1 DEF InputInv
    <2>5. QED
        BY <2>3, <2>4 DEF InputInv
<1>3. CASE CallbackReturns \/ UNCHANGED vars
    BY <1>3 DEF CallbackReturns, vars, InputInv, ButtonInv, Settled, Follows, InPhase,
        HeldSoFar, Reported, Observed, Done
<1>4. CASE AdvanceClock
    <2>1. \A b \in Button : ButtonInv(b)'
        BY <1>4, SleepInv, StallInv
    <2>2. i' < ButtonCount => ~rested'
        BY <1>4 DEF AdvanceClock, InputInv, TypeOK
    <2>3. QED
        BY <2>1, <2>2 DEF InputInv
<1>5. QED
    BY <1>1, <1>2, <1>3, <1>4 DEF Next

-------------------------------------------------------------------------------
(* The properties *)

LEMMA Inductive == Spec => [](TypeOK /\ InputInv)
<1>1. Init => TypeOK /\ InputInv
    BY TypeInit, InvInit
<1>2. TypeOK /\ InputInv /\ [Next]_vars => (TypeOK /\ InputInv)'
    BY TypeStep, InvStep
<1>3. QED
    BY <1>1, <1>2, PTL DEF Spec

(* When a pass is over, every undisturbed switch has reported exactly what  *)
(* its history calls for, for any thresholds and any debounce window.       *)
THEOREM PressesReported == Spec => []PressesAreReportedOnce
<1>1. TypeOK /\ InputInv => PressesAreReportedOnce
    <2> SUFFICES ASSUME TypeOK, InputInv, PassDone, NEW b \in Button,
                        ~episode[b].disturbed
                 PROVE  episode[b].events =
                            IF /\ episode[b].pressed
                               /\ \/ episode[b].held >= Threshold[b]
                                  \/ ~raw_pressed[b] /\ episode[b].run = DEBOUNCE_SAMPLES
                            THEN 1 ELSE 0
        BY DEF PressesAreReportedOnce
    <2>1. Done(b)
        BY Sizes DEF PassDone, Done, Button
    <2>2. Settled(b) /\ Follows(b) /\ HeldSoFar(b) /\ Reported(b)
        BY DEF InputInv, ButtonInv
    <2>3. s_buttons[b] \in ButtonState /\ episode[b] \in Episode
        BY DEF TypeOK
    <2>4. CASE s_buttons[b].debounced_pressed
        <3>1. ~(~raw_pressed[b] /\ episode[b].run = DEBOUNCE_SAMPLES)
            <4>1. SUFFICES ASSUME ~raw_pressed[b], episode[b].run = DEBOUNCE_SAMPLES
                           PROVE  FALSE
                OBVIOUS
            <4>2. /\ s_buttons[b].candidate_pressed = raw_pressed[b]
                  /\ s_buttons[b].raw_count >= DEBOUNCE_SAMPLES
                BY <2>2, <4>1, Sizes DEF Follows
            <4>3. s_buttons[b].raw_count = DEBOUNCE_SAMPLES
                BY <2>3, <4>2, Sizes, ButtonFields
            <4>4. QED
                BY <2>2, <2>4, <4>1, <4>2, <4>3 DEF Settled
        <3>2. /\ episode[b].pressed
              /\ s_buttons[b].long_press_fired =>
                    episode[b].events = 1 /\ episode[b].held >= Threshold[b]
              /\ ~s_buttons[b].long_press_fired =>
                    episode[b].events = 0 /\ episode[b].held < Threshold[b]
            BY <2>1, <2>2, <2>4 DEF HeldSoFar
        <3>3. episode[b].held \in Nat /\ Threshold[b] \in Nat
            BY <2>3, Sizes DEF Episode
        <3>4. QED
            BY <3>1, <3>2, <3>3
    <2>5. CASE ~s_buttons[b].debounced_pressed
        BY <2>2, <2>5 DEF Reported
    <2>6. QED
        BY <2>4, <2>5
<1>2. QED
    BY <1>1, Inductive, PTL

(* A long press means that the switch has been held for its threshold.      *)
THEOREM LongPressesAreLong == Spec => LongMeansHeld
<1>1. TypeOK /\ InputInv /\ [Next]_vars =>
          [\A b \in Button :
              callback = NoEvent /\ callback' = [fs |-> b, press |-> "long"] =>
                  episode[b].disturbed \/ episode[b].held >= Threshold[b]]_vars
    <2> SUFFICES ASSUME TypeOK, InputInv, Next, NEW b \in Button,
                        callback = NoEvent, callback' = [fs |-> b, press |-> "long"],
                        ~episode[b].disturbed
                 PROVE  episode[b].held >= Threshold[b]
        OBVIOUS
    <2>1. callback' # NoEvent
        BY Sizes DEF NoEvent, Button
    <2>2. PollButton
        BY <2>1 DEF Next, StartPass, CallbackReturns, AdvanceClock
    <2>3. b = i /\ Long
        BY <2>1, <2>2, PollEffect
    <2>4. t = now /\ ~Done(b)
        <3>1. i < ButtonCount
            BY <2>2 DEF PollButton
        <3>2. QED
            BY <2>3, <3>1 DEF InputInv, ButtonInv, InPhase, Done, TypeOK
    <2>5. /\ episode[b].held \in Nat /\ Threshold[b] \in Nat /\ t \in Millis
          /\ s_buttons[b] \in ButtonState /\ raw_pressed[b] \in BOOLEAN
        BY Sizes DEF TypeOK, Episode
    <2>6. CASE PressedNow
        <3>1. UintSub(t, t) = 0
            BY <2>5 DEF UintSub, Millis
        <3>2. 0 >= Threshold[b]
            BY <2>3, <2>6, <3>1 DEF Long, PressedNow
        <3>3. QED
            BY <2>5, <3>2
    <2>7. CASE ~PressedNow
        BY <2>3, <2>4, <2>7 DEF Long, InputInv, ButtonInv, HeldSoFar
    <2>8. QED
        BY <2>6, <2>7
<1>2. QED
    BY <1>1, Inductive, PTL DEF Spec, LongMeansHeld

(* No press is lost, counts twice or repeats, whatever callbacks block, for  *)
(* any debounce window and any thresholds: the debouncer counts the samples *)
(* that a press is judged by, and the flag of the long press is what has     *)
(* been reported of it.                                                      *)
THEOREM PressesCountOnce == Spec => []EveryPressCountsOnce
<1>1. TypeOK /\ InputInv => EveryPressCountsOnce
    <2> SUFFICES ASSUME TypeOK, InputInv, NEW b \in Button
                 PROVE  /\ seen[b].events <= IF seen[b].pressed THEN 1 ELSE 0
                        /\ /\ seen[b].pressed
                           /\ ~seen[b].level /\ seen[b].run = DEBOUNCE_SAMPLES
                           => seen[b].events = 1
        BY DEF EveryPressCountsOnce
    <2>1. Settled(b) /\ Observed(b) /\ s_buttons[b] \in ButtonState
        BY DEF TypeOK, InputInv, ButtonInv
    <2>2. CASE s_buttons[b].debounced_pressed
        <3>1. seen[b].pressed /\ seen[b].events \in {0, 1}
            BY <2>1, <2>2 DEF Observed
        <3>2. ~(~seen[b].level /\ seen[b].run = DEBOUNCE_SAMPLES)
            <4>1. /\ seen[b].level = s_buttons[b].candidate_pressed
                  /\ seen[b].run = s_buttons[b].raw_count
                BY <2>1 DEF Observed
            <4>2. /\ s_buttons[b].raw_count = DEBOUNCE_SAMPLES =>
                        s_buttons[b].debounced_pressed = s_buttons[b].candidate_pressed
                BY <2>1 DEF Settled
            <4>3. QED
                BY <2>2, <4>1, <4>2
        <3>3. QED
            BY <3>1, <3>2
    <2>3. CASE ~s_buttons[b].debounced_pressed
        BY <2>1, <2>3 DEF Observed
    <2>4. QED
        BY <2>2, <2>3
<1>2. QED
    BY <1>1, Inductive, PTL
===============================================================================
