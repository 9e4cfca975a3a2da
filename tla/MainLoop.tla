------------------------------ MODULE MainLoop ------------------------------
(***************************************************************************)
(* The main loop of src/source/main.cpp and the VBlank interrupt, 60 times *)
(* a second, which counts time, samples the keys and draws one of the two  *)
(* screens in turn.  The loop takes one simulation step and handles the    *)
(* sampled keys; both may take longer than a frame.  What the callbacks do *)
(* to the scene is in PocketPhysics.tla; here they start and stop the      *)
(* simulation, switch the window frame, or save, which takes a screenshot. *)
(***************************************************************************)
EXTENDS Naturals

CONSTANT MAX_LAG    \* bound of the model: the counter stops at this many frames

ASSUME LagAssumption == MAX_LAG \in Nat /\ MAX_LAG >= 2

VARIABLES
  at,                     \* where the main loop is
  simulating,             \* state.simulating
  accumulated_timesteps,
  due,                    \* its value when the loop cleared it
  steps,                  \* simulation steps of this turn of the loop
  handled,                \* how often handleInput saw the newest sample of the keys
  top,                    \* ulGetMainLcd: 3D is shown on the top screen now
  draw_window,            \* Canvas::draw_window: the frame on the top screen
  saved_window,           \* draw_window_tmp of b64screenshot
  waits,                  \* loops of b64screenshot left behind
  submitted,              \* the window is in the picture handed to the 3D hardware,
  shown,                  \* in the picture on the top screen,
  captured,               \* in the last one captured completely
  capturing               \* bit 31 of REG_DISPCAPCNT: a capture was ordered and is not over

loop   == <<at, due, steps>>
shot   == <<saved_window, waits>>
screen == <<top, submitted, shown, captured, capturing>>
vars   == <<loop, simulating, accumulated_timesteps, handled, draw_window, shot, screen>>

\* main() up to the loop, after the interrupt was set up
Init ==
  /\ at = "top" /\ due = 0 /\ steps = 0
  /\ simulating = FALSE /\ accumulated_timesteps = 0 /\ handled = 0
  /\ draw_window = TRUE /\ saved_window = TRUE /\ waits = 0
  /\ top \in BOOLEAN /\ submitted = TRUE /\ shown = TRUE /\ captured = TRUE
  /\ capturing = FALSE
-----------------------------------------------------------------------------
(***************************************************************************)
(* VBlankHandler: mearureFps counts the frame, updateInput takes a sample  *)
(* of the keys, draw orders a capture of the next picture, swaps the       *)
(* screens and submits the picture of the one that 3D is not shown on; it  *)
(* is shown after the next swap.  A call of swiWaitForVBlank ends.  The    *)
(* hardware finishes a capture with its last line, before the interrupt.   *)
(***************************************************************************)
Longer(n) == IF n < MAX_LAG THEN n + 1 ELSE n

\* Seeded fault: the screens are not swapped while the window is hidden.
VBlankStays ==
  /\ ~ capturing /\ capturing' = TRUE
  /\ accumulated_timesteps' = IF simulating THEN Longer(accumulated_timesteps)
                              ELSE accumulated_timesteps
  /\ handled' = 0
  /\ top' = IF draw_window THEN ~ top ELSE top
  /\ IF top' THEN shown' = submitted /\ UNCHANGED submitted
             ELSE submitted' = draw_window /\ UNCHANGED shown
  /\ \/ at = "asleep"      /\ at' = "clear"
     \/ at = "asleep_idle" /\ at' = "input"
     \/ at \notin {"asleep", "asleep_idle"} /\ at' = at
  /\ UNCHANGED <<due, steps, simulating, draw_window, shot, captured>>

VBlank ==
  /\ ~ capturing /\ capturing' = TRUE
  /\ accumulated_timesteps' = IF simulating THEN Longer(accumulated_timesteps)
                              ELSE accumulated_timesteps
  /\ handled' = 0
  /\ top' = ~ top
  /\ IF top' THEN shown' = submitted /\ UNCHANGED submitted
             ELSE submitted' = draw_window /\ UNCHANGED shown
  /\ \/ at = "asleep"      /\ at' = "clear"
     \/ at = "asleep_idle" /\ at' = "input"
     \/ at \notin {"asleep", "asleep_idle"} /\ at' = at
  /\ UNCHANGED <<due, steps, simulating, draw_window, shot, captured>>

\* The hardware has captured the last line of the picture that 3D is shown in.
CaptureDone ==
  /\ capturing /\ capturing' = FALSE
  /\ captured' = IF top THEN shown ELSE captured
  /\ UNCHANGED <<loop, simulating, accumulated_timesteps, handled, draw_window, shot,
                 top, submitted, shown>>

\* Seeded fault: the loop does not wait for time to pass.
TurnAtOnce ==
  /\ at = "top"
  /\ at' = IF simulating THEN "clear" ELSE "sleep_idle"
  /\ due' = 0 /\ steps' = 0
  /\ UNCHANGED <<simulating, accumulated_timesteps, handled, draw_window, shot, screen>>

\* Seeded fault: the loop polls the counter, also in pause.
TurnUntilFrame ==
  /\ at = "top"
  /\ at' = IF accumulated_timesteps < 1 THEN "top" ELSE IF simulating THEN "clear" ELSE "input"
  /\ due' = 0 /\ steps' = 0
  /\ UNCHANGED <<simulating, accumulated_timesteps, handled, draw_window, shot, screen>>

\* The tests in front of swiWaitForVBlank
Turn ==
  /\ at = "top"
  /\ at' = IF ~ simulating THEN "sleep_idle"
           ELSE IF accumulated_timesteps < 1 THEN "sleep" ELSE "clear"
  /\ due' = 0 /\ steps' = 0
  /\ UNCHANGED <<simulating, accumulated_timesteps, handled, draw_window, shot, screen>>

\* swiWaitForVBlank begins: it waits for an interrupt that comes after the call
Sleep ==
  /\ \/ at = "sleep"      /\ at' = "asleep"
     \/ at = "sleep_idle" /\ at' = "asleep_idle"
  /\ UNCHANGED <<due, steps, simulating, accumulated_timesteps, handled, draw_window,
                 shot, screen>>

\* Seeded fault: the counter counts down instead of being cleared.
ClearOne ==
  /\ at = "clear"
  /\ due' = accumulated_timesteps
  /\ accumulated_timesteps' = IF accumulated_timesteps > 0 THEN accumulated_timesteps - 1 ELSE 0
  /\ at' = "step"
  /\ UNCHANGED <<steps, simulating, handled, draw_window, shot, screen>>

\* accumulated_timesteps = 0
ClearTimesteps ==
  /\ at = "clear"
  /\ due' = accumulated_timesteps
  /\ accumulated_timesteps' = 0
  /\ at' = "step"
  /\ UNCHANGED <<steps, simulating, handled, draw_window, shot, screen>>

\* World::step
Step ==
  /\ at = "step"
  /\ steps' = steps + 1
  /\ at' = "input"
  /\ UNCHANGED <<due, simulating, accumulated_timesteps, handled, draw_window, shot, screen>>

(***************************************************************************)
(* handleInput reads the newest sample: SELECT may switch the window, and  *)
(* the same sample may make a widget call a callback.                      *)
(***************************************************************************)
HandleInput(goes_on, sim) ==
  /\ at = "input"
  /\ handled' = handled + 1
  /\ at' = goes_on /\ simulating' = sim
  /\ UNCHANGED <<due, steps, accumulated_timesteps, screen>>

AfterSelect == {draw_window, ~ draw_window}

NoCallback  == HandleInput("top", simulating) /\ draw_window' \in AfterSelect /\ UNCHANGED shot
PlayOrPause == HandleInput("top", ~ simulating) /\ draw_window' \in AfterSelect /\ UNCHANGED shot

\* b64screenshot hides the window ...
Save ==
  /\ HandleInput("screenshot", simulating)
  /\ saved_window' \in AfterSelect /\ draw_window' = FALSE /\ waits' = 0

\* Seeded fault: one wait for each of the screens.
PollTwice ==
  /\ at = "screenshot" /\ waits < 2
  /\ waits = 0 <=> top
  /\ waits' = waits + 1
  /\ at' = IF waits' = 2 THEN "capture" ELSE at
  /\ UNCHANGED <<due, steps, simulating, accumulated_timesteps, handled, draw_window,
                 saved_window, screen>>

\* ... waits until 3D is on the top screen, on the bottom, and both once more ...
Poll ==
  /\ at = "screenshot" /\ waits < 4
  /\ waits \in {0, 2} <=> top
  /\ waits' = waits + 1
  /\ at' = IF waits' = 4 THEN "capture" ELSE at
  /\ UNCHANGED <<due, steps, simulating, accumulated_timesteps, handled, draw_window,
                 saved_window, screen>>

\* ... and until no capture is going on, ...
PollCapture ==
  /\ at = "capture" /\ ~ capturing
  /\ at' = "copy"
  /\ UNCHANGED <<due, steps, simulating, accumulated_timesteps, handled, draw_window,
                 shot, screen>>

\* ... copies the captured picture and shows the window again if it was shown.
Copy ==
  /\ at = "copy"
  /\ draw_window' = saved_window
  /\ at' = "top"
  /\ UNCHANGED <<due, steps, simulating, accumulated_timesteps, handled, shot, screen>>

Next ==
  \/ CaptureDone \/ VBlank
  \/ Turn \/ Sleep \/ ClearTimesteps \/ Step
  \/ NoCallback \/ PlayOrPause \/ Save
  \/ Poll \/ PollCapture \/ Copy

(***************************************************************************)
(* The hardware goes on interrupting and the loop goes on running.  Poll   *)
(* reads a bit that lasts for a frame thousands of times in that frame, so *)
(* it does not miss the value it waits for for ever: strong fairness.      *)
(* PollCapture waits for a bit that is clear only between the last line of *)
(* a picture and the interrupt, and can miss that every time.              *)
(***************************************************************************)
Fairness ==
  /\ WF_vars(CaptureDone) /\ WF_vars(VBlank)
  /\ WF_vars(Turn) /\ WF_vars(Sleep) /\ WF_vars(ClearTimesteps) /\ WF_vars(Step)
  /\ WF_vars(NoCallback \/ PlayOrPause \/ Save)
  /\ SF_vars(Poll) /\ WF_vars(PollCapture) /\ WF_vars(Copy)

Spec == Init /\ [][Next]_vars /\ Fairness
-----------------------------------------------------------------------------
CountersOK ==
  /\ at \in {"top", "sleep", "sleep_idle", "asleep", "asleep_idle", "clear", "step", "input",
             "screenshot", "capture", "copy"}
  /\ accumulated_timesteps \in 0..MAX_LAG /\ due \in 0..MAX_LAG
  /\ steps \in 0..1 /\ handled \in Nat /\ waits \in 0..4

FlagsOK ==
  /\ simulating \in BOOLEAN /\ draw_window \in BOOLEAN /\ saved_window \in BOOLEAN
  /\ top \in BOOLEAN /\ submitted \in BOOLEAN /\ shown \in BOOLEAN /\ captured \in BOOLEAN
  /\ capturing \in BOOLEAN

TypeOK == CountersOK /\ FlagsOK

(***************************************************************************)
(* Simulated time never runs ahead: a turn of the loop that simulates has  *)
(* a frame to account for, however interrupts and button presses meet the  *)
(* test, the wait and the reset of the counter.                            *)
(***************************************************************************)
StepNeedsFrame == at = "clear" => simulating /\ accumulated_timesteps >= 1

(***************************************************************************)
(* A sample of the keys is handled once in pause, where the loop waits for *)
(* the next one.  A step that an interrupt hits makes the next turn follow *)
(* without a wait and handle the same keys again, but never a third time.  *)
(***************************************************************************)
HandledTwiceAtMost ==
  /\ handled <= 2
  /\ at = "input" /\ ~ simulating => handled = 0

(***************************************************************************)
(* The screenshot shows the scene without the window: the picture that is  *)
(* copied was drawn, shown and captured after b64screenshot hid it.        *)
(***************************************************************************)
WindowNotCaptured == at = "copy" => ~ captured

(***************************************************************************)
(* The interrupt cannot starve a turn of the loop: keys are read again and *)
(* again, and the simulation goes on until it is stopped.  The one place   *)
(* where it can keep the loop for ever is the last wait of b64screenshot,  *)
(* for a bit that the interrupt itself sets again.                         *)
(***************************************************************************)
KeysAreRead    == []<>(at = "input") \/ <>[](at = "capture")
SimulationRuns == simulating ~> (at = "step" \/ ~ simulating \/ [](at = "capture"))

\* The four waits of b64screenshot for the swapped screens end, in whatever
\* phase of the display it was called.
SwapsAreSeen == at = "screenshot" ~> at = "capture"
=============================================================================
