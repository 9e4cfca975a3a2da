--------------------------- MODULE MainLoop_proofs ---------------------------
(***************************************************************************)
(* The safety properties of MainLoop, for every bound of its counter.      *)
(***************************************************************************)
EXTENDS MainLoop, TLAPS

(***************************************************************************)
(* The loop is in the branch for a running simulation, and it got past the *)
(* wait because there is a frame.                                          *)
(***************************************************************************)
Branch ==
  /\ at \in {"sleep", "asleep", "clear", "step"} => simulating
  /\ at = "clear" => accumulated_timesteps >= 1
  /\ at \in {"sleep", "asleep", "clear", "step"} => steps = 0

(***************************************************************************)
(* Why a sample is not handled a third time: the second turn cleared the   *)
(* counter after the frame of the sample, and now waits for the next one.  *)
(***************************************************************************)
Samples ==
  /\ handled <= 2
  /\ handled = 2 => accumulated_timesteps = 0
  /\ at \in {"clear", "step", "input"} => handled <= 1
  /\ at \in {"step", "input"} /\ handled = 1 => accumulated_timesteps = 0
  /\ at = "input" /\ ~ simulating => handled = 0

(***************************************************************************)
(* How far the hidden window has left the pictures: after the second wait  *)
(* it is not submitted, after the third not shown, at last not captured.   *)
(* A swap follows a whole capture, so the hidden window cannot stay in the *)
(* captured picture after the third wait.  The last wait changes nothing.  *)
(***************************************************************************)
Hidden ==
  at \in {"screenshot", "capture", "copy"} =>
    /\ ~ draw_window
    /\ waits >= 1 => top \/ ~ submitted
    /\ waits >= 2 => ~ submitted /\ (top => ~ shown /\ (capturing \/ ~ captured))
    /\ waits >= 3 => ~ shown /\ (top \/ ~ captured)
    /\ waits >= 4 => ~ captured
    /\ at # "screenshot" => waits = 4

IInv == TypeOK /\ Branch /\ Samples /\ Hidden

\* The invariant holds when the loop is entered.
LEMMA InitIInv == Init => IInv
<1> SUFFICES ASSUME Init PROVE IInv
  OBVIOUS
<1>1. CountersOK
  BY LagAssumption DEF Init, CountersOK
<1>2. FlagsOK
  BY DEF Init, FlagsOK
<1>3. Branch /\ Samples /\ Hidden
  BY DEF Init, Branch, Samples, Hidden
<1>. QED BY <1>1, <1>2, <1>3 DEF IInv, TypeOK

\* VBlankHandler keeps it, wherever it interrupts the loop.
LEMMA VBlankIInv == IInv /\ VBlank => IInv'
<1> SUFFICES ASSUME IInv, VBlank PROVE IInv'
  OBVIOUS
<1> USE DEF IInv, TypeOK
<1>1. CountersOK'
  BY LagAssumption DEF CountersOK, VBlank, Longer, shot
<1>2. FlagsOK'
  BY DEF FlagsOK, VBlank, shot
<1>3. Branch'
  BY LagAssumption DEF CountersOK, Branch, VBlank, Longer, shot
<1>4. Samples'
  BY DEF Samples, VBlank, shot
<1>5. Hidden'
  BY DEF CountersOK, FlagsOK, Hidden, VBlank, shot
<1>. QED BY <1>1, <1>2, <1>3, <1>4, <1>5

\* So does the end of a capture.
LEMMA CaptureIInv == IInv /\ CaptureDone => IInv'
<1> SUFFICES ASSUME IInv, CaptureDone PROVE IInv'
  OBVIOUS
<1> USE DEF IInv, TypeOK, CaptureDone, loop, shot
<1>1. CountersOK'
  BY DEF CountersOK
<1>2. FlagsOK'
  BY DEF FlagsOK
<1>3. Branch' /\ Samples'
  BY DEF Branch, Samples
<1>4. Hidden'
  BY DEF CountersOK, FlagsOK, Hidden
<1>. QED BY <1>1, <1>2, <1>3, <1>4

\* The statements of main() keep it.
LEMMA LoopIInv == IInv /\ (Turn \/ Sleep \/ ClearTimesteps \/ Step) => IInv'
<1> SUFFICES ASSUME IInv, Turn \/ Sleep \/ ClearTimesteps \/ Step PROVE IInv'
  OBVIOUS
<1> USE DEF IInv, TypeOK
<1>1. CountersOK'
  BY LagAssumption DEF CountersOK, Branch, Turn, Sleep, ClearTimesteps, Step, shot, screen
<1>2. FlagsOK'
  BY DEF FlagsOK, Turn, Sleep, ClearTimesteps, Step, shot, screen
<1>3. Branch'
  BY DEF CountersOK, Branch, Turn, Sleep, ClearTimesteps, Step
<1>4. Samples'
  BY DEF CountersOK, Branch, Samples, Turn, Sleep, ClearTimesteps, Step
<1>5. Hidden'
  BY DEF Hidden, Turn, Sleep, ClearTimesteps, Step, shot, screen
<1>. QED BY <1>1, <1>2, <1>3, <1>4, <1>5

\* handleInput keeps it, whatever callback it calls.
LEMMA InputIInv == IInv /\ (NoCallback \/ PlayOrPause \/ Save) => IInv'
<1> SUFFICES ASSUME IInv, NoCallback \/ PlayOrPause \/ Save PROVE IInv'
  OBVIOUS
<1> USE DEF IInv, TypeOK, HandleInput
<1>1. CountersOK'
  BY DEF CountersOK, NoCallback, PlayOrPause, Save, shot, screen
<1>2. FlagsOK'
  BY DEF FlagsOK, AfterSelect, NoCallback, PlayOrPause, Save, shot, screen
<1>3. Branch'
  BY DEF Branch, NoCallback, PlayOrPause, Save
<1>4. Samples'
  BY DEF CountersOK, Samples, NoCallback, PlayOrPause, Save
<1>5. Hidden'
  BY DEF Hidden, NoCallback, PlayOrPause, Save
<1>. QED BY <1>1, <1>2, <1>3, <1>4, <1>5

\* The waits of b64screenshot keep it.
LEMMA ScreenshotIInv == IInv /\ (Poll \/ PollCapture \/ Copy) => IInv'
<1> SUFFICES ASSUME IInv, Poll \/ PollCapture \/ Copy PROVE IInv'
  OBVIOUS
<1> USE DEF IInv, TypeOK
<1>1. CountersOK'
  BY DEF CountersOK, Poll, PollCapture, Copy, shot, screen
<1>2. FlagsOK'
  BY DEF FlagsOK, Poll, PollCapture, Copy, shot, screen
<1>3. Branch'
  BY DEF Branch, Poll, PollCapture, Copy
<1>4. Samples'
  BY DEF Samples, Poll, PollCapture, Copy
<1>5. Hidden'
  BY DEF CountersOK, FlagsOK, Hidden, Poll, PollCapture, Copy, shot, screen
<1>. QED BY <1>1, <1>2, <1>3, <1>4, <1>5

\* The main loop and the interrupt keep it together.
THEOREM LoopInvariant == Spec => []IInv
<1>1. Init => IInv
  BY InitIInv
<1>2. IInv /\ [Next]_vars => IInv'
  <2> SUFFICES ASSUME IInv, [Next]_vars PROVE IInv'
    OBVIOUS
  <2>1. CASE VBlank
    BY <2>1, VBlankIInv
  <2>2. CASE Turn \/ Sleep \/ ClearTimesteps \/ Step
    BY <2>2, LoopIInv
  <2>3. CASE NoCallback \/ PlayOrPause \/ Save
    BY <2>3, InputIInv
  <2>4. CASE Poll \/ PollCapture \/ Copy
    BY <2>4, ScreenshotIInv
  <2>5. CASE UNCHANGED vars
    BY <2>5 DEF IInv, TypeOK, CountersOK, FlagsOK, Branch, Samples, Hidden, vars, loop, shot, screen
  <2>6. CASE CaptureDone
    BY <2>6, CaptureIInv
  <2>. QED BY <2>1, <2>2, <2>3, <2>4, <2>5, <2>6 DEF Next
<1>. QED BY <1>1, <1>2, PTL DEF Spec

\* The loop's variables keep their types, whatever the bound of the counter.
THEOREM LoopTypeCorrect == Spec => []TypeOK
<1>1. IInv => TypeOK
  BY DEF IInv
<1>. QED BY <1>1, LoopInvariant, PTL

\* A simulation step of the main loop has a frame to account for.
THEOREM StepsFollowFrames == Spec => []StepNeedsFrame
<1>1. IInv => StepNeedsFrame
  BY DEF IInv, Branch, StepNeedsFrame
<1>. QED BY <1>1, LoopInvariant, PTL

\* A sample of the keys is handled at most twice, and once in pause.
THEOREM SamplesHandledTwice == Spec => []HandledTwiceAtMost
<1>1. IInv => HandledTwiceAtMost
  BY DEF IInv, Samples, HandledTwiceAtMost
<1>. QED BY <1>1, LoopInvariant, PTL

\* The picture that b64screenshot copies does not show the window.
THEOREM ScreenshotWithoutWindow == Spec => []WindowNotCaptured
<1>1. IInv => WindowNotCaptured
  BY DEF IInv, Hidden, WindowNotCaptured
<1>. QED BY <1>1, LoopInvariant, PTL
=============================================================================
