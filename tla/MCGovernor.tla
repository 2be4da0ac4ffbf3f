----------------------------- MODULE MCGovernor -----------------------------
(***************************************************************************)
(* Governor with an onlooker that counts what the governor's documentation *)
(* talks about and its own variables do not keep: how many frames a change *)
(* of step took, and how the companions lie among the frames.  Counts stop *)
(* at the lengths they are compared with.                                  *)
(***************************************************************************)
EXTENDS Governor

VARIABLES
    sinceStep,  \* questions since the step last changed
    sinceFloor, \* questions since the floor was last cleared
    steady,     \* questions in a row governed at this step
    gap         \* of those, the ones since the last companion

watch == <<sinceStep, sinceFloor, steady, gap>>

WatchInit ==
    Init /\ sinceStep = 0 /\ sinceFloor = LateFrames + EarlyFrames /\ steady = 0 /\ gap = 0

UpTo(bound, n) == IF n < bound THEN n ELSE bound
Longest == LateFrames + EarlyFrames

WatchAsk ==
    /\ Ask
    /\ sinceStep' = IF step' # step THEN 0 ELSE UpTo(Longest, sinceStep + 1)
    /\ sinceFloor' = IF Clears THEN 1 ELSE UpTo(Longest, sinceFloor + 1)
    /\ steady' = IF Below \/ frameMs = 0 \/ step' # step THEN 0 ELSE UpTo(Steps, steady + 1)
    /\ gap' = IF verdict' THEN 0 ELSE UpTo(Steps, gap + 1)

WatchNext == WatchAsk \/ ((Cadence \/ Measure) /\ UNCHANGED watch)

WatchSpec == WatchInit /\ [][WatchNext]_<<vars, watch>> /\ Fairness

-----------------------------------------------------------------------------
\* A change of step takes a full streak from the change before it: late frames
\* counted for one step never count again for the next (the streak is reset).
StepsAreSpaced ==
    [][step' # step =>
          sinceStep + 1 >= IF step' > step THEN LateFrames ELSE EarlyFrames]_<<vars, watch>>

\* Nothing counted before the frame rate fell below the floor moves the step
\* after it has cleared it ("the governor's streaks restart: what they counted
\* is from before it").
StreaksRestart ==
    [][step' # step =>
          IF Clears THEN LateFrames = 1 \/ EarlyFrames = 1
          ELSE sinceFloor + 1 >= IF step' > step THEN LateFrames ELSE EarlyFrames]_<<vars, watch>>

\* At a steady step the companions are spread evenly: never fewer than one frame
\* in `step`, and never two closer than that, however far the application's
\* presents have run ahead ("the frame's own ordinal decides").
Every == IF step >= 2 THEN step ELSE 1
ThinnedEvenly ==
    /\ [](steady >= Every => gap < Every)
    /\ [][verdict' /\ steady' >= Every /\ WatchAsk => gap + 1 >= Every]_<<vars, watch>>
=============================================================================
