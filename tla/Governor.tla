------------------------------ MODULE Governor ------------------------------
(***************************************************************************)
(* The governor of one swapchain (afmf_sc_governor_allows): from how late  *)
(* the last measured companion was ready, and from the real frame rate, it *)
(* decides whether a frame gets a companion.  The hook numbers the frames  *)
(* and keeps the frame time, the work thread asks for each frame in turn,  *)
(* the presentation thread reports delays some frames later.               *)
(*                                                                         *)
(* Times are integers; the smoothed frame time is any of FrameTimes.       *)
(***************************************************************************)
EXTENDS Integers

CONSTANTS
    LateFrames,     \* AFMF_GOVERNOR_LATE_FRAMES
    EarlyFrames,    \* AFMF_GOVERNOR_EARLY_FRAMES
    Steps,          \* AFMF_GOVERNOR_STEPS
    FloorMs,        \* the frame time of AFMF_MIN_FPS, 0 without a floor
    FrameTimes,     \* what the smoothed frame time may be
    Delays,         \* what the presentation thread may measure
    Ahead           \* bound: frames queued, and companions not yet measured

ASSUME CountsAssumption ==
    /\ LateFrames \in Nat \ {0} /\ EarlyFrames \in Nat \ {0} /\ Steps \in 0 .. 3
    /\ FloorMs \in Nat /\ Ahead \in Nat \ {0}
ASSUME TimesAssumption == FrameTimes \subseteq Nat \ {0} /\ Delays \subseteq Nat

VARIABLES
    frameMs,        \* sc->frame_ms_ema, 0 before the second present
    lastDelay,      \* sc->last_delay_ms
    underFloor,     \* sc->under_floor
    lateStreak,     \* sc->late_streak, no further than it matters
    earlyStreak,    \* sc->early_streak, likewise
    step,           \* sc->governor_step
    ordinal,        \* the number of the last frame asked for, modulo Cycle
    queued,         \* frames numbered and not asked for yet
    unmeasured,     \* companions on their way to the presentation thread
    verdict         \* what the last frame was told

vars == <<frameMs, lastDelay, underFloor, lateStreak, earlyStreak, step, ordinal, queued,
          unmeasured, verdict>>

\* A multiple of one, two and three, the divisors an ordinal meets.
Cycle == 6

Init ==
    /\ frameMs = 0 /\ lastDelay = 0
    /\ underFloor = FALSE
    /\ lateStreak = 0 /\ earlyStreak = 0 /\ step = 0
    /\ ordinal = 0 /\ queued = 0
    /\ unmeasured = 0
    /\ verdict = FALSE

\* afmf_sc_update_cadence: a present takes its number and moves the cadence; a
\* long pause, like the first present, leaves it alone.
Cadence ==
    /\ queued < Ahead
    /\ queued' = queued + 1
    /\ frameMs' \in FrameTimes \union {frameMs}
    /\ UNCHANGED <<lastDelay, underFloor, lateStreak, earlyStreak, step, ordinal,
                   unmeasured, verdict>>

\* The presentation thread has waited for a companion's fence, or left it out.
Measure ==
    /\ unmeasured > 0
    /\ unmeasured' = unmeasured - 1
    /\ lastDelay' \in Delays \union {lastDelay}
    /\ UNCHANGED <<frameMs, underFloor, lateStreak, earlyStreak, step, ordinal, queued,
                   verdict>>

-----------------------------------------------------------------------------
(* One question: may the next frame have a companion? *)

HasFloor == FloorMs > 0 /\ frameMs > 0
Clears == HasFloor /\ underFloor /\ 10 * frameMs < 9 * FloorMs
Below == HasFloor /\ IF underFloor THEN ~Clears ELSE frameMs > FloorMs

\* The streaks the question starts from; a floor just cleared restarts them.
BugLateBefore == lateStreak
LateBefore == IF Clears THEN 0 ELSE lateStreak
EarlyBefore == IF Clears THEN 0 ELSE earlyStreak

\* AFMF_GOVERNOR_LATE and AFMF_GOVERNOR_EARLY: 3/2 and 3/4 of a frame.
IsLate == 2 * lastDelay > 3 * frameMs
IsEarly == 4 * lastDelay < 3 * frameMs

\* One more, counted no further than the length a streak is compared with.
Counted(streak, length) == IF streak < length THEN streak + 1 ELSE length

\* A mistake: the streak that moved the step goes on counting.
BugAfterLate ==
    /\ earlyStreak' = 0
    /\ lateStreak' = Counted(LateBefore, LateFrames)
    /\ step' = IF LateBefore + 1 >= LateFrames /\ step < Steps THEN step + 1 ELSE step

\* A mistake: the last step is never taken.
BugAfterLast ==
    /\ earlyStreak' = 0
    /\ IF LateBefore + 1 >= LateFrames /\ step + 1 < Steps
       THEN step' = step + 1 /\ lateStreak' = 0
       ELSE lateStreak' = Counted(LateBefore, LateFrames) /\ UNCHANGED step

AfterLate ==
    /\ earlyStreak' = 0
    /\ IF LateBefore + 1 >= LateFrames /\ step < Steps
       THEN step' = step + 1 /\ lateStreak' = 0
       ELSE lateStreak' = Counted(LateBefore, LateFrames) /\ UNCHANGED step

\* A mistake: generation never comes all the way back.
BugAfterEarly ==
    /\ lateStreak' = 0
    /\ IF EarlyBefore + 1 >= EarlyFrames /\ step > 1
       THEN step' = step - 1 /\ earlyStreak' = 0
       ELSE earlyStreak' = Counted(EarlyBefore, EarlyFrames) /\ UNCHANGED step

AfterEarly ==
    /\ lateStreak' = 0
    /\ IF EarlyBefore + 1 >= EarlyFrames /\ step > 0
       THEN step' = step - 1 /\ earlyStreak' = 0
       ELSE earlyStreak' = Counted(EarlyBefore, EarlyFrames) /\ UNCHANGED step

Streaks ==
    \/ frameMs > 0 /\ IsLate /\ AfterLate
    \/ frameMs > 0 /\ IsEarly /\ AfterEarly
    \/ /\ frameMs = 0 \/ ~(IsLate \/ IsEarly)
       /\ lateStreak' = LateBefore /\ earlyStreak' = EarlyBefore
       /\ UNCHANGED step

\* A mistake: the frame's share is read off the number of presents so far.
BugInTurn(number) ==
    (number + queued') % (IF step' >= 2 THEN step' ELSE 1) = 0

\* Steps two and three leave one frame in two and one in three a companion.
InTurn(number) == number % (IF step' >= 2 THEN step' ELSE 1) = 0

HoldBack ==
    /\ Below
    /\ underFloor' = TRUE
    /\ verdict' = FALSE
    /\ UNCHANGED <<lateStreak, earlyStreak, step, unmeasured>>

\* Without a frame time there is nothing to compare, and every frame may.
Govern ==
    /\ ~Below
    /\ underFloor' = (underFloor /\ ~Clears)
    /\ Streaks
    /\ verdict' = (frameMs = 0 \/ InTurn(ordinal'))
    /\ IF verdict' THEN unmeasured' \in {unmeasured, unmeasured + 1} ELSE UNCHANGED unmeasured

Ask ==
    /\ queued > 0 /\ unmeasured < Ahead
    /\ queued' = queued - 1
    /\ ordinal' = (ordinal + 1) % Cycle
    /\ HoldBack \/ Govern
    /\ UNCHANGED <<frameMs, lastDelay>>

Next == Cadence \/ Measure \/ Ask

\* The application goes on presenting and the layer's threads go on.
Fairness == WF_vars(Cadence) /\ WF_vars(Measure) /\ WF_vars(Ask)

LiveSpec == Init /\ [][Next]_vars /\ Fairness

-----------------------------------------------------------------------------
\* Companions that are early for good bring every companion back, once the
\* frame rate stays clear of the floor (swapchain_internal.h: the lower
\* fraction "for this many frames steps it back up").
Calm == frameMs > 0 /\ IsEarly /\ (FloorMs = 0 \/ 10 * frameMs < 9 * FloorMs)
Recovers == <>[]Calm => <>[](step = 0)

\* Companions that are late for good thin out to one in three, and go on being
\* made: the governor never stops generation.
Swamped == frameMs > 0 /\ IsLate /\ (FloorMs = 0 \/ 10 * frameMs < 9 * FloorMs)
ThinsOut == <>[]Swamped => <>[](step = Steps) /\ []<>verdict
=============================================================================
