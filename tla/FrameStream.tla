---------------------------- MODULE FrameStream ----------------------------
(***************************************************************************)
(* What the layer promises the viewer of one swapchain, whatever threads,  *)
(* queues and failures are behind it: every frame the application presents *)
(* reaches the screen, once and in order, and between two real frames      *)
(* there is at most one companion, never before the first real frame and   *)
(* never without a real frame to follow it.                                *)
(***************************************************************************)
EXTENDS Naturals

CONSTANT MaxFrames      \* bound: frames the application presents

VARIABLES
    given,      \* frames the application has presented
    real,       \* the last real frame shown
    comp        \* a companion was shown since

vars == <<given, real, comp>>

Init == given = 0 /\ real = 0 /\ comp = FALSE

Give ==
    /\ given < MaxFrames
    /\ given' = given + 1
    /\ UNCHANGED <<real, comp>>

ShowCompanion ==
    /\ 0 < real /\ real < given /\ ~comp
    /\ comp' = TRUE
    /\ UNCHANGED <<given, real>>

ShowReal ==
    /\ real < given
    /\ real' = real + 1
    /\ comp' = FALSE
    /\ UNCHANGED given

Next == Give \/ ShowCompanion \/ ShowReal

Spec == Init /\ [][Next]_vars /\ WF_vars(ShowReal)

Safety == Init /\ [][Next]_vars
=============================================================================
