--------------------------- MODULE PresentResults ---------------------------
(***************************************************************************)
(* What the application learns from its present calls: PresentPipeline     *)
(* with the value each vkQueuePresentKHR returns and a history of the      *)
(* outcomes it has not been told of.                                       *)
(***************************************************************************)
EXTENDS PresentPipeline

VARIABLES
    returned,       \* what the last finished present call returned
    untold,         \* outcomes deferred since a present call last took them
    owedAtCall      \* deferred_result when the present call under way began

resultVars == <<returned, untold, owedAtCall>>

Leaves(t, label) == pc[t] = label /\ pc'[t] # label
Enters(t, label) == pc[t] # label /\ pc'[t] = label

\* Inline and pass-through presents return the driver's result; the threaded
\* hook returns what was deferred.
Return ==
    IF Leaves("app", "collect") THEN returned' = deferred
    ELSE IF Leaves("app", "inlineReal") \/ Leaves("app", "pass")
    THEN returned' \in Results
    ELSE UNCHANGED returned

\* Outcomes join `untold` when the presentation thread finishes a frame and
\* when the work thread fails; the threaded hook takes them.
Owe ==
    untold' = IF Leaves("app", "collect") THEN {}
              ELSE IF Leaves("presenter", "finish") THEN untold \union {first, second}
              ELSE IF Leaves("worker", "passOn") THEN untold \union {"error"}
              ELSE untold

NoteCall == IF given' # given THEN owedAtCall' = deferred ELSE UNCHANGED owedAtCall

ResultsInit ==
    /\ Init
    /\ returned = "ok" /\ untold = {} /\ owedAtCall = "ok"

ResultsNext == Next /\ Return /\ Owe /\ NoteCall

ResultsSpec == ResultsInit /\ [][ResultsNext]_<<vars, resultVars>>

Severity(r) == CASE r = "error" -> 2 [] r = "suboptimal" -> 1 [] OTHER -> 0

-----------------------------------------------------------------------------
\* deferred_result is the worst outcome since the application was last told:
\* errors beat SUBOPTIMAL, SUBOPTIMAL beats SUCCESS, whichever thread reported
\* it and in whatever order (swapchain_presenter.c:166-170).
DeferredIsWorst ==
    /\ \A r \in untold : Severity(r) <= Severity(deferred)
    /\ deferred # "ok" => deferred \in untold

\* "The worst outcome reaches the application with its next present call"
\* (swapchain_presenter.c:166): a present call that began with an outcome
\* deferred returns one at least as bad.
NextCallReportsOutcome ==
    pc["app"] = "idle" => Severity(returned) >= Severity(owedAtCall)
=============================================================================
