----------------------------- MODULE SpareImage -----------------------------
(***************************************************************************)
(* The images of one swapchain and the lock around it.  The application    *)
(* acquires images in slices, the work thread takes the spare for a        *)
(* companion, the presentation thread presents and lines up the next       *)
(* spare; the driver wants its calls on a swapchain one at a time, so      *)
(* they share wsi_lock, taken through the turnstile wsi_turn.              *)
(*                                                                         *)
(* The queues between the threads, their pacing and their end are in       *)
(* PresentPipeline; here a frame is the image it is in.                    *)
(***************************************************************************)
EXTENDS Integers, Sequences, FiniteSets

CONSTANTS
    MinImages,      \* the images the application asked for
    Extra,          \* AFMF_EXTRA_IMAGES
    Kept,           \* images the presentation engine may keep for good
    Budget,         \* AFMF_ACQUIRE_TIMEOUT_US, in slices
    MultiPresent,   \* the application presents several swapchains in one call
    AnyOrder,       \* FALSE: the engine deals images out in order of number
    MaxLost         \* bound: failing frames that had taken an image

ASSUME ImagesAssumption ==
    Kept \in Nat /\ MinImages \in Nat /\ Kept < MinImages /\ Extra \in Nat \ {0}
ASSUME BudgetAssumption == Budget \in Nat
ASSUME FlagsAssumption == MultiPresent \in BOOLEAN /\ AnyOrder \in BOOLEAN
ASSUME LostAssumption == MaxLost \in Nat

Image == 1 .. MinImages + Extra
None == 0
Thread == {"app", "worker", "presenter"}

AppPC == {"idle", "acquire", "plain", "direct", "stop"}
WorkerPC == {"take", "spare", "fence", "reset", "drop", "submit", "handoff"}
PresenterPC == {"next", "companion", "real", "refill", "finish"}
\* The steps taken inside the swapchain lock.
Locked == {"acquire", "spare", "drop", "companion", "real", "refill"}

VARIABLES
    pc,             \* where each thread is
    wsi,            \* "out", "turn" (wsi_turn held, wsi_lock wanted), "in"
    genEnabled,     \* sc->gen_enabled
    workerFailed,   \* sc->worker_failed
    held,           \* images the application has acquired
    forever,        \* the application's acquire has no timeout
    direct,         \* the image of a present made past the layer's threads
    free, shown,    \* the engine's images: ready, or on their way to the screen
    spareValid,     \* sc->spare_valid
    spareImage,     \* sc->spare_image, None when it is not valid
    fence,          \* sc->spare_fence
    left,           \* spare_take's local `left`, in slices
    spare,          \* its local `spare`
    companion,      \* the image frame_generate got, or None
    work,           \* real frames queued for the work thread
    jobs,           \* frames queued for the presentation thread
    lost            \* images of companions that will never be presented

appVars == <<genEnabled, held, forever, direct>>
spareVars == <<spareValid, spareImage, fence>>
takeVars == <<left, spare, companion>>
queueVars == <<work, jobs>>
engineVars == <<free, shown>>
failVars == <<workerFailed, lost>>
vars == <<pc, wsi, appVars, engineVars, spareVars, takeVars, queueVars, failVars>>

Init ==
    /\ pc = [app |-> "idle", worker |-> "take", presenter |-> "next"]
    /\ wsi = [t \in Thread |-> "out"]
    /\ genEnabled = TRUE /\ workerFailed = FALSE
    /\ held = {} /\ forever = FALSE /\ direct = None
    /\ free = Image /\ shown = {}
    /\ spareValid = FALSE /\ spareImage = None /\ fence = "unsignalled"
    /\ left = 0 /\ spare = None /\ companion = None
    /\ work = <<>> /\ jobs = <<>>
    /\ lost = {}

\* The images of S the engine may pick: they are alike, so that a run may settle
\* for one of them.
Dealt(S) == {i \in S : AnyOrder \/ \A k \in S : i <= k}

Goto(t, label) == pc' = [pc EXCEPT ![t] = label]

-----------------------------------------------------------------------------
(* The swapchain lock. *)

\* A mistake: no turnstile, every thread goes straight for wsi_lock.
BugTakeTurn(t) ==
    /\ pc[t] \in Locked /\ wsi[t] = "out"
    /\ wsi' = [wsi EXCEPT ![t] = "turn"]
    /\ UNCHANGED <<pc, appVars, engineVars, spareVars, takeVars, queueVars, failVars>>

TakeTurn(t) ==
    /\ pc[t] \in Locked /\ wsi[t] = "out"
    /\ \A u \in Thread : wsi[u] # "turn"
    /\ wsi' = [wsi EXCEPT ![t] = "turn"]
    /\ UNCHANGED <<pc, appVars, engineVars, spareVars, takeVars, queueVars, failVars>>

\* wsi_lock, and the turn given up.
TakeLock(t) ==
    /\ wsi[t] = "turn"
    /\ \A u \in Thread : wsi[u] # "in"
    /\ wsi' = [wsi EXCEPT ![t] = "in"]
    /\ UNCHANGED <<pc, appVars, engineVars, spareVars, takeVars, queueVars, failVars>>

Inside(t, label) == wsi[t] = "in" /\ pc[t] = label
Give(t) == wsi' = [wsi EXCEPT ![t] = "out"]

\* afmf_sc_spare_refill.  The engine gives an image it has ready and signals
\* the fence once it is through with it; a call that times out or fails
\* leaves no spare.
Refill ==
    \/ spareValid /\ UNCHANGED <<spareVars, free>>
    \/ /\ ~spareValid
       /\ \E i \in Dealt(free) :
            /\ spareImage' = i
            /\ free' = free \ {i}
       /\ spareValid' = TRUE
       /\ fence' = "pending"
    \/ ~spareValid /\ UNCHANGED <<spareVars, free>>

-----------------------------------------------------------------------------
(* The application. *)

\* A mistake: the acquire is made without looking whether the swapchain is ours.
BugAcquire ==
    /\ pc["app"] = "idle"
    /\ Cardinality(held) < MinImages - Kept
    /\ Goto("app", "plain")
    /\ forever' \in BOOLEAN
    /\ UNCHANGED <<wsi, genEnabled, held, direct, engineVars, spareVars, takeVars,
                   queueVars, failVars>>

\* vkAcquireNextImageKHR, as long as it may still ask for one.
Acquire ==
    /\ pc["app"] = "idle"
    /\ Cardinality(held) < MinImages - Kept
    /\ Goto("app", IF genEnabled THEN "acquire" ELSE "plain")
    /\ forever' \in BOOLEAN
    /\ UNCHANGED <<wsi, genEnabled, held, direct, engineVars, spareVars, takeVars,
                   queueVars, failVars>>

\* The driver has an image for the application.
Acquired ==
    /\ \E i \in Dealt(free) :
         /\ held' = held \union {i}
         /\ free' = free \ {i}
    /\ Goto("app", "idle") /\ forever' = FALSE

\* It fails, or the application's own timeout is over.
NotAcquired ==
    /\ Goto("app", "idle") /\ forever' = FALSE
    /\ UNCHANGED <<held, free>>

\* No image in the slice: the loop goes round again.
SliceOver == free = {} /\ UNCHANGED <<pc, held, free, forever>>

\* A mistake: the next slice goes straight for wsi_lock, past the turnstile.
BugAcquireSlice ==
    /\ Inside("app", "acquire")
    /\ \/ (Acquired \/ NotAcquired) /\ Give("app")
       \/ SliceOver /\ wsi' = [wsi EXCEPT !["app"] = "turn"]
    /\ UNCHANGED <<genEnabled, direct, shown, spareVars, takeVars, queueVars,
                   failVars>>

\* One slice of it, under the swapchain lock; a timeout asks for another.
AcquireSlice ==
    /\ Inside("app", "acquire")
    /\ Give("app")
    /\ Acquired \/ NotAcquired \/ SliceOver
    /\ UNCHANGED <<genEnabled, direct, shown, spareVars, takeVars, queueVars,
                   failVars>>

\* The same call on a swapchain that does not generate: the driver's.
AcquirePlain ==
    /\ pc["app"] = "plain"
    /\ Acquired \/ NotAcquired
    /\ UNCHANGED <<wsi, genEnabled, direct, shown, spareVars, takeVars, queueVars,
                   failVars>>

\* vkQueuePresentKHR, threaded: the frame is queued; a failure the work thread
\* met earlier ends generation behind it.
Present ==
    /\ pc["app"] = "idle" /\ genEnabled
    /\ \E i \in held :
         /\ held' = held \ {i}
         /\ work' = Append(work, i)
    /\ Goto("app", IF workerFailed THEN "stop" ELSE "idle")
    /\ UNCHANGED <<wsi, genEnabled, forever, direct, engineVars, spareVars, takeVars, jobs,
                   failVars>>

\* afmf_sc_gen_disable: both threads drained and joined.
Disable ==
    /\ pc["app"] = "stop"
    /\ work = <<>> /\ pc["worker"] = "take"
    /\ jobs = <<>> /\ pc["presenter"] = "next"
    /\ genEnabled' = FALSE
    /\ Goto("app", "idle")
    /\ UNCHANGED <<wsi, held, forever, direct, engineVars, spareVars, takeVars, queueVars,
                   failVars>>

\* A present the layer passes to the driver as it is: generation has ended, or
\* the call presents several swapchains.
PresentDirect ==
    /\ pc["app"] = "idle"
    /\ ~genEnabled \/ MultiPresent
    /\ \E i \in held : held' = held \ {i} /\ direct' = i
    /\ Goto("app", "direct")
    /\ UNCHANGED <<wsi, genEnabled, forever, engineVars, spareVars, takeVars, queueVars,
                   failVars>>

DirectDone ==
    /\ pc["app"] = "direct"
    /\ shown' = shown \union {direct}
    /\ direct' = None
    /\ Goto("app", "idle")
    /\ UNCHANGED <<wsi, genEnabled, held, forever, free, spareVars, takeVars, queueVars,
                   failVars>>

AppStep == AcquireSlice \/ AcquirePlain \/ Disable \/ DirectDone
AppChoice == Acquire \/ Present \/ PresentDirect

-----------------------------------------------------------------------------
(* The work thread: afmf_sc_frame_generate and, in it, afmf_sc_spare_take. *)

\* A frame is taken up; history and governor say whether it wants a companion.
WorkerTake ==
    /\ pc["worker"] = "take" /\ work # <<>>
    /\ \/ Goto("worker", "spare") /\ left' = Budget
       \/ Goto("worker", "submit") /\ UNCHANGED left
    /\ UNCHANGED <<wsi, appVars, engineVars, spareVars, spare, companion, queueVars,
                   failVars>>

\* A mistake: nothing notices that the budget is spent.
BugSpareSlice ==
    /\ Inside("worker", "spare")
    /\ Give("worker")
    /\ Refill
    /\ \/ spareValid' /\ Goto("worker", "fence") /\ spare' = spareImage' /\ left' = 0
       \/ ~spareValid' /\ left' = left - 1 /\ UNCHANGED <<pc, spare>>
    /\ UNCHANGED <<appVars, shown, companion, queueVars, failVars>>

\* One slice of the acquire, if there is no spare yet.
SpareSlice ==
    /\ Inside("worker", "spare")
    /\ Give("worker")
    /\ Refill
    /\ \/ spareValid' /\ Goto("worker", "fence") /\ spare' = spareImage' /\ left' = 0
       \/ ~spareValid' /\ left > 1 /\ left' = left - 1 /\ UNCHANGED <<pc, spare>>
       \/ ~spareValid' /\ left <= 1 /\ Goto("worker", "submit") /\ left' = 0
          /\ UNCHANGED spare
    /\ UNCHANGED <<appVars, shown, companion, queueVars, failVars>>

\* Mistakes: the fence is not reset before the spare is given up; a spare whose
\* release was not seen in time is given up; a spare handed out is kept.
BugFenceWait ==
    /\ pc["worker"] = "fence"
    /\ \/ fence = "signalled" /\ Goto("worker", "drop")
          /\ UNCHANGED spare
       \/ fence = "pending" /\ Goto("worker", "submit") /\ spare' = None
    /\ UNCHANGED <<wsi, appVars, engineVars, spareVars, left, companion, queueVars, failVars>>

BugGiveUp ==
    /\ pc["worker"] = "fence"
    /\ \/ fence = "signalled" /\ Goto("worker", "reset") /\ UNCHANGED <<spare, spareValid>>
       \/ fence = "pending" /\ Goto("worker", "submit") /\ spare' = None /\ spareValid' = FALSE
    /\ UNCHANGED <<wsi, appVars, engineVars, spareImage, fence, left, companion, queueVars,
                   failVars>>

BugSpareDrop ==
    /\ Inside("worker", "drop")
    /\ Give("worker")
    /\ companion' = spare /\ spare' = None
    /\ Goto("worker", "submit")
    /\ UNCHANGED <<appVars, engineVars, spareVars, left, queueVars, failVars>>

\* The wait for the image's release, outside the lock; it may time out.
FenceWait ==
    /\ pc["worker"] = "fence"
    /\ \/ fence = "signalled" /\ Goto("worker", "reset")
          /\ UNCHANGED spare
       \/ fence = "pending" /\ Goto("worker", "submit") /\ spare' = None
    /\ UNCHANGED <<wsi, appVars, engineVars, spareVars, left, companion, queueVars, failVars>>

FenceReset ==
    /\ pc["worker"] = "reset"
    /\ fence' = "unsignalled"
    /\ Goto("worker", "drop")
    /\ UNCHANGED <<wsi, appVars, engineVars, spareValid, spareImage, takeVars, queueVars,
                   failVars>>

\* The spare becomes this frame's companion.
SpareDrop ==
    /\ Inside("worker", "drop")
    /\ Give("worker")
    /\ spareValid' = FALSE /\ spareImage' = None
    /\ companion' = spare /\ spare' = None
    /\ Goto("worker", "submit")
    /\ UNCHANGED <<appVars, engineVars, fence, left, queueVars, failVars>>

\* Recording and submission; when they fail the frame has no companion.
SubmitFrame ==
    /\ pc["worker"] = "submit"
    /\ Goto("worker", "handoff")
    /\ \/ UNCHANGED <<companion, failVars>>
       \/ /\ companion # None => Cardinality(lost) < MaxLost
          /\ lost' = lost \union ({companion} \ {None})
          /\ companion' = None
          /\ workerFailed' = TRUE
    /\ UNCHANGED <<wsi, appVars, engineVars, spareVars, left, spare, queueVars>>

Handoff ==
    /\ pc["worker"] = "handoff"
    /\ jobs' = Append(jobs, [real |-> Head(work), companion |-> companion])
    /\ work' = Tail(work)
    /\ companion' = None
    /\ Goto("worker", "take")
    /\ UNCHANGED <<wsi, appVars, engineVars, spareVars, left, spare, failVars>>

WorkerStep == WorkerTake \/ SpareSlice \/ FenceWait \/ FenceReset \/ SpareDrop
              \/ SubmitFrame \/ Handoff

-----------------------------------------------------------------------------
(* The presentation thread. *)

JobTaken ==
    /\ pc["presenter"] = "next" /\ jobs # <<>>
    /\ Goto("presenter", IF Head(jobs).companion # None THEN "companion" ELSE "real")
    /\ UNCHANGED <<wsi, appVars, engineVars, spareVars, takeVars, queueVars, failVars>>

PresentCompanion ==
    /\ Inside("presenter", "companion")
    /\ Give("presenter")
    /\ shown' = shown \union {Head(jobs).companion}
    /\ Goto("presenter", "real")
    /\ UNCHANGED <<appVars, free, spareVars, takeVars, queueVars, failVars>>

PresentReal ==
    /\ Inside("presenter", "real")
    /\ Give("presenter")
    /\ shown' = shown \union {Head(jobs).real}
    /\ Goto("presenter", "refill")
    /\ UNCHANGED <<appVars, free, spareVars, takeVars, queueVars, failVars>>

LineUpSpare ==
    /\ Inside("presenter", "refill")
    /\ Give("presenter")
    /\ Refill
    /\ Goto("presenter", "finish")
    /\ UNCHANGED <<appVars, shown, takeVars, queueVars, failVars>>

JobFinished ==
    /\ pc["presenter"] = "finish"
    /\ jobs' = Tail(jobs)
    /\ Goto("presenter", "next")
    /\ UNCHANGED <<wsi, appVars, engineVars, spareVars, takeVars, work, failVars>>

PresenterStep == JobTaken \/ PresentCompanion \/ PresentReal \/ LineUpSpare \/ JobFinished

-----------------------------------------------------------------------------
(* The presentation engine. *)

\* It is through with an image that was presented; it may keep a few.
Release ==
    /\ Cardinality(shown) > Kept
    /\ \E i \in Dealt(shown) : shown' = shown \ {i} /\ free' = free \union {i}
    /\ UNCHANGED <<pc, wsi, appVars, spareVars, takeVars, queueVars, failVars>>

\* The spare's release is reported.
SignalFence ==
    /\ fence = "pending"
    /\ fence' = "signalled"
    /\ UNCHANGED <<pc, wsi, appVars, engineVars, spareValid, spareImage, takeVars, queueVars,
                   failVars>>

-----------------------------------------------------------------------------
Next ==
    \/ \E t \in Thread : TakeTurn(t) \/ TakeLock(t)
    \/ AppChoice \/ AppStep
    \/ WorkerStep
    \/ PresenterStep
    \/ Release \/ SignalFence

\* Each thread runs, the engine makes progress.  Taking the turn is strongly
\* fair: it is free all through the driver call of whoever is inside, unless a
\* thread is queued already.  Nothing better than weak fairness is asked of
\* wsi_lock itself, nor of the application, which need not acquire or present.
Fairness ==
    /\ \A t \in Thread : SF_vars(TakeTurn(t)) /\ WF_vars(TakeLock(t))
    /\ WF_vars(AppStep) /\ WF_vars(WorkerStep) /\ WF_vars(PresenterStep)
    /\ WF_vars(Release) /\ WF_vars(SignalFence)

Spec == Init /\ [][Next]_vars
LiveSpec == Spec /\ Fairness

-----------------------------------------------------------------------------
(* Properties. *)

Job == [real : Image, companion : Image \union {None}]

\* Every variable has its type (struct afmf_swapchain, swapchain_internal.h).
TypeOK ==
    /\ pc \in [Thread -> AppPC \union WorkerPC \union PresenterPC]
    /\ pc["app"] \in AppPC /\ pc["worker"] \in WorkerPC
    /\ pc["presenter"] \in PresenterPC
    /\ wsi \in [Thread -> {"out", "turn", "in"}]
    /\ {genEnabled, workerFailed, forever, spareValid} \subseteq BOOLEAN
    /\ {held, free, shown, lost} \subseteq SUBSET Image
    /\ {direct, spareImage, spare, companion} \subseteq Image \union {None}
    /\ fence \in {"unsignalled", "pending", "signalled"}
    /\ left \in 0 .. Budget
    /\ work \in Seq(Image) /\ jobs \in Seq(Job)

\* The presents of the frame at the head of `jobs` that already went out.
Presented(k, part) ==
    /\ k = 1
    /\ \/ part = "companion" /\ pc["presenter"] \in {"real", "refill", "finish"}
       \/ part = "real" /\ pc["presenter"] \in {"refill", "finish"}

\* Everyone with a use for image i.
Holders(i) ==
    {o \in {<<"ready">>, <<"shown">>, <<"app">>, <<"direct">>, <<"spare">>, <<"companion">>} :
        \/ o = <<"ready">> /\ i \in free
        \/ o = <<"shown">> /\ i \in shown
        \/ o = <<"app">> /\ i \in held
        \/ o = <<"direct">> /\ i = direct
        \/ o = <<"spare">> /\ spareValid /\ i = spareImage
        \/ o = <<"companion">> /\ i = companion}
    \union {<<"work", k>> : k \in {n \in DOMAIN work : work[n] = i}}
    \union {p \in {"job"} \X (DOMAIN jobs) \X {"real", "companion"} :
               jobs[p[2]][p[3]] = i /\ ~Presented(p[2], p[3])}

\* No image has two uses: what the engine still has, what the application
\* draws into, the spare and the frames on their way never overlap, whatever
\* the three threads do (spare_take hands out what it read in an earlier
\* critical section).
NoImageTwice == \A i \in Image : Cardinality(Holders(i)) <= 1

\* The spare's fence goes into an acquire only unsignalled and unused, and is
\* reset only once signalled (spare_take: "the fence is reset before that, and
\* never raced").
FenceUnraced ==
    /\ \A t \in Thread :
         wsi[t] = "in" /\ pc[t] \in {"spare", "refill"} /\ ~spareValid
            => fence = "unsignalled"
    /\ pc["worker"] = "reset" => fence = "signalled"

\* Calls into the driver about this swapchain never overlap (wsi_lock:
\* acquires and presents "need external synchronisation on the swapchain").
InDriver == {t \in Thread : wsi[t] = "in"} \union
            (IF pc["app"] \in {"plain", "direct"} THEN {"app"} ELSE {})
SwapchainExclusive == Cardinality(InDriver) <= 1

\* Every image is with someone who will use it or give it back, the companions
\* of failed frames apart: a wait that times out, a refill that finds the spare
\* still there, a frame without a companion forget none (spare_take: "false
\* leaves it for the next frame").
NoImageForgotten == \A i \in Image \ lost : Holders(i) # {}

\* The presentation thread always gets its next turn at the swapchain, however
\* long the application's acquire goes on (wsi_turn's comment: without it the
\* thread "never got a turn, presented nothing, and no image ever came free").
PresenterGetsTurns == []<>(pc["presenter"] = "next")

\* An acquire without a timeout returns, although the layer keeps images of
\* its own: the frames in front of it are presented and the engine gives back
\* all but what it keeps (extra_images makes up for the layer's).
AcquireReturns ==
    (pc["app"] \in {"acquire", "plain"} /\ forever) ~> (pc["app"] = "idle")
=============================================================================
