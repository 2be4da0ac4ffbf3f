-------------------------- MODULE PresentPipeline --------------------------
(***************************************************************************)
(* One swapchain of the layer: the application's vkQueuePresentKHR hook,   *)
(* the work thread that records and submits the companion, and the         *)
(* presentation thread that presents companion and real frame.  The spare  *)
(* image and the swapchain lock are in SpareImage; the governor, which     *)
(* here is a free choice, is in Governor.                                  *)
(*                                                                         *)
(* A frame is its ordinal.  One action is one critical section or one call *)
(* into the driver.  A thread waiting on a condition variable is put in    *)
(* `asleep` and leaves it only by a broadcast, so a lost wake-up shows.    *)
(***************************************************************************)
EXTENDS Integers, Sequences

CONSTANTS
    ImageCount,     \* sc->image_count: images, slots and the in-flight limit
    MaxJobs,        \* AFMF_MAX_JOBS: room in `work` and in `jobs`
    Async,          \* sc->async: the layer owns a queue, so threads may run
    Pacing,         \* AFMF_PACING
    Paths,          \* what the application's presents may be: see Path
    Results,        \* what vkQueuePresentKHR may return: see Result
    ThreadsMayFail, \* pthread_create may fail
    MaxFrames,      \* bound: presents the application makes
    MaxFailures     \* bound: queue submissions or recordings that fail

Path == {"threaded", "inline", "unfit"}
Result == {"ok", "suboptimal", "error"}

ASSUME ImageCountAssumption == ImageCount \in Nat \ {0}
ASSUME MaxJobsAssumption == MaxJobs \in Nat \ {0}
ASSUME FlagsAssumption ==
    Async \in BOOLEAN /\ Pacing \in BOOLEAN /\ ThreadsMayFail \in BOOLEAN
ASSUME PathsAssumption == Paths \subseteq Path
ASSUME ResultsAssumption == Results \subseteq Result
ASSUME BoundsAssumption == MaxFrames \in Nat /\ MaxFailures \in Nat

Slot == 0 .. ImageCount - 1
Frame == 1 .. MaxFrames
Thread == {"app", "worker", "presenter"}
Generator == {"app", "worker"}      \* the threads that run frame_generate
WorkItem == [frame : Frame, slot : Slot]
Job == [frame : Frame, slot : Slot, generate : BOOLEAN, unwaited : BOOLEAN]

AppPC == {"idle", "reserve", "adapter", "enqueue", "collect",
          "drainWork", "drainJobs", "deviceIdle",
          "fence", "decide", "submit", "inlineCompanion", "inlineReal",
          "stopWorker", "joinWorker", "stopPresenter", "joinPresenter",
          "stopped", "pass", "gone"}
WorkerPC == {"take", "fence", "decide", "submit", "passOn", "handoff",
             "pop", "exited"}
PresenterPC == {"next", "companion", "pace", "hold", "real", "finish",
                "exited"}

VARIABLES
    pc,             \* where each thread is
    asleep,         \* threads waiting on their condition variable
    given,          \* frames the application has presented so far
    hook,           \* the frame and slot of the present call being served
    after,          \* what the running drain or stop was called for
    slotIndex,      \* sc->slot_index
    genEnabled,     \* sc->gen_enabled
    inFlight,       \* sc->in_flight
    work,           \* sc->work: frames handed to the work thread
    jobs,           \* sc->jobs: frames handed to the presentation thread
    workerOn,       \* sc->worker_running
    presenterOn,    \* sc->presenter_running
    workerStop,     \* sc->worker_stop
    presenterStop,  \* sc->presenter_stop
    workerFailed,   \* sc->worker_failed
    slotPending,    \* slot->pending
    fenceOf,        \* the frame whose submission uses the slot's fence, or 0
    fenceUp,        \* the slot's fence is signalled
    gpu,            \* slots of the layer's submissions still executing
    haveHistory,    \* sc->have_history
    gen,            \* frame_generate's local `generate`, per thread
    unwaited,       \* the work thread's local real_unwaited
    draining,       \* the presentation thread's local `draining`
    first,          \* its local `first`: the companion's present result
    second,         \* its local `second`: the real present's result
    deferred,       \* sc->deferred_result
    semApp,         \* per slot: signals minus waits submitted on sem_app
    semReal,        \* frames whose sem_real is signalled and not yet waited on
    semGenerated,   \* frames whose companion's sem_generated is likewise
    real,           \* the last real frame the swapchain was given
    comp,           \* a companion was presented since then
    failures        \* failed submissions so far

hookVars == <<given, hook, after, slotIndex, genEnabled>>
lifeVars == <<workerOn, presenterOn, workerStop, presenterStop>>
slotVars == <<slotPending, fenceOf, fenceUp, gpu, haveHistory>>
localVars == <<gen, unwaited, draining, first, second>>
semVars == <<semApp, semReal, semGenerated>>
screenVars == <<real, comp>>
vars == <<pc, asleep, hookVars, inFlight, work, jobs, lifeVars, workerFailed,
          slotVars, localVars, deferred, semVars, screenVars, failures>>

Init ==
    /\ pc = [app |-> "idle", worker |-> "take", presenter |-> "next"]
    /\ asleep = {}
    /\ given = 0
    /\ hook = [frame |-> 0, slot |-> 0]
    /\ after = "return"
    /\ slotIndex = 0
    /\ genEnabled = TRUE
    /\ inFlight = 0
    /\ work = <<>>
    /\ jobs = <<>>
    /\ workerOn = FALSE /\ presenterOn = FALSE
    /\ workerStop = FALSE /\ presenterStop = FALSE
    /\ workerFailed = FALSE
    /\ slotPending = [s \in Slot |-> FALSE]
    /\ fenceOf = [s \in Slot |-> 0]
    /\ fenceUp = [s \in Slot |-> FALSE]
    /\ gpu = <<>>
    /\ haveHistory = FALSE
    /\ gen = [t \in Generator |-> FALSE]
    /\ unwaited = FALSE /\ draining = FALSE
    /\ first = "ok" /\ second = "ok"
    /\ deferred = "ok"
    /\ semApp = [s \in Slot |-> 0]
    /\ semReal = {} /\ semGenerated = {}
    /\ real = 0 /\ comp = FALSE
    /\ failures = 0

-----------------------------------------------------------------------------
(* Condition variables. *)

WorkerBusy == pc["worker"] \notin {"take", "exited"}

\* The condition variable thread t waits on where it stands.
CondOf(t) ==
    CASE pc[t] \in {"reserve", "drainJobs", "handoff"} -> "drain_cond"
      [] pc[t] \in {"enqueue", "drainWork"} -> "work_drain_cond"
      [] pc[t] = "take" -> "work_cond"
      [] pc[t] = "next" -> "job_cond"
      [] OTHER -> "none"

\* The loop conditions around those waits.
\* (Definitions named Bug... are what a mistake in the code would make of the
\* next definition; nothing in the specification uses them.)
BugSlotsTaken == inFlight > ImageCount /\ ~presenterStop
SlotsTaken == inFlight >= ImageCount /\ ~presenterStop
WorkFull == Len(work) = MaxJobs
JobsFull == Len(jobs) = MaxJobs
BugWorkerBehind == FALSE
WorkerBehind == workerOn /\ (work # <<>> \/ WorkerBusy)
BugPresenterBehind == FALSE
PresenterBehind == presenterOn /\ jobs # <<>>

MustWait(t) ==
    \/ pc[t] = "reserve" /\ SlotsTaken
    \/ pc[t] = "enqueue" /\ WorkFull
    \/ pc[t] = "handoff" /\ JobsFull
    \/ pc[t] = "drainWork" /\ WorkerBehind
    \/ pc[t] = "drainJobs" /\ PresenterBehind
    \/ pc[t] = "take" /\ work = <<>> /\ ~workerStop
    \/ pc[t] = "next" /\ jobs = <<>> /\ ~presenterStop

Running(t) == t = "app" \/ (t = "worker" /\ workerOn) \/ (t = "presenter" /\ presenterOn)

\* Thread t is about to run the step labelled `label`.
At(t, label) == Running(t) /\ t \notin asleep /\ pc[t] = label

\* The same, past the wait loop in front of that step.
Past(t, label) == At(t, label) /\ ~MustWait(t)

Goto(t, label) == pc' = [pc EXCEPT ![t] = label]

\* One waiter woken instead of all.
BugBroadcast(cond) ==
    IF \E t \in asleep : CondOf(t) = cond
    THEN \E t \in asleep : CondOf(t) = cond /\ asleep' = asleep \ {t}
    ELSE UNCHANGED asleep

Broadcast(cond) == asleep' = {t \in asleep : CondOf(t) # cond}

\* pthread_cond_wait: the condition holds the thread back, and it sleeps.
Wait(t) ==
    /\ Running(t) /\ t \notin asleep /\ MustWait(t)
    /\ asleep' = asleep \union {t}
    /\ UNCHANGED <<pc, hookVars, inFlight, work, jobs, lifeVars, workerFailed, slotVars,
                   localVars, deferred, semVars, screenVars, failures>>

-----------------------------------------------------------------------------
(* The hook: vkQueuePresentKHR on a swapchain the layer knows. *)

\* Both threads run, or afmf_sc_presenter_start would start what is missing.
ThreadsReady == presenterOn /\ workerOn
MayStart == ~ThreadsReady /\ Async /\ ~presenterStop /\ ~workerStop

StartThreads ==
    \/ ThreadsReady /\ UNCHANGED lifeVars
    \/ MayStart /\ presenterOn' = TRUE /\ workerOn' = TRUE
       /\ UNCHANGED <<workerStop, presenterStop>>

\* No thread to hand the frame to: a creation fails, now or earlier, or the
\* layer has no queue of its own.
NoThreads ==
    \/ ~ThreadsReady /\ ~MayStart /\ UNCHANGED lifeVars
    \/ /\ MayStart /\ ThreadsMayFail
       /\ \/ ~presenterOn /\ presenterStop' = TRUE
             /\ UNCHANGED <<workerOn, presenterOn, workerStop>>
          \/ presenterOn' = TRUE /\ workerStop' = TRUE
             /\ UNCHANGED <<workerOn, presenterStop>>

\* The hook's entry: one more frame, on its way to `label`.
Present(label) ==
    /\ At("app", "idle") /\ given < MaxFrames
    /\ given' = given + 1
    /\ Goto("app", label)
    /\ UNCHANGED <<asleep, genEnabled, inFlight, work, jobs, workerFailed, slotVars,
                   localVars, deferred, semVars, screenVars, failures>>

TakeSlot ==
    /\ hook' = [frame |-> given + 1, slot |-> slotIndex]
    /\ slotIndex' = (slotIndex + 1) % ImageCount

PresentThreaded ==
    /\ genEnabled /\ "threaded" \in Paths
    /\ Present("reserve")
    /\ StartThreads /\ TakeSlot
    /\ UNCHANGED after

\* A chain the threads cannot carry, or no threads: drain, then inline.
PresentInline ==
    /\ genEnabled
    /\ Present("drainWork")
    /\ ("inline" \in Paths /\ StartThreads) \/ NoThreads
    /\ TakeSlot
    /\ after' = "inline"

\* No usable command pool, or too many wait semaphores: generation ends.
PresentUnfit ==
    /\ genEnabled /\ "unfit" \in Paths
    /\ Present("stopWorker")
    /\ hook' = [frame |-> given + 1, slot |-> slotIndex]
    /\ after' = "pass"
    /\ UNCHANGED <<slotIndex, lifeVars>>

PresentDisabled ==
    /\ ~genEnabled
    /\ Present("pass")
    /\ hook' = [frame |-> given + 1, slot |-> slotIndex]
    /\ UNCHANGED <<after, slotIndex, lifeVars>>

\* The application's own present goes down unchanged.
PassThrough ==
    /\ At("app", "pass")
    /\ real' = hook.frame /\ comp' = FALSE
    /\ Goto("app", "idle")
    /\ UNCHANGED <<asleep, hookVars, inFlight, work, jobs, lifeVars, workerFailed,
                   slotVars, localVars, deferred, semVars, failures>>

HookReserve ==
    /\ Past("app", "reserve")
    /\ inFlight' = inFlight + 1
    /\ Goto("app", "adapter")
    /\ UNCHANGED <<asleep, hookVars, work, jobs, lifeVars, workerFailed, slotVars,
                   localVars, deferred, semVars, screenVars, failures>>

\* The empty submission that turns the application's semaphores into sem_app.
AdapterSubmit ==
    /\ At("app", "adapter")
    /\ semApp' = [semApp EXCEPT ![hook.slot] = @ + 1]
    /\ Goto("app", "enqueue")
    /\ UNCHANGED <<asleep, hookVars, inFlight, work, jobs, lifeVars, workerFailed,
                   slotVars, localVars, deferred, semReal, semGenerated, screenVars,
                   failures>>

\* The frame reserved in in_flight is not given back.
BugAdapterFail ==
    /\ At("app", "adapter") /\ failures < MaxFailures
    /\ failures' = failures + 1
    /\ Broadcast("drain_cond")
    /\ slotIndex' = hook.slot
    /\ after' = "pass"
    /\ Goto("app", "stopWorker")
    /\ UNCHANGED <<given, hook, genEnabled, inFlight, work, jobs, lifeVars, workerFailed,
                   slotVars, localVars, deferred, semVars, screenVars>>

AdapterFail ==
    /\ At("app", "adapter") /\ failures < MaxFailures
    /\ failures' = failures + 1
    /\ inFlight' = inFlight - 1
    /\ Broadcast("drain_cond")
    /\ slotIndex' = hook.slot
    /\ after' = "pass"
    /\ Goto("app", "stopWorker")
    /\ UNCHANGED <<given, hook, genEnabled, work, jobs, lifeVars, workerFailed, slotVars,
                   localVars, deferred, semVars, screenVars>>

Enqueue ==
    /\ Past("app", "enqueue")
    /\ work' = Append(work, hook)
    /\ Broadcast("work_cond")
    /\ Goto("app", "collect")
    /\ UNCHANGED <<hookVars, inFlight, jobs, lifeVars, workerFailed, slotVars, localVars,
                   deferred, semVars, screenVars, failures>>

\* The call returns the results of earlier presents.  A failure of the work
\* thread ends generation, after the frames already queued.
Collect ==
    /\ At("app", "collect")
    /\ deferred' = "ok"
    /\ IF workerFailed
       THEN after' = "return" /\ Goto("app", "stopWorker")
       ELSE UNCHANGED after /\ Goto("app", "idle")
    /\ UNCHANGED <<asleep, given, hook, slotIndex, genEnabled, inFlight, work, jobs,
                   lifeVars, workerFailed, slotVars, localVars, semVars, screenVars, failures>>

-----------------------------------------------------------------------------
(* Draining, stopping, disabling, destroying: always on an application     *)
(* thread, always in the same order.                                       *)

DeviceWaitIdle ==
    /\ At("app", "idle")
    /\ after' = "waitIdle"
    /\ Goto("app", "drainWork")
    /\ UNCHANGED <<asleep, given, hook, slotIndex, genEnabled, inFlight, work, jobs,
                   lifeVars, workerFailed, slotVars, localVars, deferred, semVars,
                   screenVars, failures>>

WorkerDrained ==
    /\ Past("app", "drainWork")
    /\ Goto("app", "drainJobs")
    /\ UNCHANGED <<asleep, hookVars, inFlight, work, jobs, lifeVars, workerFailed,
                   slotVars, localVars, deferred, semVars, screenVars, failures>>

PresenterDrained ==
    /\ Past("app", "drainJobs")
    /\ Goto("app", IF after = "inline" THEN "fence" ELSE "deviceIdle")
    /\ UNCHANGED <<asleep, hookVars, inFlight, work, jobs, lifeVars, workerFailed,
                   slotVars, localVars, deferred, semVars, screenVars, failures>>

\* vkDeviceWaitIdle itself, below the layer.
DeviceIdle ==
    /\ At("app", "deviceIdle") /\ gpu = <<>>
    /\ Goto("app", "idle")
    /\ UNCHANGED <<asleep, hookVars, inFlight, work, jobs, lifeVars, workerFailed,
                   slotVars, localVars, deferred, semVars, screenVars, failures>>

DestroySwapchain ==
    /\ At("app", "idle")
    /\ after' = "free"
    /\ Goto("app", "stopWorker")
    /\ UNCHANGED <<asleep, given, hook, slotIndex, genEnabled, inFlight, work, jobs,
                   lifeVars, workerFailed, slotVars, localVars, deferred, semVars,
                   screenVars, failures>>

\* The flag is set, but the work thread is not woken.
BugStopWorker ==
    /\ At("app", "stopWorker")
    /\ IF workerOn
       THEN workerStop' = TRUE /\ Goto("app", "joinWorker")
       ELSE UNCHANGED workerStop /\ Goto("app", "stopPresenter")
    /\ UNCHANGED <<asleep, hookVars, inFlight, work, jobs, workerOn, presenterOn,
                   presenterStop, workerFailed, slotVars, localVars, deferred, semVars,
                   screenVars, failures>>

StopWorker ==
    /\ At("app", "stopWorker")
    /\ IF workerOn
       THEN workerStop' = TRUE /\ Broadcast("work_cond") /\ Goto("app", "joinWorker")
       ELSE UNCHANGED <<workerStop, asleep>> /\ Goto("app", "stopPresenter")
    /\ UNCHANGED <<hookVars, inFlight, work, jobs, workerOn, presenterOn, presenterStop,
                   workerFailed, slotVars, localVars, deferred, semVars, screenVars, failures>>

JoinWorker ==
    /\ At("app", "joinWorker") /\ pc["worker"] = "exited"
    /\ workerOn' = FALSE
    /\ Goto("app", "stopPresenter")
    /\ UNCHANGED <<asleep, hookVars, inFlight, work, jobs, presenterOn, workerStop,
                   presenterStop, workerFailed, slotVars, localVars, deferred, semVars,
                   screenVars, failures>>

StopPresenter ==
    /\ At("app", "stopPresenter")
    /\ IF presenterOn
       THEN presenterStop' = TRUE /\ Broadcast("job_cond") /\ Goto("app", "joinPresenter")
       ELSE UNCHANGED <<presenterStop, asleep>> /\ Goto("app", "stopped")
    /\ UNCHANGED <<hookVars, inFlight, work, jobs, workerOn, presenterOn, workerStop,
                   workerFailed, slotVars, localVars, deferred, semVars, screenVars, failures>>

JoinPresenter ==
    /\ At("app", "joinPresenter") /\ pc["presenter"] = "exited"
    /\ presenterOn' = FALSE
    /\ Goto("app", "stopped")
    /\ UNCHANGED <<asleep, hookVars, inFlight, work, jobs, workerOn, workerStop,
                   presenterStop, workerFailed, slotVars, localVars, deferred, semVars,
                   screenVars, failures>>

\* The end of afmf_sc_gen_disable; a frame the layer could not take is then
\* presented as the application asked.
Disable ==
    /\ At("app", "stopped") /\ after \in {"pass", "return"}
    /\ genEnabled' = FALSE
    /\ Goto("app", IF after = "pass" THEN "pass" ELSE "idle")
    /\ UNCHANGED <<asleep, given, hook, after, slotIndex, inFlight, work, jobs, lifeVars,
                   workerFailed, slotVars, localVars, deferred, semVars, screenVars, failures>>

\* The rest of afmf_sc_gen_teardown: the layer's queue idle, the pending
\* slots' fences waited for, everything destroyed.
Free ==
    /\ At("app", "stopped") /\ after = "free"
    /\ Async => gpu = <<>>
    /\ \A s \in Slot : slotPending[s] => fenceUp[s]
    /\ genEnabled' = FALSE
    /\ Goto("app", "gone")
    /\ UNCHANGED <<asleep, given, hook, after, slotIndex, inFlight, work, jobs, lifeVars,
                   workerFailed, slotVars, localVars, deferred, semVars, screenVars, failures>>

-----------------------------------------------------------------------------
(* afmf_sc_frame_generate, run by the work thread or, inline, by the       *)
(* application's.                                                          *)

Item(t) == IF t = "worker" THEN Head(work) ELSE hook

\* The slot's last submission is waited for and its fence reset.
GenFence(t) ==
    /\ At(t, "fence")
    /\ LET s == Item(t).slot
       IN IF slotPending[s]
          THEN /\ fenceUp[s]
               /\ fenceUp' = [fenceUp EXCEPT ![s] = FALSE]
               /\ fenceOf' = [fenceOf EXCEPT ![s] = 0]
               /\ slotPending' = [slotPending EXCEPT ![s] = FALSE]
          ELSE UNCHANGED <<fenceUp, fenceOf, slotPending>>
    /\ Goto(t, "decide")
    /\ UNCHANGED <<asleep, hookVars, inFlight, work, jobs, lifeVars, workerFailed, gpu,
                   haveHistory, localVars, deferred, semVars, screenVars, failures>>

\* The governor and the spare image decide about a companion; without
\* history there is none.
GenDecide(t) ==
    /\ At(t, "decide")
    /\ \E g \in BOOLEAN :
          /\ g => haveHistory
          /\ gen' = [gen EXCEPT ![t] = g]
    /\ Goto(t, "submit")
    /\ UNCHANGED <<asleep, hookVars, inFlight, work, jobs, lifeVars, workerFailed, slotVars,
                   unwaited, draining, first, second, deferred, semVars, screenVars, failures>>

\* Recorded and submitted: waits on the application's semaphores (through
\* sem_app on the work thread), signals sem_real, sem_generated, the fence.
GenSubmit(t) ==
    /\ At(t, "submit")
    /\ LET item == Item(t)
           s == item.slot
       IN /\ fenceOf' = [fenceOf EXCEPT ![s] = item.frame]
          /\ slotPending' = [slotPending EXCEPT ![s] = TRUE]
          /\ gpu' = Append(gpu, s)
          /\ semApp' = IF t = "worker" THEN [semApp EXCEPT ![s] = @ - 1] ELSE semApp
          /\ semReal' = semReal \union {item.frame}
          /\ semGenerated' = IF gen[t] THEN semGenerated \union {item.frame}
                                       ELSE semGenerated
    /\ haveHistory' = TRUE
    /\ Goto(t, IF t = "worker" THEN "handoff"
               ELSE IF gen[t] THEN "inlineCompanion" ELSE "inlineReal")
    /\ UNCHANGED <<asleep, hookVars, inFlight, work, jobs, lifeVars, workerFailed, fenceUp,
                   localVars, deferred, screenVars, failures>>

\* The frame is handed on without the submission that signals sem_real.
BugGenFailWorker ==
    /\ At("worker", "submit") /\ failures < MaxFailures
    /\ failures' = failures + 1
    /\ Goto("worker", "handoff")
    /\ UNCHANGED <<asleep, hookVars, inFlight, work, jobs, lifeVars, workerFailed, slotVars,
                   localVars, deferred, semVars, screenVars>>

GenFailWorker ==
    /\ At("worker", "submit") /\ failures < MaxFailures
    /\ failures' = failures + 1
    /\ Goto("worker", "passOn")
    /\ UNCHANGED <<asleep, hookVars, inFlight, work, jobs, lifeVars, workerFailed, slotVars,
                   localVars, deferred, semVars, screenVars>>

\* Inline nothing was consumed: the application's own present still works.
GenFailInline ==
    /\ At("app", "submit") /\ failures < MaxFailures
    /\ failures' = failures + 1
    /\ slotIndex' = hook.slot
    /\ after' = "pass"
    /\ Goto("app", "stopWorker")
    /\ UNCHANGED <<asleep, given, hook, genEnabled, inFlight, work, jobs, lifeVars,
                   workerFailed, slotVars, localVars, deferred, semVars, screenVars>>

InlineCompanion ==
    /\ At("app", "inlineCompanion")
    /\ comp' = TRUE
    /\ semGenerated' = semGenerated \ {hook.frame}
    /\ Goto("app", "inlineReal")
    /\ UNCHANGED <<asleep, hookVars, inFlight, work, jobs, lifeVars, workerFailed, slotVars,
                   localVars, deferred, semApp, semReal, real, failures>>

InlineReal ==
    /\ At("app", "inlineReal")
    /\ real' = hook.frame /\ comp' = FALSE
    /\ semReal' = semReal \ {hook.frame}
    /\ Goto("app", "idle")
    /\ UNCHANGED <<asleep, hookVars, inFlight, work, jobs, lifeVars, workerFailed, slotVars,
                   localVars, deferred, semApp, semGenerated, failures>>

-----------------------------------------------------------------------------
(* The work thread. *)

WorkerTake ==
    /\ Past("worker", "take") /\ work # <<>>
    /\ unwaited' = FALSE
    /\ Goto("worker", "fence")
    /\ UNCHANGED <<asleep, hookVars, inFlight, work, jobs, lifeVars, workerFailed, slotVars,
                   gen, draining, first, second, deferred, semVars, screenVars, failures>>

\* A stop ends the thread at once, with frames still queued.
BugWorkerExit ==
    /\ At("worker", "take") /\ workerStop
    /\ Goto("worker", "exited")
    /\ UNCHANGED <<asleep, hookVars, inFlight, work, jobs, lifeVars, workerFailed, slotVars,
                   localVars, deferred, semVars, screenVars, failures>>

WorkerExit ==
    /\ Past("worker", "take") /\ work = <<>>
    /\ Goto("worker", "exited")
    /\ UNCHANGED <<asleep, hookVars, inFlight, work, jobs, lifeVars, workerFailed, slotVars,
                   localVars, deferred, semVars, screenVars, failures>>

\* After a failure: an empty submission passes sem_app on to sem_real; when
\* that fails too the real frame is presented without its wait.
WorkerPassOn ==
    /\ At("worker", "passOn")
    /\ LET item == Head(work)
       IN \/ /\ semApp' = [semApp EXCEPT ![item.slot] = @ - 1]
             /\ semReal' = semReal \union {item.frame}
             /\ UNCHANGED <<unwaited, failures>>
          \/ /\ failures < MaxFailures
             /\ failures' = failures + 1
             /\ unwaited' = TRUE
             /\ UNCHANGED <<semApp, semReal>>
    /\ gen' = [gen EXCEPT !["worker"] = FALSE]
    /\ deferred' = "error"
    /\ workerFailed' = TRUE
    /\ Goto("worker", "handoff")
    /\ UNCHANGED <<asleep, hookVars, inFlight, work, jobs, lifeVars, slotVars, draining,
                   first, second, semGenerated, screenVars>>

WorkerHandoff ==
    /\ Past("worker", "handoff")
    /\ jobs' = Append(jobs, [frame |-> Head(work).frame, slot |-> Head(work).slot,
                             generate |-> gen["worker"], unwaited |-> unwaited])
    /\ Broadcast("job_cond")
    /\ Goto("worker", "pop")
    /\ UNCHANGED <<hookVars, inFlight, work, lifeVars, workerFailed, slotVars, localVars,
                   deferred, semVars, screenVars, failures>>

WorkerPop ==
    /\ At("worker", "pop")
    /\ work' = Tail(work)
    /\ Broadcast("work_drain_cond")
    /\ Goto("worker", "take")
    /\ UNCHANGED <<hookVars, inFlight, jobs, lifeVars, workerFailed, slotVars, localVars,
                   deferred, semVars, screenVars, failures>>

-----------------------------------------------------------------------------
(* The presentation thread: the job it works on stays at the head of jobs. *)

PresenterNext ==
    /\ Past("presenter", "next") /\ jobs # <<>>
    /\ draining' = presenterStop
    /\ first' = "ok"
    /\ Goto("presenter", IF Head(jobs).generate THEN "companion" ELSE "real")
    /\ UNCHANGED <<asleep, hookVars, inFlight, work, jobs, lifeVars, workerFailed, slotVars,
                   gen, unwaited, second, deferred, semVars, screenVars, failures>>

PresenterExit ==
    /\ Past("presenter", "next") /\ jobs = <<>>
    /\ Goto("presenter", "exited")
    /\ UNCHANGED <<asleep, hookVars, inFlight, work, jobs, lifeVars, workerFailed, slotVars,
                   localVars, deferred, semVars, screenVars, failures>>

PresenterCompanion ==
    /\ At("presenter", "companion")
    /\ comp' = TRUE
    /\ semGenerated' = semGenerated \ {Head(jobs).frame}
    /\ \E r \in Results : first' = r
    /\ Goto("presenter", IF Pacing /\ ~draining THEN "pace" ELSE "real")
    /\ UNCHANGED <<asleep, hookVars, inFlight, work, jobs, lifeVars, workerFailed, slotVars,
                   gen, unwaited, draining, second, deferred, semApp, semReal, real, failures>>

\* The wait on the slot's fence ends by the signal or by its timeout; the hold
\* that follows, by the next job, a stop, or its own timeout.
PresenterPaced ==
    /\ At("presenter", "pace")
    /\ Goto("presenter", "hold")
    /\ UNCHANGED <<asleep, hookVars, inFlight, work, jobs, lifeVars, workerFailed, slotVars,
                   localVars, deferred, semVars, screenVars, failures>>

PresenterHeld ==
    /\ At("presenter", "hold")
    /\ Goto("presenter", "real")
    /\ UNCHANGED <<asleep, hookVars, inFlight, work, jobs, lifeVars, workerFailed, slotVars,
                   localVars, deferred, semVars, screenVars, failures>>

PresenterReal ==
    /\ At("presenter", "real")
    /\ real' = Head(jobs).frame /\ comp' = FALSE
    /\ semReal' = IF Head(jobs).unwaited THEN semReal ELSE semReal \ {Head(jobs).frame}
    /\ \E r \in Results : second' = r
    /\ Goto("presenter", "finish")
    /\ UNCHANGED <<asleep, hookVars, inFlight, work, jobs, lifeVars, workerFailed, slotVars,
                   gen, unwaited, draining, first, deferred, semApp, semGenerated, failures>>

\* A suboptimal companion hides the real frame's error.
BugWorst == IF first # "ok" THEN first ELSE second

\* The worse of the frame's two results.
Worst ==
    IF first = "error" THEN first
    ELSE IF second = "error" THEN second
    ELSE IF first # "ok" THEN first ELSE second

PresenterFinish ==
    /\ At("presenter", "finish")
    /\ deferred' = IF deferred # "error" /\ (Worst = "error" \/ deferred = "ok")
                   THEN Worst ELSE deferred
    /\ jobs' = Tail(jobs)
    /\ inFlight' = inFlight - 1
    /\ Broadcast("drain_cond")
    /\ Goto("presenter", "next")
    /\ UNCHANGED <<hookVars, work, lifeVars, workerFailed, slotVars, localVars, semVars,
                   screenVars, failures>>

-----------------------------------------------------------------------------
\* The GPU finishes the layer's oldest submission and signals its fence.
GpuComplete ==
    /\ gpu # <<>>
    /\ fenceUp' = [fenceUp EXCEPT ![Head(gpu)] = TRUE]
    /\ gpu' = Tail(gpu)
    /\ UNCHANGED <<pc, asleep, hookVars, inFlight, work, jobs, lifeVars, workerFailed,
                   slotPending, fenceOf, haveHistory, localVars, deferred, semVars,
                   screenVars, failures>>

\* The swapchain is gone: nothing is left to do.
Terminated == pc["app"] = "gone" /\ UNCHANGED vars

\* What the application does of its own accord, and what a call then does.
AppCall ==
    \/ PresentThreaded \/ PresentInline \/ PresentUnfit \/ PresentDisabled
    \/ DeviceWaitIdle \/ DestroySwapchain
AppStep ==
    \/ Wait("app")
    \/ PassThrough \/ HookReserve \/ AdapterSubmit \/ AdapterFail \/ Enqueue \/ Collect
    \/ WorkerDrained \/ PresenterDrained \/ DeviceIdle
    \/ StopWorker \/ JoinWorker \/ StopPresenter \/ JoinPresenter \/ Disable \/ Free
    \/ GenFence("app") \/ GenDecide("app") \/ GenSubmit("app") \/ GenFailInline
    \/ InlineCompanion \/ InlineReal
WorkerStep ==
    \/ Wait("worker")
    \/ WorkerTake \/ WorkerExit
    \/ GenFence("worker") \/ GenDecide("worker") \/ GenSubmit("worker") \/ GenFailWorker
    \/ WorkerPassOn \/ WorkerHandoff \/ WorkerPop
PresenterStep ==
    \/ Wait("presenter")
    \/ PresenterNext \/ PresenterExit \/ PresenterCompanion
    \/ PresenterPaced \/ PresenterHeld \/ PresenterReal \/ PresenterFinish

Next == AppCall \/ AppStep \/ WorkerStep \/ PresenterStep \/ GpuComplete \/ Terminated

Spec == Init /\ [][Next]_vars

\* Threads are scheduled, the driver answers and the GPU finishes what it was
\* given; the application need not call again.
Fairness ==
    /\ WF_vars(AppStep) /\ WF_vars(WorkerStep)
    /\ WF_vars(PresenterStep) /\ WF_vars(GpuComplete)
FairSpec == Spec /\ Fairness

-----------------------------------------------------------------------------
PcOK ==
    /\ pc \in [Thread -> AppPC \union WorkerPC \union PresenterPC]
    /\ pc["app"] \in AppPC
    /\ pc["worker"] \in WorkerPC
    /\ pc["presenter"] \in PresenterPC
    /\ asleep \subseteq Thread
HookOK ==
    /\ given \in 0 .. MaxFrames
    /\ hook \in [frame : 0 .. MaxFrames, slot : Slot]
    /\ after \in {"return", "pass", "free", "inline", "waitIdle"}
    /\ slotIndex \in Slot
    /\ genEnabled \in BOOLEAN
QueuesOK ==
    /\ inFlight \in Int
    /\ work \in Seq(WorkItem) /\ Len(work) <= MaxJobs
    /\ jobs \in Seq(Job) /\ Len(jobs) <= MaxJobs
LifeOK ==
    /\ workerOn \in BOOLEAN /\ presenterOn \in BOOLEAN
    /\ workerStop \in BOOLEAN /\ presenterStop \in BOOLEAN
    /\ workerFailed \in BOOLEAN
SlotsOK ==
    /\ slotPending \in [Slot -> BOOLEAN]
    /\ fenceOf \in [Slot -> 0 .. MaxFrames]
    /\ fenceUp \in [Slot -> BOOLEAN]
    /\ gpu \in Seq(Slot)
    /\ haveHistory \in BOOLEAN
LocalsOK ==
    /\ gen \in [Generator -> BOOLEAN]
    /\ unwaited \in BOOLEAN /\ draining \in BOOLEAN
    /\ first \in Result /\ second \in Result /\ deferred \in Result
SemaphoresOK ==
    /\ semApp \in [Slot -> Int]
    /\ semReal \subseteq Frame /\ semGenerated \subseteq Frame
ScreenOK == real \in 0 .. MaxFrames /\ comp \in BOOLEAN /\ failures \in 0 .. MaxFailures

\* The type invariant.  The queues never outgrow the arrays behind them
\* (AFMF_MAX_JOBS), and a fence never belongs to a frame that was not given.
TypeOK ==
    /\ PcOK /\ HookOK /\ QueuesOK /\ LifeOK
    /\ SlotsOK /\ LocalsOK /\ SemaphoresOK /\ ScreenOK

\* Frames inside the pipeline are counted exactly: in_flight is the frames
\* queued on either thread plus the one the hook has reserved, and never more
\* than the swapchain's images (the bound swapchain.c:38-40 relies on).
InFlightExact ==
    /\ inFlight <= ImageCount
    /\ inFlight = Len(work) + Len(jobs)
                  - (IF pc["worker"] = "pop" THEN 1 ELSE 0)
                  + (IF pc["app"] \in {"adapter", "enqueue"} THEN 1 ELSE 0)

\* While the presentation thread waits on a frame's fence for the pacing, the
\* fence still is that frame's: the work thread has neither reset it nor
\* submitted a later frame with it (swapchain.c:38-40).
PacingFenceIsOwn ==
    pc["presenter"] = "pace" => fenceOf[Head(jobs).slot] = Head(jobs).frame

\* sem_app is a binary semaphore: never waited on without a signal submitted
\* before, and signalled twice only after a submission and the one that was to
\* pass its wait on failed both (swapchain_internal.h:113-117).
SemAppBinary == \A s \in Slot : semApp[s] >= 0 /\ (semApp[s] > 1 => failures > 1)

\* A present the presentation thread is about to make waits on a semaphore that
\* a submission signals, or on none; otherwise it would wait for ever
\* (swapchain_worker.c:137-140).
PresentsCanComplete ==
    /\ pc["presenter"] = "real" =>
          Head(jobs).unwaited \/ Head(jobs).frame \in semReal
    /\ pc["presenter"] = "companion" => Head(jobs).frame \in semGenerated

\* No lost wake-up: a thread asleep on its condition variable really has to
\* wait, whichever of the others broadcast last, and on which variable.
NoLostWakeup == \A t \in asleep : MustWait(t)

\* frame_generate takes no lock for the slots, the framegen state and the
\* history: inline on the application's thread it runs only while the work
\* thread is idle and every queued frame is on screen.
InlineRunsAlone ==
    pc["app"] \in {"fence", "decide", "submit", "inlineCompanion", "inlineReal"} =>
        /\ ~WorkerBusy /\ work = <<>> /\ jobs = <<>>
        /\ pc["presenter"] \in {"next", "exited"}
        /\ real = hook.frame - 1

\* Once the swapchain is freed nobody can touch it: both threads joined, both
\* queues empty, every frame of the application presented, and with a queue of
\* its own nothing of the layer's left on the GPU.
FreedIsQuiet ==
    pc["app"] = "gone" =>
        /\ ~workerOn /\ ~presenterOn
        /\ work = <<>> /\ jobs = <<>> /\ inFlight = 0
        /\ real = given
        /\ Async => gpu = <<>>

\* vkDeviceWaitIdle returns with every frame presented and the GPU done.
WaitIdleReturnsIdle ==
    [][pc["app"] = "deviceIdle" /\ pc'["app"] # "deviceIdle" =>
          real = given /\ inFlight = 0 /\ gpu = <<>>]_vars

\* Every call the application makes returns, whatever fails meanwhile.
CallsReturn == (pc["app"] \notin {"idle", "gone"}) ~> (pc["app"] \in {"idle", "gone"})

\* The pipeline implements the abstract frame stream.
Stream == INSTANCE FrameStream
StreamSafety == Stream!Safety
StreamSpec == Stream!Spec
=============================================================================
