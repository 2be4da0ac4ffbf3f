---------------------------- MODULE LayerQueues ----------------------------
(***************************************************************************)
(* The queues and the swapchains of one device: the application's threads  *)
(* in the entry points of layer_queue.c, in the present hook and in the    *)
(* creation and destruction of swapchains, and the two threads of each     *)
(* swapchain, all using the layer's queue.                                 *)
(*                                                                         *)
(* What a frame goes through is reduced to two counters here (the pipeline *)
(* is the subject of PresentPipeline); what is kept is who is in the       *)
(* driver with which queue, who holds which lock, and which swapchains     *)
(* exist.  One action is one critical section or one call into the driver. *)
(***************************************************************************)
EXTENDS Integers, FiniteSets, Sequences

CONSTANTS
    Apps,           \* the application's threads
    Swapchains,
    AppQueues,      \* the queues the application created
    Own,            \* a queue only the layer has
    None,           \* VK_NULL_HANDLE, no thread
    QueryMayFail,   \* vkGetPhysicalDeviceSurfaceSupportKHR may fail
    InFlight,       \* image_count, the frames of a swapchain in flight
    MaxCalls        \* bound: calls of the application, creations aside

App(a) == [kind |-> "app", of |-> a]
Worker(s) == [kind |-> "worker", of |-> s]
Presenter(s) == [kind |-> "presenter", of |-> s]
Threads == {App(a) : a \in Apps} \union {Worker(s) : s \in Swapchains}
                                  \union {Presenter(s) : s \in Swapchains}

ASSUME QueuesAssumption == Own \notin AppQueues /\ None \notin AppQueues \union {Own}
ASSUME LockAssumption == None \notin Threads /\ None \notin Swapchains
ASSUME CountAssumption ==
    InFlight \in Nat \ {0} /\ MaxCalls \in Nat /\ QueryMayFail \in BOOLEAN

VARIABLES
    layerQueue,     \* dev->async_queue, fixed at the device's creation
    driver,         \* for each thread the queues of the driver call it is in
    asyncOwner,     \* who holds dev->async_lock
    devOwner,       \* who holds dev->lock
    pc, call,       \* for each application thread its place and its call
    todo,           \* for each application thread the swapchains still to do
    list,           \* dev->swapchains
    life,           \* "none", "listed", "unlisted" or "freed"
    async,          \* sc->async: "yes", "cannot" (present), "failed" (query)
    work, jobs,     \* sc->work_count, sc->job_count
    wpc, ppc,       \* the place of each work and presentation thread
    registered,     \* the device is in the layer's table
    calls           \* calls so far

locks == <<asyncOwner, devOwner>>
apps == <<pc, call, todo>>
swapchains == <<list, life, async>>
queues == <<work, jobs>>
threads == <<wpc, ppc>>
vars == <<layerQueue, driver, locks, apps, swapchains, queues, threads, registered, calls>>

Calls == [kind : {"none", "queue", "present", "idle", "create", "destroy", "end"},
          queue : AppQueues \union {None}, sc : Swapchains \union {None}]
NoCall == [kind |-> "none", queue |-> None, sc |-> None]

Shared == layerQueue \in AppQueues
\* Every queue of the device, which a wait for the device uses.
AllQueues == AppQueues \union ({layerQueue} \ {None})

Init ==
    /\ layerQueue \in AppQueues \union {Own, None}
    /\ driver = [t \in Threads |-> {}]
    /\ asyncOwner = None /\ devOwner = None
    /\ pc = [a \in Apps |-> "idle"]
    /\ call = [a \in Apps |-> NoCall]
    /\ todo = [a \in Apps |-> <<>>]
    /\ list = <<>>
    /\ life = [s \in Swapchains |-> "none"]
    /\ async = [s \in Swapchains |-> "cannot"]
    /\ work = [s \in Swapchains |-> 0]
    /\ jobs = [s \in Swapchains |-> 0]
    /\ wpc = [s \in Swapchains |-> "next"]
    /\ ppc = [s \in Swapchains |-> "next"]
    /\ registered = TRUE
    /\ calls = 0

-----------------------------------------------------------------------------
(* Small steps of an application's thread.                                 *)

Goto(a, label) == pc' = [pc EXCEPT ![a] = label]
Enter(t, Q) == driver' = [driver EXCEPT ![t] = Q]
Leave(t) == driver' = [driver EXCEPT ![t] = {}]
\* The lock is given back by the one that has it, if it was taken at all.
Unlock(t) == asyncOwner' = IF asyncOwner = t THEN None ELSE asyncOwner

\* The list without one of its swapchains; the newest is first.
Unlinked(s) ==
    LET n == CHOOSE n \in DOMAIN list : list[n] = s
    IN  [m \in 1 .. Len(list) - 1 |-> IF m < n THEN list[m] ELSE list[m + 1]]

-----------------------------------------------------------------------------
(* What Vulkan asks of the application: queues, swapchains and the device  *)
(* are externally synchronised.                                            *)

Uses(a) ==
    IF call[a].kind \in {"queue", "present"} THEN {call[a].queue}
    ELSE IF call[a].kind \in {"idle", "end"} THEN AppQueues ELSE {}

MayCall(a, Q, S) ==
    /\ registered /\ pc[a] = "idle" /\ calls < MaxCalls
    /\ \A b \in Apps : Uses(b) \intersect Q = {} /\ call[b].sc \notin S
    /\ \A b \in Apps : call[b].kind # "end"

Begin(a, c, label) ==
    /\ call' = [call EXCEPT ![a] = c]
    /\ Goto(a, label)
    /\ calls' = calls + 1
    /\ UNCHANGED <<layerQueue, driver, locks, todo, swapchains, queues, threads, registered>>

-----------------------------------------------------------------------------
(* Submissions, sparse binds, waits for a queue, presents passed on.       *)

\* A mistake: the application's own calls are forwarded whatever the queue.
BugSharedQueue(q) == FALSE
SharedQueue(q) == Shared /\ q = layerQueue

CallQueue(a, q) ==
    /\ MayCall(a, {q}, {})
    /\ Begin(a, [kind |-> "queue", queue |-> q, sc |-> None],
             IF SharedQueue(q) THEN "lockQueue" ELSE "enterQueue")

\* The lock and the call, or the call alone.
EnterQueue(a) ==
    /\ \/ pc[a] = "enterQueue" /\ UNCHANGED asyncOwner
       \/ pc[a] = "lockQueue" /\ asyncOwner = None /\ asyncOwner' = App(a)
    /\ Enter(App(a), {call[a].queue})
    /\ Goto(a, "inQueue")
    /\ UNCHANGED <<layerQueue, devOwner, call, todo, swapchains, queues, threads, registered,
                   calls>>

\* The call returns, the lock is given back: what the entry point was for.
Return(a, label) ==
    /\ pc[a] = label
    /\ Leave(App(a)) /\ Unlock(App(a))
    /\ Goto(a, "idle")
    /\ call' = [call EXCEPT ![a] = NoCall]
    /\ UNCHANGED <<layerQueue, devOwner, todo, swapchains, queues, threads, registered, calls>>

QueueReturns(a) == Return(a, "inQueue")

-----------------------------------------------------------------------------
(* vkQueuePresentKHR for a swapchain the layer generates for.              *)

\* A surface is presented to from a queue whose family can: never from the
\* layer's own queue's, shared, when that family cannot.
CallPresent(a, q, s) ==
    /\ life[s] = "listed"
    /\ ~(async[s] = "cannot" /\ q = layerQueue)
    /\ MayCall(a, {q}, {s})
    /\ Begin(a, [kind |-> "present", queue |-> q, sc |-> s], "find")

\* The swapchain and the queue's family are looked up under dev->lock.  With
\* the layer's queue the frame goes to the threads, or, when its chain is
\* one they cannot carry, out of this thread once they have nothing left;
\* without it, out of this thread on the application's queue.
Find(a) ==
    /\ pc[a] = "find" /\ devOwner = None
    /\ IF async[call[a].sc] = "yes"
         THEN Goto(a, "reserve") \/ Goto(a, "drainWork")
         ELSE Goto(a, "inline")
    /\ UNCHANGED <<layerQueue, driver, locks, call, todo, swapchains, queues, threads, registered,
                   calls>>

\* Frames handed over and not yet presented: a frame is in both queues while
\* the work thread has not taken note of having passed it on.
Frames(s) == work[s] + jobs[s] - IF wpc[s] = "pop" THEN 1 ELSE 0

\* At most InFlight frames; then the adapter's submission, under the lock.
Adapter(a) ==
    /\ pc[a] = "reserve" /\ asyncOwner = None
    /\ Frames(call[a].sc) < InFlight
    /\ asyncOwner' = App(a)
    /\ Enter(App(a), {layerQueue})
    /\ Goto(a, "adapter")
    /\ UNCHANGED <<layerQueue, devOwner, call, todo, swapchains, queues, threads, registered,
                   calls>>

AdapterReturns(a) ==
    /\ pc[a] = "adapter"
    /\ Leave(App(a)) /\ Unlock(App(a))
    /\ Goto(a, "enqueue")
    /\ UNCHANGED <<layerQueue, devOwner, call, todo, swapchains, queues, threads, registered,
                   calls>>

Enqueue(a) ==
    /\ pc[a] = "enqueue"
    /\ work' = [work EXCEPT ![call[a].sc] = @ + 1]
    /\ Goto(a, "idle")
    /\ call' = [call EXCEPT ![a] = NoCall]
    /\ UNCHANGED <<layerQueue, driver, locks, todo, swapchains, jobs, threads, registered, calls>>

\* Inline, on the layer's queue under its lock or on the application's
\* without: from the submission to the last present.
Inline(a) ==
    /\ pc[a] = "inline"
    /\ IF async[call[a].sc] = "yes"
         THEN /\ asyncOwner = None /\ asyncOwner' = App(a)
              /\ Enter(App(a), {layerQueue})
         ELSE /\ UNCHANGED asyncOwner
              /\ Enter(App(a), {call[a].queue})
    /\ Goto(a, "inInline")
    /\ UNCHANGED <<layerQueue, devOwner, call, todo, swapchains, queues, threads, registered,
                   calls>>

InlineReturns(a) == Return(a, "inInline")

-----------------------------------------------------------------------------
(* Waiting for a swapchain's threads, for three different reasons.         *)

\* The swapchain an application's thread is waiting for, and where it goes.
Draining(a) == IF call[a].kind = "present" THEN call[a].sc ELSE Head(todo[a])

\* worker_drain, and then the presentation thread's queue.
DrainWork(a) ==
    /\ pc[a] = "drainWork"
    /\ work[Draining(a)] = 0
    /\ Goto(a, "drainJobs")
    /\ UNCHANGED <<layerQueue, driver, locks, call, todo, swapchains, queues, threads, registered,
                   calls>>

DrainJobs(a) ==
    /\ pc[a] = "drainJobs"
    /\ jobs[Draining(a)] = 0
    /\ IF call[a].kind = "present"
         THEN Goto(a, "inline") /\ UNCHANGED todo
         ELSE Goto(a, "drainNext") /\ todo' = [todo EXCEPT ![a] = Tail(@)]
    /\ UNCHANGED <<layerQueue, driver, locks, call, swapchains, queues, threads, registered, calls>>

-----------------------------------------------------------------------------
(* vkDeviceWaitIdle.                                                       *)

CallIdle(a) ==
    /\ MayCall(a, AppQueues, {})
    /\ Begin(a, [kind |-> "idle", queue |-> None, sc |-> None], "drainLock")

\* A mistake: only the newest swapchain's threads are waited for.
BugToDrain == IF list = <<>> THEN <<>> ELSE <<Head(list)>>
\* A mistake: the lock is given back before the swapchains are drained.
BugDrainHolder(a) == None

ToDrain == list
DrainHolder(a) == App(a)

\* All the swapchains, with dev->lock held from the first to the last.
DrainLock(a) ==
    /\ pc[a] = "drainLock" /\ devOwner = None
    /\ devOwner' = DrainHolder(a)
    /\ todo' = [todo EXCEPT ![a] = ToDrain]
    /\ Goto(a, "drainNext")
    /\ UNCHANGED <<layerQueue, driver, asyncOwner, call, swapchains, queues, threads, registered,
                   calls>>

DrainNext(a) ==
    /\ pc[a] = "drainNext"
    /\ IF todo[a] # <<>>
         THEN Goto(a, "drainWork") /\ UNCHANGED devOwner
         ELSE Goto(a, "waitDevice") /\ devOwner' = None
    /\ UNCHANGED <<layerQueue, driver, asyncOwner, call, todo, swapchains, queues, threads,
                   registered, calls>>

WaitDevice(a) ==
    /\ pc[a] = "waitDevice"
    /\ IF layerQueue = None THEN UNCHANGED asyncOwner
                            ELSE asyncOwner = None /\ asyncOwner' = App(a)
    /\ Enter(App(a), AllQueues)
    /\ Goto(a, "inDevice")
    /\ UNCHANGED <<layerQueue, devOwner, call, todo, swapchains, queues, threads, registered,
                   calls>>

DeviceReturns(a) == Return(a, "inDevice")

-----------------------------------------------------------------------------
(* Swapchains come and go; the device goes.                                *)

\* Whether the layer's queue can present to the surface, and whether the
\* surface would say so.
Answers ==
    IF layerQueue = None THEN {"cannot"}
    ELSE {"yes", "cannot"} \union IF QueryMayFail THEN {"failed"} ELSE {}

CallCreate(a, s) ==
    /\ registered /\ pc[a] = "idle" /\ life[s] = "none"
    /\ \A b \in Apps : call[b].kind # "end" /\ call[b].sc # s
    /\ call' = [call EXCEPT ![a] = [kind |-> "create", queue |-> None, sc |-> s]]
    /\ Goto(a, "link")
    /\ \E answer \in Answers : async' = [async EXCEPT ![s] = answer]
    /\ UNCHANGED <<layerQueue, driver, locks, todo, list, life, queues, threads, registered, calls>>

Link(a) ==
    /\ pc[a] = "link" /\ devOwner = None
    /\ list' = <<call[a].sc>> \o list
    /\ life' = [life EXCEPT ![call[a].sc] = "listed"]
    /\ Goto(a, "idle")
    /\ call' = [call EXCEPT ![a] = NoCall]
    /\ UNCHANGED <<layerQueue, driver, locks, todo, async, queues, threads, registered, calls>>

CallDestroy(a, s) ==
    /\ life[s] = "listed" /\ MayCall(a, {}, {s})
    /\ Begin(a, [kind |-> "destroy", queue |-> None, sc |-> s], "unlink")

\* One swapchain leaves the list.
Unlink(a) ==
    /\ pc[a] = "unlink" /\ devOwner = None
    /\ list' = Unlinked(call[a].sc)
    /\ life' = [life EXCEPT ![call[a].sc] = "unlisted"]
    /\ todo' = [todo EXCEPT ![a] = <<call[a].sc>>]
    /\ Goto(a, "stopWorker")
    /\ UNCHANGED <<layerQueue, driver, locks, call, async, queues, threads, registered, calls>>

\* The device's end: nothing else is going on, its swapchains may still be.
CallEnd(a) ==
    /\ \A b \in Apps : pc[b] = "idle"
    /\ MayCall(a, AppQueues, Swapchains)
    /\ Begin(a, [kind |-> "end", queue |-> None, sc |-> None], "forget")

Forget(a) ==
    /\ pc[a] = "forget" /\ devOwner = None
    /\ registered' = FALSE
    /\ todo' = [todo EXCEPT ![a] = list]
    /\ life' = [s \in Swapchains |-> IF life[s] = "listed" THEN "unlisted" ELSE life[s]]
    /\ list' = <<>>
    /\ Goto(a, IF list = <<>> THEN "destroyDevice" ELSE "stopWorker")
    /\ UNCHANGED <<layerQueue, driver, locks, call, async, queues, threads, calls>>

\* A mistake: a thread with frames left is taken to be done when it sleeps.
BugWorkerDone(s) == wpc[s] = "next"
BugPresenterDone(s) == ppc[s] = "next"

\* A thread that is told to stop ends once its queue is empty.
WorkerDone(s) == wpc[s] = "next" /\ work[s] = 0
PresenterDone(s) == ppc[s] = "next" /\ jobs[s] = 0

StopWorker(a) ==
    /\ pc[a] = "stopWorker"
    /\ WorkerDone(Head(todo[a]))
    /\ Goto(a, "stopPresenter")
    /\ UNCHANGED <<layerQueue, driver, locks, call, todo, swapchains, queues, threads, registered,
                   calls>>

\* Then the layer's queue is waited for, if the swapchain was served by it.
StopPresenter(a) ==
    /\ pc[a] = "stopPresenter"
    /\ PresenterDone(Head(todo[a]))
    /\ Goto(a, IF async[Head(todo[a])] = "yes" THEN "waitQueue" ELSE "free")
    /\ UNCHANGED <<layerQueue, driver, locks, call, todo, swapchains, queues, threads, registered,
                   calls>>

WaitQueue(a) ==
    /\ pc[a] = "waitQueue" /\ asyncOwner = None
    /\ asyncOwner' = App(a)
    /\ Enter(App(a), {layerQueue})
    /\ Goto(a, "waitedQueue")
    /\ UNCHANGED <<layerQueue, devOwner, call, todo, swapchains, queues, threads, registered,
                   calls>>

WaitQueueReturns(a) ==
    /\ pc[a] = "waitedQueue"
    /\ Leave(App(a)) /\ Unlock(App(a))
    /\ Goto(a, "free")
    /\ UNCHANGED <<layerQueue, devOwner, call, todo, swapchains, queues, threads, registered,
                   calls>>

\* The resources are gone; the next swapchain of a device that ends.
Free(a) ==
    /\ pc[a] = "free"
    /\ life' = [life EXCEPT ![Head(todo[a])] = "freed"]
    /\ todo' = [todo EXCEPT ![a] = Tail(@)]
    /\ IF call[a].kind = "destroy"
         THEN Goto(a, "idle") /\ call' = [call EXCEPT ![a] = NoCall]
         ELSE /\ Goto(a, IF Len(todo[a]) = 1 THEN "destroyDevice" ELSE "stopWorker")
              /\ UNCHANGED call
    /\ UNCHANGED <<layerQueue, driver, locks, list, async, queues, threads, registered, calls>>

DestroyDevice(a) ==
    /\ pc[a] = "destroyDevice"
    /\ Goto(a, "gone")
    /\ UNCHANGED <<layerQueue, driver, locks, call, todo, swapchains, queues, threads, registered,
                   calls>>

-----------------------------------------------------------------------------
(* The threads of a swapchain.                                             *)

\* The first frame is taken and submitted under the lock.
Submit(s) ==
    /\ wpc[s] = "next" /\ work[s] > 0 /\ asyncOwner = None
    /\ asyncOwner' = Worker(s)
    /\ Enter(Worker(s), {layerQueue})
    /\ wpc' = [wpc EXCEPT ![s] = "submit"]
    /\ UNCHANGED <<layerQueue, devOwner, apps, swapchains, queues, ppc, registered, calls>>

SubmitReturns(s) ==
    /\ wpc[s] = "submit"
    /\ Leave(Worker(s)) /\ Unlock(Worker(s))
    /\ wpc' = [wpc EXCEPT ![s] = "handoff"]
    /\ UNCHANGED <<layerQueue, devOwner, apps, swapchains, queues, ppc, registered, calls>>

\* Its presents are queued, and only then is it taken off this queue.
Handoff(s) ==
    /\ wpc[s] = "handoff"
    /\ jobs' = [jobs EXCEPT ![s] = @ + 1]
    /\ wpc' = [wpc EXCEPT ![s] = "pop"]
    /\ UNCHANGED <<layerQueue, driver, locks, apps, swapchains, work, ppc, registered, calls>>

Pop(s) ==
    /\ wpc[s] = "pop"
    /\ work' = [work EXCEPT ![s] = @ - 1]
    /\ wpc' = [wpc EXCEPT ![s] = "next"]
    /\ UNCHANGED <<layerQueue, driver, locks, apps, swapchains, jobs, ppc, registered, calls>>

\* The two presents of a frame, the companion's first.
Present(s) ==
    /\ \/ ppc[s] = "next" /\ jobs[s] > 0 /\ \E label \in {"companion", "real"} :
                                               ppc' = [ppc EXCEPT ![s] = label]
       \/ ppc[s] = "hold" /\ ppc' = [ppc EXCEPT ![s] = "real"]
    /\ asyncOwner = None
    /\ asyncOwner' = Presenter(s)
    /\ Enter(Presenter(s), {layerQueue})
    /\ UNCHANGED <<layerQueue, devOwner, apps, swapchains, queues, wpc, registered, calls>>

PresentReturns(s) ==
    /\ ppc[s] \in {"companion", "real"}
    /\ Leave(Presenter(s)) /\ Unlock(Presenter(s))
    /\ ppc' = [ppc EXCEPT ![s] = IF @ = "companion" THEN "hold" ELSE "finish"]
    /\ UNCHANGED <<layerQueue, devOwner, apps, swapchains, queues, wpc, registered, calls>>

\* A mistake: the thread counts under dev->lock.
BugMayCount == devOwner = None
MayCount == TRUE

Finish(s) ==
    /\ ppc[s] = "finish" /\ MayCount
    /\ jobs' = [jobs EXCEPT ![s] = @ - 1]
    /\ ppc' = [ppc EXCEPT ![s] = "next"]
    /\ UNCHANGED <<layerQueue, driver, locks, apps, swapchains, work, wpc, registered, calls>>

-----------------------------------------------------------------------------

AppCalls(a) ==
    \/ \E q \in AppQueues : CallQueue(a, q) \/ \E s \in Swapchains : CallPresent(a, q, s)
    \/ \E s \in Swapchains : CallCreate(a, s) \/ CallDestroy(a, s)
    \/ CallIdle(a) \/ CallEnd(a)

AppStep(a) ==
    \/ EnterQueue(a) \/ QueueReturns(a)
    \/ Find(a) \/ Adapter(a) \/ AdapterReturns(a) \/ Enqueue(a) \/ Inline(a) \/ InlineReturns(a)
    \/ DrainWork(a) \/ DrainJobs(a)
    \/ DrainLock(a) \/ DrainNext(a) \/ WaitDevice(a) \/ DeviceReturns(a)
    \/ Link(a) \/ Unlink(a) \/ Forget(a) \/ StopWorker(a) \/ StopPresenter(a)
    \/ WaitQueue(a) \/ WaitQueueReturns(a) \/ Free(a) \/ DestroyDevice(a)

WorkerStep(s) == Submit(s) \/ SubmitReturns(s) \/ Handoff(s) \/ Pop(s)
PresenterStep(s) == Present(s) \/ PresentReturns(s) \/ Finish(s)

Next ==
    \/ \E a \in Apps : AppCalls(a) \/ AppStep(a)
    \/ \E s \in Swapchains : WorkerStep(s) \/ PresenterStep(s)

Spec == Init /\ [][Next]_vars

\* The scheduler runs every thread that can go on; a call into the driver
\* returns.  Nothing makes the application call.
Fairness ==
    /\ \A a \in Apps : WF_vars(AppStep(a))
    /\ \A s \in Swapchains : WF_vars(WorkerStep(s)) /\ WF_vars(PresenterStep(s))

FairSpec == Spec /\ Fairness

-----------------------------------------------------------------------------

\* No two threads are in the driver with one queue, whichever entry points
\* the application's threads are in and whatever the layer's are doing: a
\* VkQueue is externally synchronised (layer.h:136-141).
QueueExclusive ==
    \A t, u \in Threads : t # u => driver[t] \intersect driver[u] = {}

\* The swapchain a thread is about to touch.
Touches(a) ==
    CASE pc[a] \in {"drainWork", "drainJobs"} -> {Draining(a)}
      [] pc[a] \in {"find", "reserve", "adapter", "enqueue", "inline", "inInline"} /\ call[a].sc # None
            -> {call[a].sc}
      [] pc[a] \in {"stopWorker", "stopPresenter", "waitQueue", "waitedQueue", "free"}
            -> {Head(todo[a])}
      [] OTHER -> {}

\* A swapchain's memory is given back once nobody is going to look at it: no
\* hook, no wait of vkDeviceWaitIdle over the list, no second destruction,
\* and neither of its own threads (swapchain_destroy.c:5-21).  A device ends
\* with nobody in the driver, no lock held and every swapchain the application
\* forgot taken down (layer_queue.c:107-122).
NothingFreedInUse ==
    /\ \A s \in Swapchains : life[s] = "freed" =>
        /\ \A a \in Apps : s \notin Touches(a)
        /\ wpc[s] = "next" /\ ppc[s] = "next" /\ work[s] = 0 /\ jobs[s] = 0
    /\ (\E a \in Apps : pc[a] = "gone") =>
        /\ \A t \in Threads : driver[t] = {}
        /\ asyncOwner = None /\ devOwner = None
        /\ \A s \in Swapchains : life[s] \in {"none", "freed"}

\* Seen from the driver and the application, the layer is a device with
\* exclusive queues whose wait leaves no frame behind and whose swapchains
\* end with nothing left to present (layer_queue.c:78-92,
\* swapchain_destroy.c:37-60).
Contract == INSTANCE DeviceContract WITH
    Threads <- Threads,
    Queues <- AppQueues \union {Own},
    users <- [q \in AppQueues \union {Own} |-> {t \in Threads : q \in driver[t]}],
    owed <- [s \in Swapchains |-> Frames(s)],
    life <- life

KeepsContract == Contract!Spec

\* Every call returns: the locks and the waits under dev->lock never close a
\* circle (swapchain_presenter.c:91-92).
CallsReturn == \A a \in Apps : pc[a] # "idle" ~> pc[a] \in {"idle", "gone"}
=============================================================================
