----------------------- MODULE PresentPipelineSlots -----------------------
(***************************************************************************)
(* The slots of PresentPipeline go round: a frame's slot is its ordinal    *)
(* modulo ImageCount, so frames in flight never share one.  From it: the   *)
(* fences and semaphores of a slot belong to one frame at a time.          *)
(***************************************************************************)
EXTENDS PresentPipelineOrder

-----------------------------------------------------------------------------
(* Going round. *)

LEMMA Division ==
  \A x \in Nat : /\ x = ImageCount * (x \div ImageCount) + (x % ImageCount)
                 /\ x \div ImageCount \in Nat /\ x % ImageCount \in 0 .. ImageCount - 1
  BY ImageCountAssumption

LEMMA OneRemainder ==
  \A p, q, r, s \in Int :
     /\ r \in 0 .. ImageCount - 1 /\ s \in 0 .. ImageCount - 1
     /\ ImageCount * p + r = ImageCount * q + s
     => r = s
  BY ImageCountAssumption

LEMMA ModNext == \A x \in Nat : ((x % ImageCount) + 1) % ImageCount = (x + 1) % ImageCount
  <1> TAKE x \in Nat
  <1> DEFINE N == ImageCount
  <1> USE ImageCountAssumption
  <1>1. PICK q \in Nat, r \in 0 .. N - 1 : x = N * q + r /\ x % N = r
    BY Division
  <1>2. PICK p \in Nat, s \in 0 .. N - 1 : x + 1 = N * p + s /\ (x + 1) % N = s
    BY Division
  <1>3. PICK m \in Nat, t \in 0 .. N - 1 : r + 1 = N * m + t /\ (r + 1) % N = t
    <2>1. r + 1 \in Nat
      OBVIOUS
    <2> QED
      BY <2>1, Division
  <1>4. N * q + (N * m + t) = N * (q + m) + t
    OBVIOUS
  <1>5. N * (q + m) + t = N * p + s
    BY <1>1, <1>2, <1>3, <1>4
  <1>6. s = t
    BY <1>5, OneRemainder
  <1> QED
    BY <1>1, <1>2, <1>3, <1>6

LEMMA ModDiffers ==
  ASSUME NEW f \in Nat, NEW g \in Nat, f < g, g - f < ImageCount
  PROVE  f % ImageCount # g % ImageCount
  <1> DEFINE N == ImageCount
  <1>1. PICK q \in Nat, r \in 0 .. N - 1 : f = N * q + r /\ f % N = r
    BY Division
  <1>2. PICK p \in Nat, s \in 0 .. N - 1 : g = N * p + s /\ g % N = s
    BY Division
  <1> SUFFICES ASSUME r = s PROVE FALSE
    BY <1>1, <1>2
  <1>3. /\ N * p \in Int /\ N * q \in Int
        /\ N * p - N * q = N * (p - q) /\ N * q - N * p = N * (q - p)
    BY ImageCountAssumption
  <1>4. N * p - N * q = g - f
    BY <1>1, <1>2, <1>3
  <1>5. CASE p - q \in Nat \ {0}
    <2>1. \A d \in Nat \ {0} : N * d >= N
      BY ImageCountAssumption
    <2> QED
      BY <1>3, <1>4, <1>5, <2>1, ImageCountAssumption
  <1>6. CASE q - p \in Nat
    <2>1. \A d \in Nat : N * d \in Nat
      BY ImageCountAssumption
    <2> QED
      BY <1>3, <1>4, <1>6, <2>1
  <1> QED
    BY <1>5, <1>6

\* The slot of a frame the layer takes.
SlotOf(f) == (f - 1) % ImageCount

LEMMA SlotsDiffer ==
  ASSUME NEW f \in Nat \ {0}, NEW g \in Nat \ {0}, f < g, g - f < ImageCount
  PROVE  SlotOf(f) # SlotOf(g)
  <1>1. f - 1 \in Nat /\ g - 1 \in Nat /\ f - 1 < g - 1 /\ (g - 1) - (f - 1) < ImageCount
    BY ImageCountAssumption
  <1> QED
    BY <1>1, ModDiffers DEF SlotOf

-----------------------------------------------------------------------------
(* A frame's slot. *)

\* The hook has a frame with a slot of its own; a frame it has given up.
HookTurn ==
    \/ pc["app"] \in {"reserve", "adapter", "enqueue", "fence", "decide", "submit",
                      "inlineCompanion", "inlineReal"}
    \/ pc["app"] \in {"drainWork", "drainJobs"} /\ after = "inline"
GivenUp ==
    /\ pc["app"] \in {"stopWorker", "joinWorker", "stopPresenter", "joinPresenter", "stopped"}
    /\ after = "pass"

\* slot_index counts the frames, until one is given up and generation ends.
SlotInv ==
    /\ \A k \in 1 .. Len(jobs) : jobs[k].slot = SlotOf(jobs[k].frame)
    /\ \A n \in 1 .. Len(work) : work[n].slot = SlotOf(work[n].frame)
    /\ HookTurn => hook.slot = SlotOf(hook.frame)
    /\ genEnabled /\ ~GivenUp => slotIndex = given % ImageCount

\* What the application's steps leave alone, the queue it adds to apart.
LEMMA AppLeaves ==
  ASSUME TypeInv, AppCall \/ AppStep
  PROVE  /\ UNCHANGED <<jobs, unwaited>>
         /\ pc'["worker"] = pc["worker"] /\ pc'["presenter"] = pc["presenter"]
         /\ gen'["worker"] = gen["worker"]
         /\ work' = work \/ Enqueue
  <1> USE DEF TypeInv, TypeOK, PcOK, LocalsOK, Thread, Generator, localVars
  <1>1. CASE AppCall
    BY <1>1 DEF AppCall, PresentThreaded, PresentInline, PresentUnfit, PresentDisabled,
                DeviceWaitIdle, DestroySwapchain, Present, Goto
  <1>2. CASE Wait("app") \/ PassThrough \/ HookReserve \/ AdapterSubmit \/ AdapterFail
             \/ Enqueue \/ Collect \/ WorkerDrained \/ PresenterDrained \/ DeviceIdle
    BY <1>2 DEF Wait, PassThrough, HookReserve, AdapterSubmit, AdapterFail, Enqueue, Collect,
                WorkerDrained, PresenterDrained, DeviceIdle, Goto
  <1>3. CASE StopWorker \/ JoinWorker \/ StopPresenter \/ JoinPresenter \/ Disable \/ Free
    BY <1>3 DEF StopWorker, JoinWorker, StopPresenter, JoinPresenter, Disable, Free, Goto
  <1>4. CASE GenFence("app") \/ GenDecide("app") \/ GenSubmit("app") \/ GenFailInline
             \/ InlineCompanion \/ InlineReal
    BY <1>4 DEF GenFence, GenDecide, GenSubmit, GenFailInline, InlineCompanion, InlineReal, Goto
  <1> QED
    BY <1>1, <1>2, <1>3, <1>4 DEF AppStep

LEMMA SlotInit == Init => SlotInv
  <1> SUFFICES ASSUME Init PROVE SlotInv
    OBVIOUS
  <1>1. work = <<>> /\ jobs = <<>> /\ Len(work) = 0 /\ Len(jobs) = 0
    BY EmptySeq DEF Init
  <1>2. 0 % ImageCount = 0
    BY ImageCountAssumption
  <1> QED
    BY <1>1, <1>2 DEF Init, SlotInv, HookTurn

\* A frame taken by the hook gets its slot.
LEMMA SlotTaken ==
  ASSUME TypeInv, SlotInv, pc["app"] = "idle", genEnabled, TakeSlot, given' = given + 1
  PROVE  hook'.slot = SlotOf(hook'.frame) /\ slotIndex' = given' % ImageCount
  <1>1. given \in Nat /\ slotIndex = given % ImageCount
    BY DEF TypeInv, TypeOK, HookOK, SlotInv, GivenUp
  <1>2. (given + 1) - 1 = given
    BY <1>1
  <1>3. hook'.frame = given + 1 /\ hook'.slot = slotIndex
    BY DEF TakeSlot
  <1> QED
    BY <1>1, <1>2, <1>3, ModNext DEF TakeSlot, SlotOf

LEMMA SlotApp == TypeInv /\ SlotInv /\ (AppCall \/ AppStep) => SlotInv'
  <1> SUFFICES ASSUME TypeInv, SlotInv, AppCall \/ AppStep PROVE SlotInv'
    OBVIOUS
  <1>1. \A k \in 1 .. Len(jobs') : jobs'[k].slot = SlotOf(jobs'[k].frame)
    BY AppLeaves DEF SlotInv
  <1>2. \A n \in 1 .. Len(work') : work'[n].slot = SlotOf(work'[n].frame)
    <2>1. CASE work' = work
      BY <2>1 DEF SlotInv
    <2>2. CASE Enqueue
      <3>1. /\ hook \in WorkItem /\ work' = Append(work, hook) /\ work \in Seq(WorkItem)
            /\ hook.slot = SlotOf(hook.frame)
        BY <2>2, HookItem DEF Enqueue, Past, At, TypeInv, TypeOK, QueuesOK, SlotInv, HookTurn
      <3>2. /\ Len(work') = Len(work) + 1 /\ work'[Len(work) + 1] = hook
            /\ \A i \in 1 .. Len(work) : work'[i] = work[i]
        BY <3>1, AppendProperties
      <3>3. Len(work) \in Nat
        BY <3>1
      <3> TAKE n \in 1 .. Len(work')
      <3>4. CASE n = Len(work) + 1
        BY <3>1, <3>2, <3>4
      <3>5. CASE n \in 1 .. Len(work)
        BY <3>2, <3>5 DEF SlotInv
      <3> QED
        BY <3>2, <3>3, <3>4, <3>5
    <2> QED
      BY <2>1, <2>2, AppLeaves
  <1> USE DEF TypeInv, TypeOK, PcOK, Thread, hookVars
  <1>3. ASSUME UNCHANGED <<given, hook, slotIndex>>, genEnabled' => genEnabled,
               HookTurn' => HookTurn, ~GivenUp' /\ genEnabled' => ~GivenUp
        PROVE  SlotInv'
    BY <1>1, <1>2, <1>3 DEF SlotInv
  <1>4. CASE PresentThreaded
    <2>1. pc["app"] = "idle" /\ genEnabled /\ TakeSlot /\ given' = given + 1
      BY <1>4 DEF PresentThreaded, Present, At
    <2> QED
      BY <1>1, <1>2, <2>1, SlotTaken DEF SlotInv
  <1>5. CASE PresentInline
    <2>1. pc["app"] = "idle" /\ genEnabled /\ TakeSlot /\ given' = given + 1
      BY <1>5 DEF PresentInline, Present, At
    <2> QED
      BY <1>1, <1>2, <2>1, SlotTaken DEF SlotInv
  <1>6. CASE PresentUnfit
    <2>1. ~HookTurn' /\ GivenUp'
      BY <1>6 DEF PresentUnfit, Present, Goto, HookTurn, GivenUp
    <2> QED
      BY <1>1, <1>2, <2>1 DEF SlotInv
  <1>7. CASE PresentDisabled
    <2>1. ~HookTurn' /\ ~genEnabled'
      BY <1>7 DEF PresentDisabled, Present, Goto, HookTurn
    <2> QED
      BY <1>1, <1>2, <2>1 DEF SlotInv
  <1>8. CASE AdapterFail \/ GenFailInline
    <2>1. ~HookTurn' /\ GivenUp'
      BY <1>8 DEF AdapterFail, GenFailInline, Goto, HookTurn, GivenUp
    <2> QED
      BY <1>1, <1>2, <2>1 DEF SlotInv
  <1>9. CASE DeviceWaitIdle \/ DestroySwapchain \/ Collect
    BY <1>3, <1>9 DEF DeviceWaitIdle, DestroySwapchain, Collect, At, Goto, HookTurn, GivenUp
  <1>10. CASE Wait("app") \/ PassThrough \/ HookReserve \/ AdapterSubmit \/ Enqueue
    BY <1>3, <1>10 DEF Wait, PassThrough, HookReserve, AdapterSubmit, Enqueue, Past, At, Goto,
                       HookTurn, GivenUp
  <1>11. CASE WorkerDrained \/ PresenterDrained \/ DeviceIdle
    BY <1>3, <1>11 DEF WorkerDrained, PresenterDrained, DeviceIdle, Past, At, Goto, HookTurn,
                       GivenUp
  <1>12. CASE StopWorker \/ JoinWorker \/ StopPresenter \/ JoinPresenter
    BY <1>3, <1>12 DEF StopWorker, JoinWorker, StopPresenter, JoinPresenter, At, Goto, HookTurn,
                       GivenUp
  <1>13. CASE Disable \/ Free
    BY <1>3, <1>13 DEF Disable, Free, At, Goto, HookTurn, GivenUp
  <1>14. CASE GenFence("app") \/ GenDecide("app") \/ GenSubmit("app") \/ InlineCompanion
              \/ InlineReal
    BY <1>3, <1>14 DEF GenFence, GenDecide, GenSubmit, InlineCompanion, InlineReal, At, Goto,
                       HookTurn, GivenUp
  <1> QED
    BY <1>4, <1>5, <1>6, <1>7, <1>8, <1>9, <1>10, <1>11, <1>12, <1>13, <1>14
    DEF AppCall, AppStep

\* What the other threads' steps leave alone, their queues apart.
LEMMA WorkerLeaves ==
  ASSUME TypeInv, WorkerStep
  PROVE  /\ UNCHANGED hookVars
         /\ pc'["app"] = pc["app"] /\ pc'["presenter"] = pc["presenter"]
         /\ jobs' = jobs \/ WorkerHandoff
         /\ work' = work \/ WorkerPop
  BY DEF TypeInv, TypeOK, PcOK, Thread, WorkerStep, Wait, WorkerTake, WorkerExit, GenFence,
         GenDecide, GenSubmit, GenFailWorker, WorkerPassOn, WorkerHandoff, WorkerPop, Goto

LEMMA PresenterLeaves ==
  ASSUME TypeInv, PresenterStep
  PROVE  /\ UNCHANGED <<hookVars, work, slotVars, gen, unwaited, semApp, failures>>
         /\ pc'["app"] = pc["app"] /\ pc'["worker"] = pc["worker"]
         /\ jobs' = jobs \/ PresenterFinish
  BY DEF TypeInv, TypeOK, PcOK, Thread, PresenterStep, Wait, PresenterNext, PresenterExit,
         PresenterCompanion, PresenterPaced, PresenterHeld, PresenterReal, PresenterFinish, Goto,
         localVars, semVars

LEMMA PopShifts ==
  ASSUME TypeInv, WorkerPop
  PROVE  /\ Len(work) \in Nat \ {0} /\ Len(work') = Len(work) - 1
         /\ \A i \in 1 .. Len(work') : i + 1 \in 1 .. Len(work) /\ work'[i] = work[i + 1]
  <1>1. work \in Seq(WorkItem) /\ work # <<>> /\ work' = Tail(work)
    BY DEF WorkerPop, At, TypeInv, TypeOK, QueuesOK, FrameAtHand
  <1> QED
    BY <1>1, EmptySeq, HeadTailProperties

LEMMA FinishShifts ==
  ASSUME TypeInv, PresenterFinish
  PROVE  /\ Len(jobs) \in Nat \ {0} /\ Len(jobs') = Len(jobs) - 1
         /\ \A i \in 1 .. Len(jobs') : i + 1 \in 1 .. Len(jobs) /\ jobs'[i] = jobs[i + 1]
  <1>1. jobs \in Seq(Job) /\ jobs # <<>> /\ jobs' = Tail(jobs)
    BY DEF PresenterFinish, At, TypeInv, TypeOK, QueuesOK, FrameAtHand
  <1> QED
    BY <1>1, EmptySeq, HeadTailProperties

LEMMA SlotWorker == TypeInv /\ SlotInv /\ WorkerStep => SlotInv'
  <1> SUFFICES ASSUME TypeInv, SlotInv, WorkerStep PROVE SlotInv'
    OBVIOUS
  <1>1. \A k \in 1 .. Len(jobs') : jobs'[k].slot = SlotOf(jobs'[k].frame)
    <2>1. CASE jobs' = jobs
      BY <2>1 DEF SlotInv
    <2>2. CASE WorkerHandoff
      <3>1. /\ Len(jobs') = Len(jobs) + 1 /\ jobs'[Len(jobs) + 1].frame = work[1].frame
            /\ jobs'[Len(jobs) + 1].slot = work[1].slot
            /\ \A i \in 1 .. Len(jobs) : jobs'[i] = jobs[i]
        BY <2>2, HandoffAppends
      <3>2. Len(jobs) \in Nat /\ 1 \in 1 .. Len(work)
        BY <2>2, EmptySeq DEF WorkerHandoff, Past, At, TypeInv, TypeOK, QueuesOK, FrameAtHand
      <3> TAKE k \in 1 .. Len(jobs')
      <3>3. CASE k = Len(jobs) + 1
        BY <3>1, <3>2, <3>3 DEF SlotInv
      <3>4. CASE k \in 1 .. Len(jobs)
        BY <3>1, <3>4 DEF SlotInv
      <3> QED
        BY <3>1, <3>2, <3>3, <3>4
    <2> QED
      BY <2>1, <2>2, WorkerLeaves
  <1>2. \A n \in 1 .. Len(work') : work'[n].slot = SlotOf(work'[n].frame)
    BY WorkerLeaves, PopShifts DEF SlotInv
  <1> QED
    BY <1>1, <1>2, WorkerLeaves DEF SlotInv, HookTurn, GivenUp, hookVars

LEMMA SlotPresenter == TypeInv /\ SlotInv /\ PresenterStep => SlotInv'
  <1> SUFFICES ASSUME TypeInv, SlotInv, PresenterStep PROVE SlotInv'
    OBVIOUS
  <1>1. \A k \in 1 .. Len(jobs') : jobs'[k].slot = SlotOf(jobs'[k].frame)
    BY PresenterLeaves, FinishShifts DEF SlotInv
  <1> QED
    BY <1>1, PresenterLeaves DEF SlotInv, HookTurn, GivenUp, hookVars

-----------------------------------------------------------------------------
(* Frames in flight have slots of their own. *)

LEMMA Numbers ==
  ASSUME IInv
  PROVE  /\ Len(work) \in Nat /\ Len(jobs) \in Nat /\ real \in Nat /\ given \in Nat
         /\ Shown \in {0, 1} /\ Popped \in {0, 1}
         /\ \A k \in 1 .. Len(jobs) : jobs[k] \in Job /\ jobs[k].frame \in Nat \ {0}
                                      /\ jobs[k].slot \in Slot
         /\ \A n \in 1 .. Len(work) : work[n] \in WorkItem /\ work[n].frame \in Nat \ {0}
                                      /\ work[n].slot \in Slot
         /\ Len(work) + Len(jobs) - Popped + (IF pc["app"] \in {"adapter", "enqueue"} THEN 1 ELSE 0)
               <= ImageCount
         /\ ImageCount \in Nat
  <1> USE DEF IInv, SafeInv, TypeInv, TypeOK
  <1>1. Len(work) \in Nat /\ Len(jobs) \in Nat /\ real \in Nat /\ given \in Nat
    BY DEF QueuesOK, ScreenOK, HookOK
  <1>2. Shown \in {0, 1} /\ Popped \in {0, 1}
    BY DEF Shown, Popped
  <1>3. /\ \A k \in 1 .. Len(jobs) : jobs[k] \in Job
        /\ \A n \in 1 .. Len(work) : work[n] \in WorkItem
    BY ElementOfSeq DEF QueuesOK
  <1>4. Len(work) + Len(jobs) - Popped + (IF pc["app"] \in {"adapter", "enqueue"} THEN 1 ELSE 0)
           <= ImageCount
    BY <1>1 DEF InFlightExact, Popped
  <1> QED
    BY <1>1, <1>2, <1>3, <1>4, ImageCountAssumption DEF Job, WorkItem, Frame

\* The frame the work thread generates for and those still to be presented.
LEMMA JobsApart ==
  ASSUME IInv, SlotInv, pc["worker"] \in {"fence", "decide", "submit", "passOn", "handoff"},
         NEW k \in 1 .. Len(jobs)
  PROVE  jobs[k].slot # work[1].slot
  <1>1. work # <<>> /\ Popped = 0
    BY DEF IInv, SafeInv, TypeInv, FrameAtHand, Popped
  <1>2. Len(work) \in Nat \ {0} /\ 1 \in 1 .. Len(work)
    BY <1>1, Numbers, EmptySeq DEF IInv, SafeInv, TypeInv, TypeOK, QueuesOK
  <1>3. /\ jobs[k].frame = real - Shown + k
        /\ work[1].frame = real - Shown + Len(jobs) - Popped + 1
    BY <1>2 DEF IInv, OrderParts, OrderInv
  <1>4. Len(work) + Len(jobs) <= ImageCount
    BY <1>1, Numbers
  <1>5. jobs[k].frame < work[1].frame /\ work[1].frame - jobs[k].frame < ImageCount
    <2>1. work[1].frame - jobs[k].frame = Len(jobs) + 1 - k
      BY <1>1, <1>3, Numbers
    <2>2. Len(jobs) + 1 - k >= 1 /\ Len(jobs) + 1 - k < ImageCount
      BY <1>2, <1>4, Numbers
    <2>3. work[1].frame \in Nat /\ jobs[k].frame \in Nat
      BY <1>2, Numbers
    <2> QED
      BY <2>1, <2>2, <2>3
  <1>6. SlotOf(jobs[k].frame) # SlotOf(work[1].frame)
    BY <1>2, <1>5, Numbers, SlotsDiffer
  <1> QED
    BY <1>2, <1>6 DEF SlotInv

\* Frames queued for the work thread.
LEMMA WorkApart ==
  ASSUME IInv, SlotInv, pc["worker"] # "pop", NEW n \in 1 .. Len(work), n # 1
  PROVE  work[n].slot # work[1].slot
  <1>1. Popped = 0
    BY DEF Popped
  <1>2. 1 \in 1 .. Len(work)
    BY Numbers
  <1>3. /\ work[n].frame = real - Shown + Len(jobs) - Popped + n
        /\ work[1].frame = real - Shown + Len(jobs) - Popped + 1
    BY <1>2 DEF IInv, OrderParts, OrderInv
  <1>4. work[1].frame < work[n].frame /\ work[n].frame - work[1].frame < ImageCount
    <2>1. work[n].frame - work[1].frame = n - 1
      BY <1>1, <1>3, Numbers
    <2>2. n - 1 >= 1 /\ n - 1 < ImageCount
      BY <1>1, Numbers
    <2>3. work[1].frame \in Nat /\ work[n].frame \in Nat
      BY <1>2, Numbers
    <2> QED
      BY <2>1, <2>2, <2>3
  <1>5. SlotOf(work[1].frame) # SlotOf(work[n].frame)
    BY <1>2, <1>4, Numbers, SlotsDiffer
  <1> QED
    BY <1>2, <1>5 DEF SlotInv

\* The frame the hook is about to queue and those queued before it.
LEMMA HookApart ==
  ASSUME IInv, SlotInv, pc["app"] \in {"adapter", "enqueue"}, NEW n \in 1 .. Len(work),
         pc["worker"] = "pop" => n # 1
  PROVE  work[n].slot # hook.slot
  <1>1. /\ hook.frame = given /\ hook.frame \in Nat \ {0} /\ hook.slot = SlotOf(hook.frame)
        /\ given = real - Shown + Len(jobs) + Len(work) - Popped + 1
    BY DEF IInv, SafeInv, TypeInv, FrameAtHand, Frame, OrderParts, OrderInv, HookHolds, Held,
           SlotInv, HookTurn
  <1>2. work[n].frame = real - Shown + Len(jobs) - Popped + n
    BY DEF IInv, OrderParts, OrderInv
  <1>3. Len(work) + Len(jobs) - Popped + 1 <= ImageCount
    BY Numbers
  <1>4. n >= 1 /\ (Popped = 1 => n >= 2)
    BY DEF Popped
  <1>5. work[n].frame < hook.frame /\ hook.frame - work[n].frame < ImageCount
    <2>1. hook.frame - work[n].frame = Len(work) + 1 - n
      BY <1>1, <1>2, Numbers, SMTT(20)
    <2>2. Len(work) + 1 - n >= 1 /\ Len(work) + 1 - n < ImageCount
      BY <1>3, <1>4, Numbers
    <2> QED
      BY <1>1, <2>1, <2>2, Numbers
  <1>6. SlotOf(work[n].frame) # SlotOf(hook.frame)
    BY <1>1, <1>5, Numbers, SlotsDiffer
  <1> QED
    BY <1>1, <1>6 DEF SlotInv

-----------------------------------------------------------------------------
(* Fences: a slot's fence is its frame's until that frame is presented. *)

\* A frame with a companion was submitted with its slot's fence, and only such a
\* frame is paced.
OwnFence ==
    /\ \A k \in 1 .. Len(jobs) : jobs[k].generate => fenceOf[jobs[k].slot] = jobs[k].frame
    /\ pc["worker"] = "handoff" /\ gen["worker"] => fenceOf[work[1].slot] = work[1].frame
    /\ pc["presenter"] = "pace" => jobs[1].generate

\* What a step of the application's does to fences and semaphores.
LEMMA AppSync ==
  ASSUME TypeInv, AppCall \/ AppStep
  PROVE  /\ fenceOf' = fenceOf \/ pc["app"] \in {"fence", "submit"}
         /\ \/ semReal \subseteq semReal' /\ semGenerated \subseteq semGenerated'
            \/ pc["app"] \in {"inlineCompanion", "inlineReal"}
         /\ semApp' = semApp \/ AdapterSubmit
         /\ failures \in Nat /\ failures' \in Nat /\ failures' >= failures
         /\ \/ AdapterSubmit \/ Enqueue
            \/ (pc'["app"] = "enqueue" <=> pc["app"] = "enqueue")
               /\ (pc["app"] = "enqueue" => hook' = hook)
  <1> USE DEF TypeInv, TypeOK, PcOK, Thread, semVars, slotVars, hookVars
  <1>f. failures \in Nat
    BY BoundsAssumption DEF ScreenOK
  <1>1. CASE AppCall
    BY <1>f, <1>1 DEF AppCall, PresentThreaded, PresentInline, PresentUnfit, PresentDisabled,
                DeviceWaitIdle, DestroySwapchain, Present, At, Goto
  <1>2. CASE Wait("app") \/ PassThrough \/ HookReserve \/ AdapterSubmit \/ AdapterFail
             \/ Enqueue \/ Collect \/ WorkerDrained \/ PresenterDrained \/ DeviceIdle
    BY <1>f, <1>2 DEF Wait, PassThrough, HookReserve, AdapterSubmit, AdapterFail, Enqueue, Collect,
                WorkerDrained, PresenterDrained, DeviceIdle, Past, At, Goto
  <1>3. CASE StopWorker \/ JoinWorker \/ StopPresenter \/ JoinPresenter \/ Disable \/ Free
    BY <1>f, <1>3 DEF StopWorker, JoinWorker, StopPresenter, JoinPresenter, Disable, Free, At, Goto
  <1>4. CASE GenFence("app") \/ GenDecide("app") \/ GenSubmit("app")
    BY <1>f, <1>4 DEF GenFence, GenDecide, GenSubmit, At, Goto
  <1>5. CASE GenFailInline \/ InlineCompanion \/ InlineReal
    BY <1>f, <1>5 DEF GenFailInline, InlineCompanion, InlineReal, At, Goto
  <1> QED
    BY <1>1, <1>2, <1>3, <1>4, <1>5 DEF AppStep

\* The frame the work thread hands on stays at the head of its queue.
LEMMA HeadStays ==
  ASSUME TypeInv, AppCall \/ AppStep, work # <<>>
  PROVE  work'[1] = work[1]
  <1>1. CASE Enqueue
    <2>1. work \in Seq(WorkItem) /\ hook \in WorkItem /\ work' = Append(work, hook)
      BY <1>1, HookItem DEF Enqueue, Past, At, TypeInv, TypeOK, QueuesOK
    <2> QED
      BY <2>1, EmptySeq, AppendProperties
  <1> QED
    BY <1>1, AppLeaves

LEMMA FenceApp == IInv /\ OwnFence /\ (AppCall \/ AppStep) => OwnFence'
  <1> SUFFICES ASSUME IInv, OwnFence, AppCall \/ AppStep PROVE OwnFence'
    OBVIOUS
  <1> USE DEF IInv, SafeInv
  <1>1. CASE pc["app"] \in {"fence", "submit"}
    <2>1. work = <<>> /\ jobs = <<>>
      BY <1>1 DEF OrderParts, Quiet
    <2>2. pc["worker"] # "handoff" /\ pc["presenter"] # "pace" /\ Len(jobs) = 0
      BY <2>1, EmptySeq DEF TypeInv, FrameAtHand
    <2> QED
      BY <2>1, <2>2, AppLeaves DEF OwnFence
  <1>2. CASE fenceOf' = fenceOf
    <2>1. pc["worker"] = "handoff" => work'[1] = work[1]
      BY HeadStays DEF TypeInv, FrameAtHand
    <2> QED
      BY <1>2, <2>1, AppLeaves DEF OwnFence
  <1> QED
    BY <1>1, <1>2, AppSync

LEMMA FenceWorker == IInv /\ SlotInv /\ OwnFence /\ WorkerStep => OwnFence'
  <1> SUFFICES ASSUME IInv, SlotInv, OwnFence, WorkerStep PROVE OwnFence'
    OBVIOUS
  <1> USE DEF IInv, SafeInv
  <1>1. CASE GenFence("worker") \/ GenSubmit("worker")
    <2>1. /\ pc["worker"] \in {"fence", "submit"} /\ UNCHANGED <<jobs, work, gen>>
          /\ pc'["presenter"] = pc["presenter"]
      BY <1>1 DEF GenFence, GenSubmit, At, Goto, TypeInv, TypeOK, PcOK, Thread, localVars
    <2>2. /\ work[1] = Head(work) /\ work[1].slot \in Slot
      BY <2>1, WorkerItem DEF TypeInv, FrameAtHand
    <2>3. \A s \in Slot \ {work[1].slot} : fenceOf'[s] = fenceOf[s]
      BY <1>1, <2>2 DEF GenFence, GenSubmit, Item, TypeInv, TypeOK, SlotsOK
    <2>4. \A k \in 1 .. Len(jobs) : fenceOf'[jobs[k].slot] = fenceOf[jobs[k].slot]
      BY <2>1, <2>3, JobsApart, Numbers
    <2>5. pc'["worker"] = "handoff" => fenceOf'[work[1].slot] = work[1].frame
      BY <1>1, <2>2 DEF GenFence, GenSubmit, Item, Goto, TypeInv, TypeOK, PcOK, SlotsOK, Thread
    <2> QED
      BY <2>1, <2>4, <2>5 DEF OwnFence
  <1>2. CASE WorkerHandoff
    <2>1. /\ Len(jobs') = Len(jobs) + 1 /\ jobs'[Len(jobs) + 1].frame = work[1].frame
          /\ jobs'[Len(jobs) + 1].slot = work[1].slot
          /\ jobs'[Len(jobs) + 1].generate = gen["worker"]
          /\ \A i \in 1 .. Len(jobs) : jobs'[i] = jobs[i]
      BY <1>2, HandoffAppends
    <2>2. /\ pc["worker"] = "handoff" /\ pc'["worker"] = "pop"
          /\ pc'["presenter"] = pc["presenter"] /\ fenceOf' = fenceOf
      BY <1>2 DEF WorkerHandoff, Past, At, Goto, TypeInv, TypeOK, PcOK, Thread, slotVars
    <2>3. \A k \in 1 .. Len(jobs') : jobs'[k].generate => fenceOf'[jobs'[k].slot] = jobs'[k].frame
      <3> TAKE k \in 1 .. Len(jobs')
      <3>1. CASE k = Len(jobs) + 1
        BY <2>1, <2>2, <3>1 DEF OwnFence
      <3>2. CASE k \in 1 .. Len(jobs)
        BY <2>1, <2>2, <3>2 DEF OwnFence
      <3> QED
        BY <2>1, <3>1, <3>2, Numbers
    <2>4. pc["presenter"] = "pace" => 1 \in 1 .. Len(jobs)
      BY Numbers, EmptySeq DEF TypeInv, TypeOK, FrameAtHand, QueuesOK
    <2> QED
      BY <2>1, <2>2, <2>3, <2>4 DEF OwnFence
  <1>3. CASE Wait("worker") \/ WorkerTake \/ WorkerExit \/ GenDecide("worker") \/ GenFailWorker
             \/ WorkerPassOn \/ WorkerPop
    <2>1. UNCHANGED <<jobs, fenceOf>> /\ pc'["presenter"] = pc["presenter"]
      BY <1>3 DEF Wait, WorkerTake, WorkerExit, GenDecide, GenFailWorker, WorkerPassOn, WorkerPop,
                  Goto, TypeInv, TypeOK, PcOK, Thread, slotVars
    <2>2. pc'["worker"] = "handoff" /\ gen'["worker"] =>
             pc["worker"] = "handoff" /\ gen["worker"] /\ work' = work
      BY <1>3 DEF Wait, WorkerTake, WorkerExit, GenDecide, GenFailWorker, WorkerPassOn, WorkerPop,
                  Goto, TypeInv, TypeOK, PcOK, LocalsOK, Generator, Thread, localVars
    <2> QED
      BY <2>1, <2>2 DEF OwnFence
  <1> QED
    BY <1>1, <1>2, <1>3 DEF WorkerStep

LEMMA FencePresenter == IInv /\ OwnFence /\ PresenterStep => OwnFence'
  <1> SUFFICES ASSUME IInv, OwnFence, PresenterStep PROVE OwnFence'
    OBVIOUS
  <1> USE DEF IInv, SafeInv
  <1>1. fenceOf' = fenceOf /\ UNCHANGED <<work, gen>> /\ pc'["worker"] = pc["worker"]
    BY PresenterLeaves DEF slotVars
  <1>2. \A k \in 1 .. Len(jobs') : jobs'[k].generate => fenceOf'[jobs'[k].slot] = jobs'[k].frame
    <2>1. CASE jobs' = jobs
      BY <1>1, <2>1 DEF OwnFence
    <2>2. CASE PresenterFinish
      BY <1>1, <2>2, FinishShifts DEF OwnFence
    <2> QED
      BY <2>1, <2>2, PresenterLeaves
  <1>3. pc'["presenter"] = "pace" => jobs'[1].generate
    <2>1. pc'["presenter"] = "pace" => jobs' = jobs /\ pc["presenter"] \in {"companion", "pace"}
      BY DEF PresenterStep, Wait, PresenterNext, PresenterExit, PresenterCompanion,
             PresenterPaced, PresenterHeld, PresenterReal, PresenterFinish, Goto, At, Past,
             TypeInv, TypeOK, PcOK, Thread
    <2>2. pc["presenter"] = "companion" => jobs[1].generate
      BY DEF OrderParts, CompInv
    <2> QED
      BY <2>1, <2>2 DEF OwnFence
  <1> QED
    BY <1>1, <1>2, <1>3 DEF OwnFence

-----------------------------------------------------------------------------
(* sem_app: signalled by the hook, waited on by the frame's submission. *)

\* A frame's adapter submission was made, and nobody has waited on its signal.
Awaited(s) ==
    \/ \E n \in 1 .. Len(work) :
          work[n].slot = s /\ (pc["worker"] \in {"handoff", "pop"} => n # 1)
    \/ pc["app"] = "enqueue" /\ hook.slot = s

\* The signal is there; the only ones besides are those of frames whose submission
\* failed and could not be passed on either.
SemInv ==
    /\ \A s \in Slot : semApp[s] >= 0
    /\ \A s \in Slot : Awaited(s) => semApp[s] >= 1
    /\ failures <= 1 => \A s \in Slot : semApp[s] = IF Awaited(s) THEN 1 ELSE 0
    /\ pc["worker"] = "passOn" => failures >= 1

LEMMA SemKept ==
  ASSUME SemInv, semApp' = semApp, failures \in Nat, failures' \in Nat, failures' >= failures,
         \A s \in Slot : Awaited(s)' <=> Awaited(s),
         pc'["worker"] = "passOn" => failures' >= 1
  PROVE  SemInv'
  BY DEF SemInv

\* The hook signals the semaphore of a slot nothing in flight has.
LEMMA SemApp == IInv /\ SlotInv /\ SemInv /\ (AppCall \/ AppStep) => SemInv'
  <1> SUFFICES ASSUME IInv, SlotInv, SemInv, AppCall \/ AppStep PROVE SemInv'
    OBVIOUS
  <1> USE DEF IInv, SafeInv
  <1>1. CASE AdapterSubmit
    <2>1. /\ pc["app"] = "adapter" /\ pc'["app"] = "enqueue" /\ pc'["worker"] = pc["worker"]
          /\ UNCHANGED <<work, hook, failures>>
          /\ semApp' = [semApp EXCEPT ![hook.slot] = @ + 1]
      BY <1>1 DEF AdapterSubmit, At, Goto, TypeInv, TypeOK, PcOK, Thread, hookVars
    <2>2. hook.slot \in Slot /\ semApp \in [Slot -> Int]
      BY <2>1, HookItem DEF TypeInv, TypeOK, SemaphoresOK
    <2>3. ~Awaited(hook.slot)
      BY <2>1, HookApart DEF Awaited
    <2>4. \A s \in Slot : Awaited(s)' <=> Awaited(s) \/ s = hook.slot
      BY <2>1 DEF Awaited
    <2>5. semApp'[hook.slot] = semApp[hook.slot] + 1
          /\ \A s \in Slot \ {hook.slot} : semApp'[s] = semApp[s]
      BY <2>1, <2>2
    <2>6. \A s \in Slot : semApp[s] \in Int /\ semApp'[s] \in Int
      BY <2>1, <2>2
    <2>7. semApp[hook.slot] >= 0 /\ (failures <= 1 => semApp[hook.slot] = 0)
      BY <2>2, <2>3 DEF SemInv
    <2> QED
      BY <2>1, <2>2, <2>4, <2>5, <2>6, <2>7 DEF SemInv
  <1>2. CASE Enqueue
    <2>1. /\ work \in Seq(WorkItem) /\ hook \in WorkItem /\ work' = Append(work, hook)
          /\ pc["app"] = "enqueue" /\ pc'["app"] = "collect" /\ pc'["worker"] = pc["worker"]
          /\ UNCHANGED <<semApp, failures>>
      BY <1>2, HookItem DEF Enqueue, Past, At, Goto, TypeInv, TypeOK, PcOK, QueuesOK, Thread, semVars
    <2>2. /\ Len(work') = Len(work) + 1 /\ work'[Len(work) + 1] = hook
          /\ \A i \in 1 .. Len(work) : work'[i] = work[i]
      BY <2>1, AppendProperties
    <2>3. pc["worker"] \in {"handoff", "pop"} => Len(work) # 0
      BY <2>1, EmptySeq DEF TypeInv, FrameAtHand
    <2>4. ASSUME NEW s \in Slot PROVE Awaited(s)' <=> Awaited(s)
      <3>1. ASSUME Awaited(s) PROVE Awaited(s)'
        <4>1. CASE hook.slot = s
          <5>1. Len(work) + 1 \in 1 .. Len(work')
            BY <2>2, Numbers
          <5>2. pc'["worker"] \in {"handoff", "pop"} => Len(work) + 1 # 1
            BY <2>1, <2>3, Numbers
          <5> QED
            BY <2>2, <4>1, <5>1, <5>2 DEF Awaited
        <4>2. CASE \E n \in 1 .. Len(work) :
                      work[n].slot = s /\ (pc["worker"] \in {"handoff", "pop"} => n # 1)
          <5>1. \A n \in 1 .. Len(work) : n \in 1 .. Len(work')
            BY <2>2, Numbers
          <5> QED
            BY <2>1, <2>2, <4>2, <5>1 DEF Awaited
        <4> QED
          BY <3>1, <4>1, <4>2 DEF Awaited
      <3>2. ASSUME Awaited(s)' PROVE Awaited(s)
        <4>1. PICK n \in 1 .. Len(work') :
                 work'[n].slot = s /\ (pc["worker"] \in {"handoff", "pop"} => n # 1)
          BY <2>1, <3>2 DEF Awaited
        <4>2. n \in 1 .. Len(work) \/ n = Len(work) + 1
          BY <2>2, Numbers
        <4> QED
          BY <2>1, <2>2, <4>1, <4>2 DEF Awaited
      <3> QED
        BY <3>1, <3>2
    <2>5. failures \in Nat
      BY AppSync
    <2> QED
      BY <2>1, <2>4, <2>5, SemKept DEF SemInv
  <1>3. CASE ~AdapterSubmit /\ ~Enqueue
    <2>1. /\ semApp' = semApp /\ work' = work /\ pc'["worker"] = pc["worker"]
          /\ failures \in Nat /\ failures' \in Nat /\ failures' >= failures
          /\ pc'["app"] = "enqueue" <=> pc["app"] = "enqueue"
          /\ pc["app"] = "enqueue" => hook' = hook
      BY <1>3, AppSync, AppLeaves
    <2>2. \A s \in Slot : Awaited(s)' <=> Awaited(s)
      BY <2>1 DEF Awaited
    <2>3. pc'["worker"] = "passOn" => failures' >= 1
      BY <2>1 DEF SemInv
    <2> QED
      BY <2>1, <2>2, <2>3, SemKept
  <1> QED
    BY <1>1, <1>2, <1>3

LEMMA SemWorker == IInv /\ SlotInv /\ SemInv /\ WorkerStep => SemInv'
  <1> SUFFICES ASSUME IInv, SlotInv, SemInv, WorkerStep PROVE SemInv'
    OBVIOUS
  <1> USE DEF IInv, SafeInv
  <1>f. failures \in Nat
    BY BoundsAssumption DEF TypeInv, TypeOK, ScreenOK
  <1>a. hook' = hook /\ pc'["app"] = pc["app"]
    BY WorkerLeaves DEF hookVars
  <1>1. CASE Wait("worker") \/ WorkerTake \/ WorkerExit \/ GenFence("worker")
             \/ GenDecide("worker") \/ WorkerHandoff
    <2>1. /\ UNCHANGED <<work, semApp, failures>>
          /\ pc'["worker"] # "passOn" \/ pc'["worker"] = pc["worker"]
      BY <1>1 DEF Wait, WorkerTake, WorkerExit, GenFence, GenDecide, WorkerHandoff, Past, At, Goto,
                  TypeInv, TypeOK, PcOK, Thread, semVars
    <2>2. pc'["worker"] \in {"handoff", "pop"} <=> pc["worker"] \in {"handoff", "pop"}
      BY <1>1 DEF Wait, WorkerTake, WorkerExit, GenFence, GenDecide, WorkerHandoff, Past, At, Goto,
                  TypeInv, TypeOK, PcOK, Thread
    <2>3. \A s \in Slot : Awaited(s)' <=> Awaited(s)
      BY <1>a, <2>1, <2>2 DEF Awaited
    <2> QED
      BY <1>f, <2>1, <2>3, SemKept DEF SemInv
  <1>2. CASE GenFailWorker
    <2>1. /\ UNCHANGED <<work, semApp>> /\ failures' = failures + 1
          /\ pc["worker"] = "submit" /\ pc'["worker"] = "passOn"
      BY <1>2 DEF GenFailWorker, At, Goto, TypeInv, TypeOK, PcOK, Thread, semVars
    <2>2. \A s \in Slot : Awaited(s)' <=> Awaited(s)
      BY <1>a, <2>1 DEF Awaited
    <2> QED
      BY <1>f, <2>1, <2>2, SemKept
  <1>3. CASE WorkerPop
    <2>1. /\ UNCHANGED <<semApp, failures>>
          /\ pc["worker"] = "pop" /\ pc'["worker"] = "take"
      BY <1>3 DEF WorkerPop, At, Goto, TypeInv, TypeOK, PcOK, Thread, semVars
    <2>2. ASSUME NEW s \in Slot PROVE Awaited(s)' <=> Awaited(s)
      <3>1. /\ Len(work) \in Nat \ {0} /\ Len(work') = Len(work) - 1
            /\ \A i \in 1 .. Len(work') : i + 1 \in 1 .. Len(work) /\ work'[i] = work[i + 1]
        BY <1>3, PopShifts
      <3>2. ASSUME NEW n \in 1 .. Len(work), n # 1
            PROVE  n - 1 \in 1 .. Len(work') /\ work'[n - 1] = work[n]
        <4>1. n - 1 \in 1 .. Len(work') /\ (n - 1) + 1 = n
          BY <3>1, <3>2
        <4> QED
          BY <3>1, <4>1
      <3>3. \A i \in 1 .. Len(work') : i + 1 # 1
        BY <3>1
      <3> QED
        BY <1>a, <2>1, <3>1, <3>2, <3>3 DEF Awaited
    <2> QED
      BY <1>f, <2>1, <2>2, SemKept
  <1>4. CASE GenSubmit("worker") \/ WorkerPassOn
    <2>1. /\ pc["worker"] \in {"submit", "passOn"} /\ pc'["worker"] = "handoff" /\ work' = work
          /\ work # <<>>
      BY <1>4 DEF GenSubmit, WorkerPassOn, At, Goto, TypeInv, TypeOK, PcOK, Thread, FrameAtHand
    <2>2. PICK h \in Slot : h = work[1].slot /\ h = Head(work).slot
      BY <2>1, WorkerItem
    <2>3. Awaited(h) /\ ~Awaited(h)'
      <3>1. 1 \in 1 .. Len(work)
        BY <2>1, EmptySeq DEF TypeInv, TypeOK, QueuesOK
      <3>2. Awaited(h)
        BY <2>1, <2>2, <3>1 DEF Awaited
      <3>3. \A n \in 1 .. Len(work) : n # 1 => work[n].slot # h
        BY <2>1, <2>2, WorkApart
      <3>4. pc["app"] = "enqueue" => hook.slot # h
        BY <2>1, <2>2, <3>1, HookApart
      <3> QED
        BY <1>a, <2>1, <3>2, <3>3, <3>4 DEF Awaited
    <2>4. \A s \in Slot \ {h} : Awaited(s)' <=> Awaited(s)
      BY <1>a, <2>1, <2>2 DEF Awaited
    <2>5. semApp \in [Slot -> Int]
      BY DEF TypeInv, TypeOK, SemaphoresOK
    <2>6. CASE semApp' = [semApp EXCEPT ![h] = @ - 1] /\ failures' = failures
      <3>1. /\ semApp'[h] = semApp[h] - 1 /\ \A s \in Slot \ {h} : semApp'[s] = semApp[s]
            /\ \A s \in Slot : semApp[s] \in Int
        BY <2>5, <2>6
      <3>2. semApp[h] >= 1 /\ (failures <= 1 => semApp[h] = 1)
        BY <2>3 DEF SemInv
      <3> QED
        BY <2>1, <2>3, <2>4, <2>6, <3>1, <3>2 DEF SemInv
    <2>7. CASE semApp' = semApp /\ failures' = failures + 1 /\ pc["worker"] = "passOn"
      <3>1. failures' > 1
        BY <1>f, <2>7 DEF SemInv
      <3>2. \A s \in Slot : Awaited(s)' => Awaited(s)
        BY <2>3, <2>4
      <3> QED
        BY <1>f, <2>1, <2>7, <3>1, <3>2 DEF SemInv
    <2> QED
      BY <1>4, <2>2, <2>6, <2>7 DEF GenSubmit, WorkerPassOn, Item, At
  <1> QED
    BY <1>1, <1>2, <1>3, <1>4 DEF WorkerStep

LEMMA SemPresenter == TypeInv /\ SemInv /\ PresenterStep => SemInv'
  BY PresenterLeaves DEF SemInv, Awaited, hookVars

-----------------------------------------------------------------------------
(* Presents wait for what was signalled. *)

\* Every present still to be made has its semaphore signalled by a submission, or
\* waits for none.
PresentsInv ==
    /\ \A k \in 1 .. Len(jobs) :
          (k = 1 => pc["presenter"] # "finish") => jobs[k].unwaited \/ jobs[k].frame \in semReal
    /\ \A k \in 1 .. Len(jobs) :
          jobs[k].generate /\ (k = 1 => pc["presenter"] \notin {"pace", "hold", "real", "finish"})
             => jobs[k].frame \in semGenerated
    /\ pc["worker"] = "handoff" => unwaited \/ work[1].frame \in semReal
    /\ pc["worker"] = "handoff" /\ gen["worker"] => work[1].frame \in semGenerated

LEMMA PresentsApp == IInv /\ PresentsInv /\ (AppCall \/ AppStep) => PresentsInv'
  <1> SUFFICES ASSUME IInv, PresentsInv, AppCall \/ AppStep PROVE PresentsInv'
    OBVIOUS
  <1> USE DEF IInv, SafeInv
  <1>1. CASE pc["app"] \in {"inlineCompanion", "inlineReal"}
    <2>1. work = <<>> /\ jobs = <<>>
      BY <1>1 DEF OrderParts, Quiet
    <2>2. pc["worker"] # "handoff" /\ Len(jobs) = 0
      BY <2>1, EmptySeq DEF TypeInv, FrameAtHand
    <2> QED
      BY <2>1, <2>2, AppLeaves DEF PresentsInv
  <1>2. CASE semReal \subseteq semReal' /\ semGenerated \subseteq semGenerated'
    <2>1. pc["worker"] = "handoff" => work'[1] = work[1]
      BY HeadStays DEF TypeInv, FrameAtHand
    <2> QED
      BY <1>2, <2>1, AppLeaves DEF PresentsInv
  <1> QED
    BY <1>1, <1>2, AppSync

LEMMA PresentsWorker == IInv /\ PresentsInv /\ WorkerStep => PresentsInv'
  <1> SUFFICES ASSUME IInv, PresentsInv, WorkerStep PROVE PresentsInv'
    OBVIOUS
  <1> USE DEF IInv, SafeInv
  <1>1. pc'["presenter"] = pc["presenter"]
    BY WorkerLeaves
  <1>2. CASE GenSubmit("worker") \/ WorkerPassOn
    <2>1. work # <<>> /\ work[1].frame = Head(work).frame
      BY <1>2 DEF GenSubmit, WorkerPassOn, At, TypeInv, FrameAtHand
    <2>2. /\ UNCHANGED <<jobs, work>>
          /\ semReal \subseteq semReal' /\ semGenerated \subseteq semGenerated'
      BY <1>2 DEF GenSubmit, WorkerPassOn, semVars
    <2>3. /\ unwaited' \/ work[1].frame \in semReal'
          /\ gen'["worker"] => work[1].frame \in semGenerated'
      BY <1>2, <2>1 DEF GenSubmit, WorkerPassOn, Item, localVars, TypeInv, TypeOK, LocalsOK,
                        Generator
    <2> QED
      BY <1>1, <2>2, <2>3 DEF PresentsInv
  <1>3. CASE WorkerHandoff
    <2>1. /\ Len(jobs') = Len(jobs) + 1 /\ jobs'[Len(jobs) + 1].frame = work[1].frame
          /\ jobs'[Len(jobs) + 1].generate = gen["worker"]
          /\ jobs'[Len(jobs) + 1].unwaited = unwaited
          /\ \A i \in 1 .. Len(jobs) : jobs'[i] = jobs[i]
      BY <1>3, HandoffAppends
    <2>2. /\ pc["worker"] = "handoff" /\ pc'["worker"] = "pop" /\ UNCHANGED semVars
      BY <1>3 DEF WorkerHandoff, Past, At, Goto, TypeInv, TypeOK, PcOK, Thread
    <2>3. \A k \in 1 .. Len(jobs') : k = Len(jobs) + 1 \/ k \in 1 .. Len(jobs)
      BY <2>1, Numbers
    <2> QED
      BY <1>1, <2>1, <2>2, <2>3 DEF PresentsInv, semVars
  <1>4. CASE Wait("worker") \/ WorkerTake \/ WorkerExit \/ GenFence("worker")
             \/ GenDecide("worker") \/ GenFailWorker \/ WorkerPop
    <2>1. UNCHANGED <<jobs, semReal, semGenerated>>
      BY <1>4 DEF Wait, WorkerTake, WorkerExit, GenFence, GenDecide, GenFailWorker, WorkerPop,
                  semVars
    <2>2. pc'["worker"] = "handoff" =>
             pc["worker"] = "handoff" /\ UNCHANGED <<work, gen, unwaited>>
      BY <1>4 DEF Wait, WorkerTake, WorkerExit, GenFence, GenDecide, GenFailWorker, WorkerPop,
                  Goto, TypeInv, TypeOK, PcOK, Thread, localVars
    <2> QED
      BY <1>1, <2>1, <2>2 DEF PresentsInv
  <1> QED
    BY <1>2, <1>3, <1>4 DEF WorkerStep

\* The frame presented is the first; the ones behind it are others.
LEMMA HeadFrame ==
  ASSUME IInv, jobs # <<>>
  PROVE  /\ 1 \in 1 .. Len(jobs) /\ Head(jobs) = jobs[1]
         /\ \A k \in 1 .. Len(jobs) : k # 1 => jobs[k].frame # jobs[1].frame
         /\ pc["worker"] = "handoff" => work[1].frame # jobs[1].frame
  <1>1. 1 \in 1 .. Len(jobs) /\ Head(jobs) = jobs[1]
    BY Numbers, EmptySeq DEF IInv, SafeInv, TypeInv, TypeOK, QueuesOK
  <1>2. \A k \in 1 .. Len(jobs) : jobs[k].frame = real - Shown + k
    BY DEF IInv, OrderParts, OrderInv
  <1>3. \A k \in 1 .. Len(jobs) : k # 1 => jobs[k].frame # jobs[1].frame
    BY <1>1, <1>2, Numbers
  <1>4. ASSUME pc["worker"] = "handoff" PROVE work[1].frame # jobs[1].frame
    <2>1. work # <<>> /\ Popped = 0
      BY <1>4 DEF IInv, SafeInv, TypeInv, FrameAtHand, Popped
    <2>2. 1 \in 1 .. Len(work)
      BY <2>1, Numbers, EmptySeq DEF IInv, SafeInv, TypeInv, TypeOK, QueuesOK
    <2>3. work[1].frame = real - Shown + Len(jobs) - Popped + 1
      BY <2>2 DEF IInv, OrderParts, OrderInv
    <2>4. jobs[1].frame = real - Shown + 1 /\ Len(jobs) >= 1
      BY <1>1, <1>2
    <2> QED
      BY <2>1, <2>3, <2>4, Numbers
  <1> QED
    BY <1>1, <1>3, <1>4

LEMMA PresentsPresenter == IInv /\ PresentsInv /\ PresenterStep => PresentsInv'
  <1> SUFFICES ASSUME IInv, PresentsInv, PresenterStep PROVE PresentsInv'
    OBVIOUS
  <1> USE DEF IInv, SafeInv
  <1>1. UNCHANGED <<work, gen, unwaited>> /\ pc'["worker"] = pc["worker"]
    BY PresenterLeaves
  <1>2. CASE PresenterCompanion
    <2>1. /\ jobs # <<>> /\ UNCHANGED <<jobs, semReal>>
          /\ semGenerated' = semGenerated \ {Head(jobs).frame}
          /\ pc["presenter"] = "companion" /\ pc'["presenter"] \in {"pace", "real"}
      BY <1>2 DEF PresenterCompanion, At, Goto, TypeInv, TypeOK, PcOK, FrameAtHand, Thread
    <2> QED
      BY <1>1, <2>1, HeadFrame DEF PresentsInv
  <1>3. CASE PresenterReal
    <2>1. /\ jobs # <<>> /\ UNCHANGED <<jobs, semGenerated>>
          /\ semReal \ {Head(jobs).frame} \subseteq semReal'
          /\ pc["presenter"] = "real" /\ pc'["presenter"] = "finish"
      BY <1>3 DEF PresenterReal, At, Goto, TypeInv, TypeOK, PcOK, FrameAtHand, Thread
    <2> QED
      BY <1>1, <2>1, HeadFrame DEF PresentsInv
  <1>4. CASE PresenterFinish
    <2>1. UNCHANGED semVars
      BY <1>4 DEF PresenterFinish
    <2>2. /\ Len(jobs) \in Nat \ {0} /\ Len(jobs') = Len(jobs) - 1
          /\ \A i \in 1 .. Len(jobs') : i + 1 \in 1 .. Len(jobs) /\ i + 1 # 1
                                        /\ jobs'[i] = jobs[i + 1]
      BY <1>4, FinishShifts
    <2> QED
      BY <1>1, <2>1, <2>2 DEF PresentsInv, semVars
  <1>5. CASE Wait("presenter") \/ PresenterNext \/ PresenterExit \/ PresenterPaced
             \/ PresenterHeld
    <2>1. UNCHANGED <<jobs, semReal, semGenerated>>
      BY <1>5 DEF Wait, PresenterNext, PresenterExit, PresenterPaced, PresenterHeld, semVars
    <2>2. /\ pc'["presenter"] # "finish" \/ pc["presenter"] = "finish"
          /\ pc'["presenter"] = "finish" \/ pc["presenter"] # "finish"
          /\ \/ pc["presenter"] \in {"pace", "hold", "real", "finish"} <=>
                   pc'["presenter"] \in {"pace", "hold", "real", "finish"}
             \/ jobs # <<>> /\ ~Head(jobs).generate
      BY <1>5 DEF Wait, PresenterNext, PresenterExit, PresenterPaced, PresenterHeld, Past, At,
                  Goto, TypeInv, TypeOK, PcOK, Thread
    <2> QED
      BY <1>1, <2>1, <2>2, HeadFrame DEF PresentsInv
  <1> QED
    BY <1>2, <1>3, <1>4, <1>5 DEF PresenterStep

-----------------------------------------------------------------------------
(* Together. *)

SyncParts == SlotInv /\ OwnFence /\ SemInv /\ PresentsInv
SyncInv == IInv /\ SyncParts

LEMMA SyncInit == Init => SyncInv
  <1> SUFFICES ASSUME Init PROVE SyncInv
    OBVIOUS
  <1>1. work = <<>> /\ jobs = <<>> /\ Len(work) = 0 /\ Len(jobs) = 0
    BY EmptySeq DEF Init
  <1>2. IInv
    BY SafeInit, OrderInit DEF IInv
  <1>3. OwnFence /\ SemInv /\ PresentsInv
    BY <1>1 DEF Init, OwnFence, SemInv, Awaited, PresentsInv
  <1> QED
    BY <1>2, <1>3, SlotInit DEF SyncInv, SyncParts

LEMMA SyncStep == SyncInv /\ [Next]_vars => SyncInv'
  <1> SUFFICES ASSUME SyncInv, [Next]_vars PROVE SyncInv'
    OBVIOUS
  <1> USE DEF SyncInv, SyncParts
  <1>1. IInv' /\ TypeInv
    BY Inductive DEF IInv, SafeInv
  <1>2. CASE AppCall \/ AppStep
    BY <1>1, <1>2, SlotApp, FenceApp, SemApp, PresentsApp
  <1>3. CASE WorkerStep
    BY <1>1, <1>3, SlotWorker, FenceWorker, SemWorker, PresentsWorker
  <1>4. CASE PresenterStep
    BY <1>1, <1>4, SlotPresenter, FencePresenter, SemPresenter, PresentsPresenter
  <1>5. CASE GpuComplete \/ Terminated \/ UNCHANGED vars
    <2>1. UNCHANGED <<pc, hookVars, work, jobs, fenceOf, localVars, semVars, failures>>
      BY <1>5 DEF GpuComplete, Terminated, vars, slotVars
    <2> QED
      BY <1>1, <2>1 DEF SlotInv, HookTurn, GivenUp, OwnFence, SemInv, Awaited, PresentsInv,
                        hookVars, localVars, semVars
  <1> QED
    BY <1>2, <1>3, <1>4, <1>5 DEF Next

\* The inductive invariant of the slots: whose each slot is, and what its fence
\* and semaphores owe (swapchain.c:38-40, swapchain_worker.c:134-164).
THEOREM SyncInvariant == Spec => []SyncInv
  BY SyncInit, SyncStep, PTL DEF Spec

\* While a frame is paced its slot's fence is its own: no other frame in flight has
\* the slot, and in_flight is bounded by image_count (swapchain.c:38-40).
THEOREM PacingWaitsForOwn == Spec => []PacingFenceIsOwn
  <1>1. ASSUME SyncInv PROVE PacingFenceIsOwn
    <2> SUFFICES ASSUME pc["presenter"] = "pace" PROVE fenceOf[Head(jobs).slot] = Head(jobs).frame
      BY DEF PacingFenceIsOwn
    <2>1. jobs # <<>>
      BY <1>1 DEF SyncInv, IInv, SafeInv, TypeInv, FrameAtHand
    <2> QED
      BY <1>1, <2>1, HeadFrame DEF SyncInv, SyncParts, OwnFence
  <1> QED
    BY <1>1, SyncInvariant, PTL

\* A slot's semaphore is waited on after its signal and signalled after its wait,
\* as long as no two submissions of the layer failed.
THEOREM SemaphoresAlternate == Spec => []SemAppBinary
  <1>1. ASSUME SyncInv PROVE SemAppBinary
    <2>1. failures \in Nat
      BY <1>1, BoundsAssumption DEF SyncInv, IInv, SafeInv, TypeInv, TypeOK, ScreenOK
    <2> QED
      BY <1>1, <2>1 DEF SyncInv, SyncParts, SemInv, SemAppBinary
  <1> QED
    BY <1>1, SyncInvariant, PTL

\* No present waits for a semaphore that nothing will signal, whichever
\* submissions failed (swapchain_worker.c:137-140).
THEOREM PresentsSignalled == Spec => []PresentsCanComplete
  <1>1. ASSUME SyncInv PROVE PresentsCanComplete
    <2>1. pc["presenter"] \in {"companion", "real"} => jobs # <<>>
      BY <1>1 DEF SyncInv, IInv, SafeInv, TypeInv, FrameAtHand
    <2>2. pc["presenter"] = "companion" => Head(jobs).generate
      BY <1>1 DEF SyncInv, IInv, OrderParts, CompInv
    <2> QED
      BY <1>1, <2>1, <2>2, HeadFrame DEF SyncInv, SyncParts, PresentsInv, PresentsCanComplete
  <1> QED
    BY <1>1, SyncInvariant, PTL

\* vkDeviceWaitIdle returns with every frame presented, nothing in flight and the
\* GPU done: what the drains in front of it saw cannot have changed.
THEOREM WaitIdleIsIdle == Spec => WaitIdleReturnsIdle
  <1>1. ASSUME IInv, [Next]_vars, pc["app"] = "deviceIdle", pc'["app"] # "deviceIdle"
        PROVE  real = given /\ inFlight = 0 /\ gpu = <<>>
    <2>1. work = <<>> /\ jobs = <<>>
      BY <1>1 DEF IInv, OrderParts, Quiet
    <2>2. Shown = 0 /\ Popped = 0 /\ Held = 0 /\ Len(work) = 0 /\ Len(jobs) = 0
      BY <1>1, <2>1, EmptySeq DEF IInv, SafeInv, TypeInv, FrameAtHand, Shown, Popped, Held,
                                  HookHolds
    <2>3. real = given
      BY <1>1, <2>2, Numbers DEF IInv, OrderParts, OrderInv
    <2>4. inFlight = 0
      BY <1>1, <2>2 DEF IInv, SafeInv, InFlightExact, Popped
    <2>5. DeviceIdle
      <3>1. ~AppCall
        BY <1>1 DEF AppCall, PresentThreaded, PresentInline, PresentUnfit, PresentDisabled,
                    DeviceWaitIdle, DestroySwapchain, Present, At
      <3>2. ~WorkerStep /\ ~PresenterStep
        BY <1>1, WorkerLeaves, PresenterLeaves DEF IInv, SafeInv
      <3>3. ~GpuComplete /\ ~Terminated /\ ~UNCHANGED vars
        BY <1>1 DEF GpuComplete, Terminated, vars
      <3>4. AppStep
        BY <1>1, <3>1, <3>2, <3>3 DEF Next
      <3> QED
        BY <1>1, <3>4 DEF AppStep, Wait, PassThrough, HookReserve, AdapterSubmit, AdapterFail,
                          Enqueue, Collect, WorkerDrained, PresenterDrained, StopWorker,
                          JoinWorker, StopPresenter, JoinPresenter, Disable, Free, GenFence,
                          GenDecide, GenSubmit, GenFailInline, InlineCompanion, InlineReal, Past,
                          At
    <2> QED
      BY <2>3, <2>4, <2>5 DEF DeviceIdle
  <1> QED
    BY <1>1, OrderInvariant, PTL DEF Spec, WaitIdleReturnsIdle
=============================================================================
