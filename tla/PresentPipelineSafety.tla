----------------------- MODULE PresentPipelineSafety ----------------------
(***************************************************************************)
(* The types of PresentPipeline, and from them: its frames are counted     *)
(* exactly and no wake-up is lost, for every number of images, queue       *)
(* length, path, result and failure bound.  The last two are inductive     *)
(* only together with what the code keeps true of the threads' lives,      *)
(* LifeInv.  From the types too: deferred_result of PresentResults is the  *)
(* worst outcome the application has not been told of.                     *)
(***************************************************************************)
EXTENDS PresentResults, SequenceTheorems, TLAPS

\* Where a thread works on a frame, the frame is there: the head of its queue,
\* or the hook's own.
FrameAtHand ==
    /\ pc["worker"] \in {"fence", "decide", "submit", "passOn", "handoff", "pop"} =>
          work # <<>>
    /\ pc["presenter"] \in {"companion", "pace", "hold", "real", "finish"} => jobs # <<>>
    /\ pc["app"] \in {"reserve", "adapter", "enqueue", "fence", "decide", "submit",
                      "inlineCompanion", "inlineReal", "pass"} => hook.frame \in Frame
    /\ pc["app"] \in {"drainWork", "drainJobs"} /\ after = "inline" => hook.frame \in Frame
    /\ pc["app"] \in {"stopWorker", "joinWorker", "stopPresenter", "joinPresenter", "stopped"}
          /\ after = "pass" => hook.frame \in Frame

TypeInv == TypeOK /\ FrameAtHand

-----------------------------------------------------------------------------
(* What the steps work on has its type. *)

LEMMA ModInSlot == \A x \in Nat : x % ImageCount \in Slot
  BY ImageCountAssumption DEF Slot

LEMMA NextSlot == ASSUME HookOK PROVE (slotIndex + 1) % ImageCount \in Slot
  <1>1. slotIndex + 1 \in Nat
    BY ImageCountAssumption DEF HookOK, Slot
  <1> QED
    BY <1>1, ModInSlot

LEMMA WorkerItem ==
  ASSUME TypeInv,
         pc["worker"] \in {"fence", "decide", "submit", "passOn", "handoff", "pop"}
  PROVE  /\ Head(work) \in WorkItem
         /\ Head(work).frame \in Frame /\ Head(work).slot \in Slot
         /\ Tail(work) \in Seq(WorkItem) /\ Len(Tail(work)) = Len(work) - 1
  <1>1. work \in Seq(WorkItem) /\ work # <<>>
    BY DEF TypeInv, TypeOK, QueuesOK, FrameAtHand
  <1>2. Head(work) \in WorkItem
    BY <1>1, HeadTailProperties
  <1> QED
    BY <1>1, <1>2, HeadTailProperties DEF WorkItem

LEMMA PresenterItem ==
  ASSUME TypeInv,
         pc["presenter"] \in {"companion", "pace", "hold", "real", "finish"}
  PROVE  /\ Head(jobs) \in Job
         /\ Head(jobs).frame \in Frame
         /\ Tail(jobs) \in Seq(Job) /\ Len(Tail(jobs)) = Len(jobs) - 1
  <1>1. jobs \in Seq(Job) /\ jobs # <<>>
    BY DEF TypeInv, TypeOK, QueuesOK, FrameAtHand
  <1>2. Head(jobs) \in Job
    BY <1>1, HeadTailProperties
  <1> QED
    BY <1>1, <1>2, HeadTailProperties DEF Job

LEMMA HookItem ==
  ASSUME TypeInv,
         pc["app"] \in {"reserve", "adapter", "enqueue", "fence", "decide", "submit",
                        "inlineCompanion", "inlineReal", "pass"}
  PROVE  hook \in WorkItem /\ hook.frame \in Frame /\ hook.slot \in Slot
  BY DEF TypeInv, TypeOK, HookOK, FrameAtHand, WorkItem

-----------------------------------------------------------------------------
(* The type invariant. *)

LEMMA TypeInit == Init => TypeInv
  <1> SUFFICES ASSUME Init PROVE TypeInv
    OBVIOUS
  <1> USE ImageCountAssumption, MaxJobsAssumption, BoundsAssumption DEF Init
  <1>1. PcOK
    BY DEF PcOK, AppPC, WorkerPC, PresenterPC, Thread
  <1>2. HookOK
    BY DEF HookOK, Slot
  <1>3. QueuesOK
    BY EmptySeq DEF QueuesOK
  <1>4. LifeOK
    BY DEF LifeOK
  <1>5. SlotsOK
    <2>1. fenceOf \in [Slot -> 0 .. MaxFrames] /\ gpu \in Seq(Slot)
      BY EmptySeq
    <2>2. /\ slotPending \in [Slot -> BOOLEAN] /\ fenceUp \in [Slot -> BOOLEAN]
          /\ haveHistory \in BOOLEAN
      OBVIOUS
    <2> QED
      BY <2>1, <2>2 DEF SlotsOK
  <1>6. LocalsOK
    BY DEF LocalsOK, Generator, Result
  <1>7. SemaphoresOK
    BY DEF SemaphoresOK
  <1>8. FrameAtHand
    BY DEF FrameAtHand
  <1>9. ScreenOK
    <2>1. real \in 0 .. MaxFrames /\ failures \in 0 .. MaxFailures
      OBVIOUS
    <2>2. comp \in BOOLEAN
      OBVIOUS
    <2> QED
      BY <2>1, <2>2 DEF ScreenOK
  <1> QED
    BY <1>1, <1>2, <1>3, <1>4, <1>5, <1>6, <1>7, <1>8, <1>9
       DEF TypeInv, TypeOK

LEMMA TypeAppCall == TypeInv /\ AppCall => TypeInv'
  <1> SUFFICES ASSUME TypeInv, AppCall PROVE TypeInv'
    OBVIOUS
  <1> USE DEF TypeInv, TypeOK, hookVars, lifeVars, slotVars, localVars, semVars, screenVars
  <1>1. CASE PresentThreaded
    <2> USE <1>1 DEF PresentThreaded, Present, TakeSlot, StartThreads
    <2>1. PcOK'
      BY DEF PcOK, Goto, AppPC, WorkerPC, PresenterPC, Thread, At
    <2>2. HookOK'
      BY NextSlot, BoundsAssumption DEF HookOK
    <2>3. LifeOK'
      BY DEF LifeOK
    <2>4. QueuesOK' /\ SlotsOK' /\ LocalsOK' /\ SemaphoresOK' /\ ScreenOK'
      BY DEF QueuesOK, SlotsOK, LocalsOK, SemaphoresOK, ScreenOK
    <2>5. FrameAtHand'
      BY BoundsAssumption DEF FrameAtHand, PcOK, Goto, Thread, AppPC, HookOK, Frame, At
    <2> QED
      BY <2>1, <2>2, <2>3, <2>4, <2>5
  <1>2. CASE PresentInline
    <2> USE <1>2 DEF PresentInline, Present, TakeSlot, StartThreads, NoThreads
    <2>1. PcOK'
      BY DEF PcOK, Goto, AppPC, WorkerPC, PresenterPC, Thread, At
    <2>2. HookOK'
      BY NextSlot, BoundsAssumption DEF HookOK
    <2>3. LifeOK'
      BY DEF LifeOK
    <2>4. QueuesOK' /\ SlotsOK' /\ LocalsOK' /\ SemaphoresOK' /\ ScreenOK'
      BY DEF QueuesOK, SlotsOK, LocalsOK, SemaphoresOK, ScreenOK
    <2>5. FrameAtHand'
      BY BoundsAssumption DEF FrameAtHand, PcOK, Goto, Thread, AppPC, HookOK, Frame, At
    <2> QED
      BY <2>1, <2>2, <2>3, <2>4, <2>5
  <1>3. CASE PresentUnfit
    <2> USE <1>3 DEF PresentUnfit, Present
    <2>1. PcOK'
      BY DEF PcOK, Goto, AppPC, WorkerPC, PresenterPC, Thread, At
    <2>2. HookOK'
      BY BoundsAssumption DEF HookOK
    <2>3. QueuesOK' /\ LifeOK' /\ SlotsOK' /\ LocalsOK' /\ SemaphoresOK' /\ ScreenOK'
      BY DEF QueuesOK, LifeOK, SlotsOK, LocalsOK, SemaphoresOK, ScreenOK
    <2>4. FrameAtHand'
      BY BoundsAssumption DEF FrameAtHand, PcOK, Goto, Thread, AppPC, HookOK, Frame, At
    <2> QED
      BY <2>1, <2>2, <2>3, <2>4
  <1>4. CASE PresentDisabled
    <2> USE <1>4 DEF PresentDisabled, Present
    <2>1. PcOK'
      BY DEF PcOK, Goto, AppPC, WorkerPC, PresenterPC, Thread, At
    <2>2. HookOK'
      BY BoundsAssumption DEF HookOK
    <2>3. QueuesOK' /\ LifeOK' /\ SlotsOK' /\ LocalsOK' /\ SemaphoresOK' /\ ScreenOK'
      BY DEF QueuesOK, LifeOK, SlotsOK, LocalsOK, SemaphoresOK, ScreenOK
    <2>4. FrameAtHand'
      BY BoundsAssumption DEF FrameAtHand, PcOK, Goto, Thread, AppPC, HookOK, Frame, At
    <2> QED
      BY <2>1, <2>2, <2>3, <2>4
  <1>5. CASE DeviceWaitIdle
    <2> USE <1>5 DEF DeviceWaitIdle
    <2>1. PcOK'
      BY DEF PcOK, Goto, AppPC, WorkerPC, PresenterPC, Thread
    <2>2. HookOK'
      BY DEF HookOK
    <2>3. QueuesOK' /\ LifeOK' /\ SlotsOK' /\ LocalsOK' /\ SemaphoresOK' /\ ScreenOK'
      BY DEF QueuesOK, LifeOK, SlotsOK, LocalsOK, SemaphoresOK, ScreenOK
    <2>4. FrameAtHand'
      BY DEF FrameAtHand, PcOK, Goto, Thread, AppPC, At, Past
    <2> QED
      BY <2>1, <2>2, <2>3, <2>4
  <1>6. CASE DestroySwapchain
    <2> USE <1>6 DEF DestroySwapchain
    <2>1. PcOK'
      BY DEF PcOK, Goto, AppPC, WorkerPC, PresenterPC, Thread
    <2>2. HookOK'
      BY DEF HookOK
    <2>3. QueuesOK' /\ LifeOK' /\ SlotsOK' /\ LocalsOK' /\ SemaphoresOK' /\ ScreenOK'
      BY DEF QueuesOK, LifeOK, SlotsOK, LocalsOK, SemaphoresOK, ScreenOK
    <2>4. FrameAtHand'
      BY DEF FrameAtHand, PcOK, Goto, Thread, AppPC, At, Past
    <2> QED
      BY <2>1, <2>2, <2>3, <2>4
  <1> QED
    BY <1>1, <1>2, <1>3, <1>4, <1>5, <1>6 DEF AppCall

LEMMA TypeAppStep == TypeInv /\ AppStep => TypeInv'
  <1> SUFFICES ASSUME TypeInv, AppStep PROVE TypeInv'
    OBVIOUS
  <1> USE DEF TypeInv, TypeOK, hookVars, lifeVars, slotVars, localVars, semVars, screenVars
  <1>1. CASE PassThrough
    <2> USE <1>1 DEF PassThrough
    <2>1. PcOK'
      BY DEF PcOK, Goto, AppPC, WorkerPC, PresenterPC, Thread
    <2>2. ScreenOK'
      BY DEF ScreenOK, HookOK
    <2>3. HookOK' /\ QueuesOK' /\ LifeOK' /\ SlotsOK' /\ LocalsOK' /\ SemaphoresOK'
      BY DEF HookOK, QueuesOK, LifeOK, SlotsOK, LocalsOK, SemaphoresOK
    <2>4. FrameAtHand'
      BY DEF FrameAtHand, PcOK, Goto, Thread, AppPC, At, Past
    <2> QED
      BY <2>1, <2>2, <2>3, <2>4
  <1>2. CASE HookReserve
    <2> USE <1>2 DEF HookReserve
    <2>1. PcOK'
      BY DEF PcOK, Goto, AppPC, WorkerPC, PresenterPC, Thread
    <2>2. QueuesOK'
      BY DEF QueuesOK
    <2>3. HookOK' /\ LifeOK' /\ SlotsOK' /\ LocalsOK' /\ SemaphoresOK' /\ ScreenOK'
      BY DEF HookOK, LifeOK, SlotsOK, LocalsOK, SemaphoresOK, ScreenOK
    <2>4. FrameAtHand'
      BY DEF FrameAtHand, PcOK, Goto, Thread, AppPC, At, Past
    <2> QED
      BY <2>1, <2>2, <2>3, <2>4
  <1>3. CASE AdapterSubmit
    <2> USE <1>3 DEF AdapterSubmit
    <2>1. PcOK'
      BY DEF PcOK, Goto, AppPC, WorkerPC, PresenterPC, Thread
    <2>2. SemaphoresOK'
      BY DEF SemaphoresOK, HookOK
    <2>3. HookOK' /\ QueuesOK' /\ LifeOK' /\ SlotsOK' /\ LocalsOK' /\ ScreenOK'
      BY DEF HookOK, QueuesOK, LifeOK, SlotsOK, LocalsOK, ScreenOK
    <2>4. FrameAtHand'
      BY DEF FrameAtHand, PcOK, Goto, Thread, AppPC, At, Past
    <2> QED
      BY <2>1, <2>2, <2>3, <2>4
  <1>4. CASE AdapterFail
    <2> USE <1>4 DEF AdapterFail
    <2>1. PcOK'
      BY DEF PcOK, Goto, AppPC, WorkerPC, PresenterPC, Thread, Broadcast
    <2>2. HookOK'
      BY DEF HookOK
    <2>3. QueuesOK'
      BY DEF QueuesOK
    <2>4. ScreenOK'
      BY BoundsAssumption DEF ScreenOK
    <2>5. LifeOK' /\ SlotsOK' /\ LocalsOK' /\ SemaphoresOK'
      BY DEF LifeOK, SlotsOK, LocalsOK, SemaphoresOK
    <2>6. FrameAtHand'
      BY DEF FrameAtHand, PcOK, Goto, Thread, AppPC, At, Past
    <2> QED
      BY <2>1, <2>2, <2>3, <2>4, <2>5, <2>6
  <1>5. CASE Enqueue
    <2> USE <1>5 DEF Enqueue
    <2>1. PcOK'
      BY DEF PcOK, Goto, AppPC, WorkerPC, PresenterPC, Thread, Broadcast
    <2>2. QueuesOK'
      BY HookItem, MaxJobsAssumption DEF QueuesOK, Past, At, MustWait, WorkFull
    <2>3. HookOK' /\ LifeOK' /\ SlotsOK' /\ LocalsOK' /\ SemaphoresOK' /\ ScreenOK'
      BY DEF HookOK, LifeOK, SlotsOK, LocalsOK, SemaphoresOK, ScreenOK
    <2>4. FrameAtHand'
      BY HookItem DEF FrameAtHand, PcOK, Goto, Thread, AppPC, At, Past, QueuesOK, WorkItem, Job
    <2> QED
      BY <2>1, <2>2, <2>3, <2>4
  <1>6. CASE Collect
    <2> USE <1>6 DEF Collect
    <2>1. PcOK'
      BY DEF PcOK, Goto, AppPC, WorkerPC, PresenterPC, Thread
    <2>2. HookOK'
      BY DEF HookOK
    <2>3. LocalsOK'
      BY DEF LocalsOK, Result
    <2>4. QueuesOK' /\ LifeOK' /\ SlotsOK' /\ SemaphoresOK' /\ ScreenOK'
      BY DEF QueuesOK, LifeOK, SlotsOK, SemaphoresOK, ScreenOK
    <2>5. FrameAtHand'
      BY DEF FrameAtHand, PcOK, Goto, Thread, AppPC, At, Past
    <2> QED
      BY <2>1, <2>2, <2>3, <2>4, <2>5
  <1>7. CASE WorkerDrained
    <2> USE <1>7 DEF WorkerDrained
    <2>1. PcOK'
      BY DEF PcOK, Goto, AppPC, WorkerPC, PresenterPC, Thread
    <2>2. HookOK' /\ QueuesOK' /\ LifeOK' /\ SlotsOK' /\ LocalsOK' /\ SemaphoresOK' /\ ScreenOK'
      BY DEF HookOK, QueuesOK, LifeOK, SlotsOK, LocalsOK, SemaphoresOK, ScreenOK
    <2>3. FrameAtHand'
      BY DEF FrameAtHand, PcOK, Goto, Thread, AppPC, At, Past
    <2> QED
      BY <2>1, <2>2, <2>3
  <1>8. CASE PresenterDrained
    <2> USE <1>8 DEF PresenterDrained
    <2>1. PcOK'
      BY DEF PcOK, Goto, AppPC, WorkerPC, PresenterPC, Thread
    <2>2. HookOK' /\ QueuesOK' /\ LifeOK' /\ SlotsOK' /\ LocalsOK' /\ SemaphoresOK' /\ ScreenOK'
      BY DEF HookOK, QueuesOK, LifeOK, SlotsOK, LocalsOK, SemaphoresOK, ScreenOK
    <2>3. FrameAtHand'
      BY DEF FrameAtHand, PcOK, Goto, Thread, AppPC, At, Past
    <2> QED
      BY <2>1, <2>2, <2>3
  <1>9. CASE DeviceIdle
    <2> USE <1>9 DEF DeviceIdle
    <2>1. PcOK'
      BY DEF PcOK, Goto, AppPC, WorkerPC, PresenterPC, Thread
    <2>2. HookOK' /\ QueuesOK' /\ LifeOK' /\ SlotsOK' /\ LocalsOK' /\ SemaphoresOK' /\ ScreenOK'
      BY DEF HookOK, QueuesOK, LifeOK, SlotsOK, LocalsOK, SemaphoresOK, ScreenOK
    <2>3. FrameAtHand'
      BY DEF FrameAtHand, PcOK, Goto, Thread, AppPC, At, Past
    <2> QED
      BY <2>1, <2>2, <2>3
  <1>10. CASE StopWorker
    <2> USE <1>10 DEF StopWorker
    <2>1. PcOK'
      BY DEF PcOK, Goto, AppPC, WorkerPC, PresenterPC, Thread, Broadcast
    <2>2. LifeOK'
      BY DEF LifeOK
    <2>3. HookOK' /\ QueuesOK' /\ SlotsOK' /\ LocalsOK' /\ SemaphoresOK' /\ ScreenOK'
      BY DEF HookOK, QueuesOK, SlotsOK, LocalsOK, SemaphoresOK, ScreenOK
    <2>4. FrameAtHand'
      BY DEF FrameAtHand, PcOK, Goto, Thread, AppPC, At, Past
    <2> QED
      BY <2>1, <2>2, <2>3, <2>4
  <1>11. CASE JoinWorker
    <2> USE <1>11 DEF JoinWorker
    <2>1. PcOK'
      BY DEF PcOK, Goto, AppPC, WorkerPC, PresenterPC, Thread
    <2>2. LifeOK'
      BY DEF LifeOK
    <2>3. HookOK' /\ QueuesOK' /\ SlotsOK' /\ LocalsOK' /\ SemaphoresOK' /\ ScreenOK'
      BY DEF HookOK, QueuesOK, SlotsOK, LocalsOK, SemaphoresOK, ScreenOK
    <2>4. FrameAtHand'
      BY DEF FrameAtHand, PcOK, Goto, Thread, AppPC, At, Past
    <2> QED
      BY <2>1, <2>2, <2>3, <2>4
  <1>12. CASE StopPresenter
    <2> USE <1>12 DEF StopPresenter
    <2>1. PcOK'
      BY DEF PcOK, Goto, AppPC, WorkerPC, PresenterPC, Thread, Broadcast
    <2>2. LifeOK'
      BY DEF LifeOK
    <2>3. HookOK' /\ QueuesOK' /\ SlotsOK' /\ LocalsOK' /\ SemaphoresOK' /\ ScreenOK'
      BY DEF HookOK, QueuesOK, SlotsOK, LocalsOK, SemaphoresOK, ScreenOK
    <2>4. FrameAtHand'
      BY DEF FrameAtHand, PcOK, Goto, Thread, AppPC, At, Past
    <2> QED
      BY <2>1, <2>2, <2>3, <2>4
  <1>13. CASE JoinPresenter
    <2> USE <1>13 DEF JoinPresenter
    <2>1. PcOK'
      BY DEF PcOK, Goto, AppPC, WorkerPC, PresenterPC, Thread
    <2>2. LifeOK'
      BY DEF LifeOK
    <2>3. HookOK' /\ QueuesOK' /\ SlotsOK' /\ LocalsOK' /\ SemaphoresOK' /\ ScreenOK'
      BY DEF HookOK, QueuesOK, SlotsOK, LocalsOK, SemaphoresOK, ScreenOK
    <2>4. FrameAtHand'
      BY DEF FrameAtHand, PcOK, Goto, Thread, AppPC, At, Past
    <2> QED
      BY <2>1, <2>2, <2>3, <2>4
  <1>14. CASE Disable
    <2> USE <1>14 DEF Disable
    <2>1. PcOK'
      BY DEF PcOK, Goto, AppPC, WorkerPC, PresenterPC, Thread
    <2>2. HookOK'
      BY DEF HookOK
    <2>3. QueuesOK' /\ LifeOK' /\ SlotsOK' /\ LocalsOK' /\ SemaphoresOK' /\ ScreenOK'
      BY DEF QueuesOK, LifeOK, SlotsOK, LocalsOK, SemaphoresOK, ScreenOK
    <2>4. FrameAtHand'
      BY DEF FrameAtHand, PcOK, Goto, Thread, AppPC, At, Past
    <2> QED
      BY <2>1, <2>2, <2>3, <2>4
  <1>15. CASE Free
    <2> USE <1>15 DEF Free
    <2>1. PcOK'
      BY DEF PcOK, Goto, AppPC, WorkerPC, PresenterPC, Thread
    <2>2. HookOK'
      BY DEF HookOK
    <2>3. QueuesOK' /\ LifeOK' /\ SlotsOK' /\ LocalsOK' /\ SemaphoresOK' /\ ScreenOK'
      BY DEF QueuesOK, LifeOK, SlotsOK, LocalsOK, SemaphoresOK, ScreenOK
    <2>4. FrameAtHand'
      BY DEF FrameAtHand, PcOK, Goto, Thread, AppPC, At, Past
    <2> QED
      BY <2>1, <2>2, <2>3, <2>4
  <1>16. CASE GenFence("app")
    <2> USE <1>16 DEF GenFence
    <2>1. PcOK'
      BY DEF PcOK, Goto, AppPC, WorkerPC, PresenterPC, Thread
    <2>2. SlotsOK'
      <3>1. 0 \in 0 .. MaxFrames
        BY BoundsAssumption
      <3>2. CASE slotPending[Item("app").slot]
        BY <3>1, <3>2 DEF SlotsOK
      <3>3. CASE ~slotPending[Item("app").slot]
        BY <3>3 DEF SlotsOK
      <3> QED
        BY <3>2, <3>3
    <2>3. HookOK' /\ QueuesOK' /\ LifeOK' /\ LocalsOK' /\ SemaphoresOK' /\ ScreenOK'
      BY DEF HookOK, QueuesOK, LifeOK, LocalsOK, SemaphoresOK, ScreenOK
    <2>4. FrameAtHand'
      BY DEF FrameAtHand, PcOK, Goto, Thread, AppPC, At, Past
    <2> QED
      BY <2>1, <2>2, <2>3, <2>4
  <1>17. CASE GenDecide("app")
    <2> USE <1>17 DEF GenDecide
    <2>1. PcOK'
      BY DEF PcOK, Goto, AppPC, WorkerPC, PresenterPC, Thread
    <2>2. LocalsOK'
      BY DEF LocalsOK, Generator
    <2>3. HookOK' /\ QueuesOK' /\ LifeOK' /\ SlotsOK' /\ SemaphoresOK' /\ ScreenOK'
      BY DEF HookOK, QueuesOK, LifeOK, SlotsOK, SemaphoresOK, ScreenOK
    <2>4. FrameAtHand'
      BY DEF FrameAtHand, PcOK, Goto, Thread, AppPC, At, Past
    <2> QED
      BY <2>1, <2>2, <2>3, <2>4
  <1>18. CASE GenSubmit("app")
    <2> USE <1>18 DEF GenSubmit
    <2>1. PcOK'
      BY DEF PcOK, Goto, AppPC, WorkerPC, PresenterPC, Thread
    <2>2. SlotsOK'
      BY HookItem, BoundsAssumption DEF SlotsOK, Item, WorkItem, Frame, At
    <2>3. SemaphoresOK'
      BY HookItem DEF SemaphoresOK, Item, WorkItem, At
    <2>4. HookOK' /\ QueuesOK' /\ LifeOK' /\ LocalsOK' /\ ScreenOK'
      BY DEF HookOK, QueuesOK, LifeOK, LocalsOK, ScreenOK
    <2>5. FrameAtHand'
      BY DEF FrameAtHand, PcOK, Goto, Thread, AppPC, At, Past
    <2> QED
      BY <2>1, <2>2, <2>3, <2>4, <2>5
  <1>19. CASE GenFailInline
    <2> USE <1>19 DEF GenFailInline
    <2>1. PcOK'
      BY DEF PcOK, Goto, AppPC, WorkerPC, PresenterPC, Thread
    <2>2. HookOK'
      BY DEF HookOK
    <2>3. ScreenOK'
      BY BoundsAssumption DEF ScreenOK
    <2>4. QueuesOK' /\ LifeOK' /\ SlotsOK' /\ LocalsOK' /\ SemaphoresOK'
      BY DEF QueuesOK, LifeOK, SlotsOK, LocalsOK, SemaphoresOK
    <2>5. FrameAtHand'
      BY DEF FrameAtHand, PcOK, Goto, Thread, AppPC, At, Past
    <2> QED
      BY <2>1, <2>2, <2>3, <2>4, <2>5
  <1>20. CASE InlineCompanion
    <2> USE <1>20 DEF InlineCompanion
    <2>1. PcOK'
      BY DEF PcOK, Goto, AppPC, WorkerPC, PresenterPC, Thread
    <2>2. SemaphoresOK'
      BY DEF SemaphoresOK
    <2>3. ScreenOK'
      BY DEF ScreenOK
    <2>4. HookOK' /\ QueuesOK' /\ LifeOK' /\ SlotsOK' /\ LocalsOK'
      BY DEF HookOK, QueuesOK, LifeOK, SlotsOK, LocalsOK
    <2>5. FrameAtHand'
      BY DEF FrameAtHand, PcOK, Goto, Thread, AppPC, At, Past
    <2> QED
      BY <2>1, <2>2, <2>3, <2>4, <2>5
  <1>21. CASE InlineReal
    <2> USE <1>21 DEF InlineReal
    <2>1. PcOK'
      BY DEF PcOK, Goto, AppPC, WorkerPC, PresenterPC, Thread
    <2>2. SemaphoresOK'
      BY DEF SemaphoresOK
    <2>3. ScreenOK'
      BY DEF ScreenOK, HookOK
    <2>4. HookOK' /\ QueuesOK' /\ LifeOK' /\ SlotsOK' /\ LocalsOK'
      BY DEF HookOK, QueuesOK, LifeOK, SlotsOK, LocalsOK
    <2>5. FrameAtHand'
      BY DEF FrameAtHand, PcOK, Goto, Thread, AppPC, At, Past
    <2> QED
      BY <2>1, <2>2, <2>3, <2>4, <2>5
  <1>22. CASE Wait("app")
    BY <1>22 DEF Wait, PcOK, Thread, HookOK, QueuesOK, LifeOK, SlotsOK, LocalsOK, SemaphoresOK, ScreenOK, FrameAtHand
  <1> QED
    BY <1>1, <1>2, <1>3, <1>4, <1>5, <1>6, <1>7, <1>8, <1>9, <1>10, <1>11, <1>12, <1>13, <1>14, <1>15, <1>16, <1>17, <1>18, <1>19, <1>20, <1>21, <1>22 DEF AppStep

LEMMA TypeWorker == TypeInv /\ WorkerStep => TypeInv'
  <1> SUFFICES ASSUME TypeInv, WorkerStep PROVE TypeInv'
    OBVIOUS
  <1> USE DEF TypeInv, TypeOK, hookVars, lifeVars, slotVars, localVars, semVars, screenVars
  <1>1. CASE WorkerTake
    <2> USE <1>1 DEF WorkerTake
    <2>1. PcOK'
      BY DEF PcOK, Goto, AppPC, WorkerPC, PresenterPC, Thread
    <2>2. LocalsOK'
      BY DEF LocalsOK
    <2>3. HookOK' /\ QueuesOK' /\ LifeOK' /\ SlotsOK' /\ SemaphoresOK' /\ ScreenOK'
      BY DEF HookOK, QueuesOK, LifeOK, SlotsOK, SemaphoresOK, ScreenOK
    <2>4. FrameAtHand'
      BY DEF FrameAtHand, PcOK, Goto, Thread, AppPC, At, Past, At, Past
    <2> QED
      BY <2>1, <2>2, <2>3, <2>4
  <1>2. CASE WorkerExit
    <2> USE <1>2 DEF WorkerExit
    <2>1. PcOK'
      BY DEF PcOK, Goto, AppPC, WorkerPC, PresenterPC, Thread
    <2>2. HookOK' /\ QueuesOK' /\ LifeOK' /\ SlotsOK' /\ LocalsOK' /\ SemaphoresOK' /\ ScreenOK'
      BY DEF HookOK, QueuesOK, LifeOK, SlotsOK, LocalsOK, SemaphoresOK, ScreenOK
    <2>3. FrameAtHand'
      BY DEF FrameAtHand, PcOK, Goto, Thread, AppPC, At, Past
    <2> QED
      BY <2>1, <2>2, <2>3
  <1>3. CASE GenFence("worker")
    <2> USE <1>3 DEF GenFence
    <2>1. PcOK'
      BY DEF PcOK, Goto, AppPC, WorkerPC, PresenterPC, Thread
    <2>2. SlotsOK'
      <3>1. 0 \in 0 .. MaxFrames
        BY BoundsAssumption
      <3>2. CASE slotPending[Item("worker").slot]
        BY <3>1, <3>2 DEF SlotsOK
      <3>3. CASE ~slotPending[Item("worker").slot]
        BY <3>3 DEF SlotsOK
      <3> QED
        BY <3>2, <3>3
    <2>3. HookOK' /\ QueuesOK' /\ LifeOK' /\ LocalsOK' /\ SemaphoresOK' /\ ScreenOK'
      BY DEF HookOK, QueuesOK, LifeOK, LocalsOK, SemaphoresOK, ScreenOK
    <2>4. FrameAtHand'
      BY DEF FrameAtHand, PcOK, Goto, Thread, AppPC, At, Past
    <2> QED
      BY <2>1, <2>2, <2>3, <2>4
  <1>4. CASE GenDecide("worker")
    <2> USE <1>4 DEF GenDecide
    <2>1. PcOK'
      BY DEF PcOK, Goto, AppPC, WorkerPC, PresenterPC, Thread
    <2>2. LocalsOK'
      BY DEF LocalsOK, Generator
    <2>3. HookOK' /\ QueuesOK' /\ LifeOK' /\ SlotsOK' /\ SemaphoresOK' /\ ScreenOK'
      BY DEF HookOK, QueuesOK, LifeOK, SlotsOK, SemaphoresOK, ScreenOK
    <2>4. FrameAtHand'
      BY DEF FrameAtHand, PcOK, Goto, Thread, AppPC, At, Past
    <2> QED
      BY <2>1, <2>2, <2>3, <2>4
  <1>5. CASE GenSubmit("worker")
    <2> USE <1>5 DEF GenSubmit
    <2>1. PcOK'
      BY DEF PcOK, Goto, AppPC, WorkerPC, PresenterPC, Thread
    <2>2. SlotsOK'
      BY WorkerItem, BoundsAssumption DEF SlotsOK, Item, WorkItem, Frame, At
    <2>3. SemaphoresOK'
      BY WorkerItem DEF SemaphoresOK, Item, WorkItem, At
    <2>4. HookOK' /\ QueuesOK' /\ LifeOK' /\ LocalsOK' /\ ScreenOK'
      BY DEF HookOK, QueuesOK, LifeOK, LocalsOK, ScreenOK
    <2>5. FrameAtHand'
      BY DEF FrameAtHand, PcOK, Goto, Thread, AppPC, At, Past
    <2> QED
      BY <2>1, <2>2, <2>3, <2>4, <2>5
  <1>6. CASE GenFailWorker
    <2> USE <1>6 DEF GenFailWorker
    <2>1. PcOK'
      BY DEF PcOK, Goto, AppPC, WorkerPC, PresenterPC, Thread
    <2>2. ScreenOK'
      BY BoundsAssumption DEF ScreenOK
    <2>3. HookOK' /\ QueuesOK' /\ LifeOK' /\ SlotsOK' /\ LocalsOK' /\ SemaphoresOK'
      BY DEF HookOK, QueuesOK, LifeOK, SlotsOK, LocalsOK, SemaphoresOK
    <2>4. FrameAtHand'
      BY DEF FrameAtHand, PcOK, Goto, Thread, AppPC, At, Past
    <2> QED
      BY <2>1, <2>2, <2>3, <2>4
  <1>7. CASE WorkerPassOn
    <2> USE <1>7 DEF WorkerPassOn
    <2>1. PcOK'
      BY DEF PcOK, Goto, AppPC, WorkerPC, PresenterPC, Thread
    <2>2. LifeOK'
      BY DEF LifeOK
    <2>3. LocalsOK'
      BY DEF LocalsOK, Generator, Result
    <2>4. SemaphoresOK'
      BY WorkerItem DEF SemaphoresOK, WorkItem, At
    <2>5. ScreenOK'
      BY BoundsAssumption DEF ScreenOK
    <2>6. HookOK' /\ QueuesOK' /\ SlotsOK'
      BY DEF HookOK, QueuesOK, SlotsOK
    <2>7. FrameAtHand'
      BY DEF FrameAtHand, PcOK, Goto, Thread, AppPC, At, Past
    <2> QED
      BY <2>1, <2>2, <2>3, <2>4, <2>5, <2>6, <2>7
  <1>8. CASE WorkerHandoff
    <2> USE <1>8 DEF WorkerHandoff
    <2>1. PcOK'
      BY DEF PcOK, Goto, AppPC, WorkerPC, PresenterPC, Thread, Broadcast
    <2>2. QueuesOK'
      BY WorkerItem, MaxJobsAssumption DEF QueuesOK, LocalsOK, Generator, WorkItem, Job, Past, At, MustWait, JobsFull
    <2>3. HookOK' /\ LifeOK' /\ SlotsOK' /\ LocalsOK' /\ SemaphoresOK' /\ ScreenOK'
      BY DEF HookOK, LifeOK, SlotsOK, LocalsOK, SemaphoresOK, ScreenOK
    <2>4. FrameAtHand'
      BY DEF FrameAtHand, PcOK, Goto, Thread, AppPC, At, Past, QueuesOK, WorkItem, Job
    <2> QED
      BY <2>1, <2>2, <2>3, <2>4
  <1>9. CASE WorkerPop
    <2> USE <1>9 DEF WorkerPop
    <2>1. PcOK'
      BY DEF PcOK, Goto, AppPC, WorkerPC, PresenterPC, Thread, Broadcast
    <2>2. QueuesOK'
      BY WorkerItem, MaxJobsAssumption DEF QueuesOK, At
    <2>3. HookOK' /\ LifeOK' /\ SlotsOK' /\ LocalsOK' /\ SemaphoresOK' /\ ScreenOK'
      BY DEF HookOK, LifeOK, SlotsOK, LocalsOK, SemaphoresOK, ScreenOK
    <2>4. FrameAtHand'
      BY DEF FrameAtHand, PcOK, Goto, Thread, AppPC, At, Past, At, Past
    <2> QED
      BY <2>1, <2>2, <2>3, <2>4
  <1>10. CASE Wait("worker")
    BY <1>10 DEF Wait, PcOK, Thread, HookOK, QueuesOK, LifeOK, SlotsOK, LocalsOK, SemaphoresOK, ScreenOK, FrameAtHand
  <1> QED
    BY <1>1, <1>2, <1>3, <1>4, <1>5, <1>6, <1>7, <1>8, <1>9, <1>10 DEF WorkerStep

LEMMA TypePresenter == TypeInv /\ PresenterStep => TypeInv'
  <1> SUFFICES ASSUME TypeInv, PresenterStep PROVE TypeInv'
    OBVIOUS
  <1> USE DEF TypeInv, TypeOK, hookVars, lifeVars, slotVars, localVars, semVars, screenVars
  <1>1. CASE PresenterNext
    <2> USE <1>1 DEF PresenterNext
    <2>1. PcOK'
      BY DEF PcOK, Goto, AppPC, WorkerPC, PresenterPC, Thread
    <2>2. LocalsOK'
      BY DEF LocalsOK, Result, LifeOK
    <2>3. HookOK' /\ QueuesOK' /\ LifeOK' /\ SlotsOK' /\ SemaphoresOK' /\ ScreenOK'
      BY DEF HookOK, QueuesOK, LifeOK, SlotsOK, SemaphoresOK, ScreenOK
    <2>4. FrameAtHand'
      BY DEF FrameAtHand, PcOK, Goto, Thread, AppPC, At, Past
    <2> QED
      BY <2>1, <2>2, <2>3, <2>4
  <1>2. CASE PresenterExit
    <2> USE <1>2 DEF PresenterExit
    <2>1. PcOK'
      BY DEF PcOK, Goto, AppPC, WorkerPC, PresenterPC, Thread
    <2>2. HookOK' /\ QueuesOK' /\ LifeOK' /\ SlotsOK' /\ LocalsOK' /\ SemaphoresOK' /\ ScreenOK'
      BY DEF HookOK, QueuesOK, LifeOK, SlotsOK, LocalsOK, SemaphoresOK, ScreenOK
    <2>3. FrameAtHand'
      BY DEF FrameAtHand, PcOK, Goto, Thread, AppPC, At, Past
    <2> QED
      BY <2>1, <2>2, <2>3
  <1>3. CASE PresenterCompanion
    <2> USE <1>3 DEF PresenterCompanion
    <2>1. PcOK'
      BY DEF PcOK, Goto, AppPC, WorkerPC, PresenterPC, Thread
    <2>2. LocalsOK'
      BY ResultsAssumption DEF LocalsOK, Result, Path
    <2>3. SemaphoresOK'
      BY DEF SemaphoresOK
    <2>4. ScreenOK'
      BY DEF ScreenOK
    <2>5. HookOK' /\ QueuesOK' /\ LifeOK' /\ SlotsOK'
      BY DEF HookOK, QueuesOK, LifeOK, SlotsOK
    <2>6. FrameAtHand'
      BY DEF FrameAtHand, PcOK, Goto, Thread, AppPC, At, Past
    <2> QED
      BY <2>1, <2>2, <2>3, <2>4, <2>5, <2>6
  <1>4. CASE PresenterPaced
    <2> USE <1>4 DEF PresenterPaced
    <2>1. PcOK'
      BY DEF PcOK, Goto, AppPC, WorkerPC, PresenterPC, Thread
    <2>2. HookOK' /\ QueuesOK' /\ LifeOK' /\ SlotsOK' /\ LocalsOK' /\ SemaphoresOK' /\ ScreenOK'
      BY DEF HookOK, QueuesOK, LifeOK, SlotsOK, LocalsOK, SemaphoresOK, ScreenOK
    <2>3. FrameAtHand'
      BY DEF FrameAtHand, PcOK, Goto, Thread, AppPC, At, Past
    <2> QED
      BY <2>1, <2>2, <2>3
  <1>5. CASE PresenterHeld
    <2> USE <1>5 DEF PresenterHeld
    <2>1. PcOK'
      BY DEF PcOK, Goto, AppPC, WorkerPC, PresenterPC, Thread
    <2>2. HookOK' /\ QueuesOK' /\ LifeOK' /\ SlotsOK' /\ LocalsOK' /\ SemaphoresOK' /\ ScreenOK'
      BY DEF HookOK, QueuesOK, LifeOK, SlotsOK, LocalsOK, SemaphoresOK, ScreenOK
    <2>3. FrameAtHand'
      BY DEF FrameAtHand, PcOK, Goto, Thread, AppPC, At, Past
    <2> QED
      BY <2>1, <2>2, <2>3
  <1>6. CASE PresenterReal
    <2> USE <1>6 DEF PresenterReal
    <2>1. PcOK'
      BY DEF PcOK, Goto, AppPC, WorkerPC, PresenterPC, Thread
    <2>2. LocalsOK'
      BY ResultsAssumption DEF LocalsOK, Result
    <2>3. SemaphoresOK'
      BY DEF SemaphoresOK
    <2>4. ScreenOK'
      <3>1. Head(jobs).frame \in Frame
        BY PresenterItem DEF At
      <3>2. real' \in 0 .. MaxFrames /\ failures' \in 0 .. MaxFailures
        BY <3>1, BoundsAssumption DEF ScreenOK, Frame
      <3> QED
        BY <3>2 DEF ScreenOK
    <2>5. HookOK' /\ QueuesOK' /\ LifeOK' /\ SlotsOK'
      BY DEF HookOK, QueuesOK, LifeOK, SlotsOK
    <2>6. FrameAtHand'
      BY DEF FrameAtHand, PcOK, Goto, Thread, AppPC, At, Past
    <2> QED
      BY <2>1, <2>2, <2>3, <2>4, <2>5, <2>6
  <1>7. CASE PresenterFinish
    <2> USE <1>7 DEF PresenterFinish
    <2>1. PcOK'
      BY DEF PcOK, Goto, AppPC, WorkerPC, PresenterPC, Thread, Broadcast
    <2>2. QueuesOK'
      BY PresenterItem, MaxJobsAssumption DEF QueuesOK, At
    <2>3. LocalsOK'
      BY DEF LocalsOK, Worst, Result
    <2>4. HookOK' /\ LifeOK' /\ SlotsOK' /\ SemaphoresOK' /\ ScreenOK'
      BY DEF HookOK, LifeOK, SlotsOK, SemaphoresOK, ScreenOK
    <2>5. FrameAtHand'
      BY DEF FrameAtHand, PcOK, Goto, Thread, AppPC, At, Past
    <2> QED
      BY <2>1, <2>2, <2>3, <2>4, <2>5
  <1>8. CASE Wait("presenter")
    BY <1>8 DEF Wait, PcOK, Thread, HookOK, QueuesOK, LifeOK, SlotsOK, LocalsOK, SemaphoresOK, ScreenOK, FrameAtHand
  <1> QED
    BY <1>1, <1>2, <1>3, <1>4, <1>5, <1>6, <1>7, <1>8 DEF PresenterStep

LEMMA TypeGpu == TypeInv /\ GpuComplete => TypeInv'
  <1> SUFFICES ASSUME TypeInv, GpuComplete PROVE TypeInv'
    OBVIOUS
  <1> USE DEF TypeInv, TypeOK, GpuComplete, hookVars, lifeVars, slotVars, localVars, semVars,
              screenVars
  <1>1. SlotsOK'
    BY DEF SlotsOK
  <1>2. PcOK' /\ HookOK' /\ QueuesOK' /\ LifeOK' /\ LocalsOK' /\ SemaphoresOK' /\ ScreenOK'
    BY DEF PcOK, HookOK, QueuesOK, LifeOK, LocalsOK, SemaphoresOK, ScreenOK
  <1>3. FrameAtHand'
    BY DEF FrameAtHand
  <1> QED
    BY <1>1, <1>2, <1>3

LEMMA TypeStutter == TypeInv /\ UNCHANGED vars => TypeInv'
  BY DEF TypeInv, TypeOK, vars, hookVars, lifeVars, slotVars, localVars, semVars, screenVars,
         PcOK, HookOK, QueuesOK, LifeOK, SlotsOK, LocalsOK, SemaphoresOK, ScreenOK, FrameAtHand

\* Every value the pipeline keeps has its type, and the two queues never
\* outgrow their arrays.
THEOREM TypeCorrect == Spec => []TypeOK
  <1>1. Init => TypeInv
    BY TypeInit
  <1>2. TypeInv /\ [Next]_vars => TypeInv'
    BY TypeAppCall, TypeAppStep, TypeWorker, TypePresenter, TypeGpu, TypeStutter
       DEF Next, Terminated
  <1>3. TypeInv => TypeOK
    BY DEF TypeInv
  <1> QED
    BY <1>1, <1>2, <1>3, PTL DEF Spec

-----------------------------------------------------------------------------
(* The lives of the threads, their sleep and the frames in flight. *)

\* When a thread runs and when it has been told to stop: the work thread only
\* beside the presentation thread, a running thread told to stop only while
\* somebody joins it, none once generation is off.
LifeInv ==
    /\ workerOn => presenterOn
    /\ pc["app"] \in {"reserve", "adapter", "enqueue", "collect"} => workerOn
    /\ workerOn /\ workerStop => pc["app"] = "joinWorker"
    /\ presenterOn /\ presenterStop => pc["app"] = "joinPresenter"
    /\ pc["app"] \in {"stopPresenter", "joinPresenter", "stopped", "pass", "gone"} => ~workerOn
    /\ pc["app"] \in {"stopped", "pass", "gone"} => ~presenterOn
    /\ ~genEnabled => ~workerOn /\ ~presenterOn

\* What a thread asleep waits for, thread by thread: NoLostWakeup, with the
\* places a thread can be asleep at.
SleepInv ==
    /\ "app" \in asleep =>
          \/ pc["app"] = "reserve" /\ SlotsTaken
          \/ pc["app"] = "enqueue" /\ WorkFull
          \/ pc["app"] = "drainWork" /\ WorkerBehind
          \/ pc["app"] = "drainJobs" /\ PresenterBehind
    /\ "worker" \in asleep =>
          /\ workerOn
          /\ \/ pc["worker"] = "take" /\ work = <<>> /\ ~workerStop
             \/ pc["worker"] = "handoff" /\ JobsFull
    /\ "presenter" \in asleep =>
          presenterOn /\ pc["presenter"] = "next" /\ jobs = <<>> /\ ~presenterStop

SafeInv == TypeInv /\ LifeInv /\ InFlightExact /\ SleepInv

-----------------------------------------------------------------------------
(* The threads' lives. *)

LEMMA LifeInit == Init => LifeInv
  BY DEF Init, LifeInv

LEMMA LifeAppCall == TypeInv /\ LifeInv /\ AppCall => LifeInv'
  <1> SUFFICES ASSUME TypeInv /\ LifeInv, AppCall PROVE LifeInv'
    OBVIOUS
  <1> USE DEF TypeInv, TypeOK, PcOK, Thread, hookVars, lifeVars
  <1>1. CASE PresentThreaded
    BY <1>1 DEF PresentThreaded, Present, TakeSlot, StartThreads, ThreadsReady, MayStart,
                LifeInv, At, Running, Goto
  <1>2. CASE PresentInline
    BY <1>2 DEF PresentInline, Present, TakeSlot, StartThreads, NoThreads, ThreadsReady,
                MayStart, LifeInv, At, Running, Goto
  <1>3. CASE PresentUnfit
    BY <1>3 DEF PresentUnfit, Present, LifeInv, At, Running, Goto
  <1>4. CASE PresentDisabled
    BY <1>4 DEF PresentDisabled, Present, LifeInv, At, Running, Goto
  <1>5. CASE DeviceWaitIdle
    BY <1>5 DEF DeviceWaitIdle, LifeInv, At, Running, Goto
  <1>6. CASE DestroySwapchain
    BY <1>6 DEF DestroySwapchain, LifeInv, At, Running, Goto
  <1> QED
    BY <1>1, <1>2, <1>3, <1>4, <1>5, <1>6 DEF AppCall

LEMMA LifeAppStep == TypeInv /\ LifeInv /\ AppStep => LifeInv'
  <1> SUFFICES ASSUME TypeInv /\ LifeInv, AppStep PROVE LifeInv'
    OBVIOUS
  <1> USE DEF TypeInv, TypeOK, PcOK, Thread, hookVars, lifeVars
  <1>1. CASE Wait("app")
    BY <1>1 DEF Wait, LifeInv, Running
  <1>2. CASE PassThrough
    BY <1>2 DEF PassThrough, LifeInv, At, Running, Goto
  <1>3. CASE HookReserve
    BY <1>3 DEF HookReserve, LifeInv, At, Past, Running, Goto
  <1>4. CASE AdapterSubmit
    BY <1>4 DEF AdapterSubmit, LifeInv, At, Running, Goto
  <1>5. CASE AdapterFail
    BY <1>5 DEF AdapterFail, LifeInv, At, Running, Goto
  <1>6. CASE Enqueue
    BY <1>6 DEF Enqueue, LifeInv, At, Past, Running, Goto
  <1>7. CASE Collect
    BY <1>7 DEF Collect, LifeInv, At, Running, Goto
  <1>8. CASE WorkerDrained
    BY <1>8 DEF WorkerDrained, LifeInv, At, Past, Running, Goto
  <1>9. CASE PresenterDrained
    BY <1>9 DEF PresenterDrained, LifeInv, At, Past, Running, Goto
  <1>10. CASE DeviceIdle
    BY <1>10 DEF DeviceIdle, LifeInv, At, Running, Goto
  <1>11. CASE StopWorker
    BY <1>11 DEF StopWorker, LifeInv, At, Running, Goto
  <1>12. CASE JoinWorker
    BY <1>12 DEF JoinWorker, LifeInv, At, Running, Goto
  <1>13. CASE StopPresenter
    BY <1>13 DEF StopPresenter, LifeInv, At, Running, Goto
  <1>14. CASE JoinPresenter
    BY <1>14 DEF JoinPresenter, LifeInv, At, Running, Goto
  <1>15. CASE Disable
    BY <1>15 DEF Disable, LifeInv, At, Running, Goto
  <1>16. CASE Free
    BY <1>16 DEF Free, LifeInv, At, Running, Goto
  <1>17. CASE GenFence("app")
    BY <1>17 DEF GenFence, LifeInv, At, Running, Goto
  <1>18. CASE GenDecide("app")
    BY <1>18 DEF GenDecide, LifeInv, At, Running, Goto
  <1>19. CASE GenSubmit("app")
    BY <1>19 DEF GenSubmit, LifeInv, At, Running, Goto
  <1>20. CASE GenFailInline
    BY <1>20 DEF GenFailInline, LifeInv, At, Running, Goto
  <1>21. CASE InlineCompanion
    BY <1>21 DEF InlineCompanion, LifeInv, At, Running, Goto
  <1>22. CASE InlineReal
    BY <1>22 DEF InlineReal, LifeInv, At, Running, Goto
  <1> QED
    BY <1>1, <1>2, <1>3, <1>4, <1>5, <1>6, <1>7, <1>8, <1>9, <1>10, <1>11, <1>12, <1>13,
       <1>14, <1>15, <1>16, <1>17, <1>18, <1>19, <1>20, <1>21, <1>22
       DEF AppStep

LEMMA LifeWorker == TypeInv /\ LifeInv /\ WorkerStep => LifeInv'
  <1> SUFFICES ASSUME TypeInv /\ LifeInv, WorkerStep PROVE LifeInv'
    OBVIOUS
  <1> USE DEF TypeInv, TypeOK, PcOK, Thread, hookVars, lifeVars
  <1>1. CASE Wait("worker")
    BY <1>1 DEF Wait, LifeInv, Running
  <1>2. CASE WorkerTake
    BY <1>2 DEF WorkerTake, LifeInv, At, Past, Running, Goto
  <1>3. CASE WorkerExit
    BY <1>3 DEF WorkerExit, LifeInv, At, Past, Running, Goto
  <1>4. CASE GenFence("worker")
    BY <1>4 DEF GenFence, LifeInv, At, Running, Goto
  <1>5. CASE GenDecide("worker")
    BY <1>5 DEF GenDecide, LifeInv, At, Running, Goto
  <1>6. CASE GenSubmit("worker")
    BY <1>6 DEF GenSubmit, LifeInv, At, Running, Goto
  <1>7. CASE GenFailWorker
    BY <1>7 DEF GenFailWorker, LifeInv, At, Running, Goto
  <1>8. CASE WorkerPassOn
    BY <1>8 DEF WorkerPassOn, LifeInv, At, Running, Goto
  <1>9. CASE WorkerHandoff
    BY <1>9 DEF WorkerHandoff, LifeInv, At, Past, Running, Goto
  <1>10. CASE WorkerPop
    BY <1>10 DEF WorkerPop, LifeInv, At, Running, Goto
  <1> QED
    BY <1>1, <1>2, <1>3, <1>4, <1>5, <1>6, <1>7, <1>8, <1>9, <1>10 DEF WorkerStep

LEMMA LifePresenter == TypeInv /\ LifeInv /\ PresenterStep => LifeInv'
  <1> SUFFICES ASSUME TypeInv /\ LifeInv, PresenterStep PROVE LifeInv'
    OBVIOUS
  <1> USE DEF TypeInv, TypeOK, PcOK, Thread, hookVars, lifeVars
  <1>1. CASE Wait("presenter")
    BY <1>1 DEF Wait, LifeInv, Running
  <1>2. CASE PresenterNext
    BY <1>2 DEF PresenterNext, LifeInv, At, Past, Running, Goto
  <1>3. CASE PresenterExit
    BY <1>3 DEF PresenterExit, LifeInv, At, Past, Running, Goto
  <1>4. CASE PresenterCompanion
    BY <1>4 DEF PresenterCompanion, LifeInv, At, Running, Goto
  <1>5. CASE PresenterPaced
    BY <1>5 DEF PresenterPaced, LifeInv, At, Running, Goto
  <1>6. CASE PresenterHeld
    BY <1>6 DEF PresenterHeld, LifeInv, At, Running, Goto
  <1>7. CASE PresenterReal
    BY <1>7 DEF PresenterReal, LifeInv, At, Running, Goto
  <1>8. CASE PresenterFinish
    BY <1>8 DEF PresenterFinish, LifeInv, At, Running, Goto
  <1> QED
    BY <1>1, <1>2, <1>3, <1>4, <1>5, <1>6, <1>7, <1>8 DEF PresenterStep

-----------------------------------------------------------------------------
(* The frames in flight. *)

\* What a handoff leaves in jobs: one item more.
LEMMA HandoffJobs ==
  ASSUME TypeInv, WorkerHandoff
  PROVE  jobs' \in Seq(Job) /\ jobs' # <<>> /\ Len(jobs') = Len(jobs) + 1
  <1>1. Head(work).frame \in Frame /\ Head(work).slot \in Slot
    BY WorkerItem DEF WorkerHandoff, Past, At
  <1>2. [frame |-> Head(work).frame, slot |-> Head(work).slot,
         generate |-> gen["worker"], unwaited |-> unwaited] \in Job
    BY <1>1 DEF Job, TypeInv, TypeOK, LocalsOK, Generator
  <1> QED
    BY <1>2, AppendProperties DEF WorkerHandoff, TypeInv, TypeOK, QueuesOK

LEMMA CountInit == Init => InFlightExact
  BY ImageCountAssumption DEF Init, InFlightExact

LEMMA CountAppCall == TypeInv /\ LifeInv /\ InFlightExact /\ AppCall => InFlightExact'
  <1> SUFFICES ASSUME TypeInv /\ LifeInv /\ InFlightExact, AppCall PROVE InFlightExact'
    OBVIOUS
  <1> USE DEF TypeInv, TypeOK, InFlightExact, hookVars, lifeVars
  <1>1. CASE PresentThreaded
    BY <1>1 DEF PresentThreaded, Present, TakeSlot, StartThreads, ThreadsReady, MayStart,
                QueuesOK, At, Goto, PcOK, Thread
  <1>2. CASE PresentInline
    BY <1>2 DEF PresentInline, Present, TakeSlot, StartThreads, NoThreads, ThreadsReady,
                MayStart, QueuesOK, At, Goto, PcOK, Thread
  <1>3. CASE PresentUnfit
    BY <1>3 DEF PresentUnfit, Present, QueuesOK, At, Goto, PcOK, Thread
  <1>4. CASE PresentDisabled
    BY <1>4 DEF PresentDisabled, Present, QueuesOK, At, Goto, PcOK, Thread
  <1>5. CASE DeviceWaitIdle
    BY <1>5 DEF DeviceWaitIdle, QueuesOK, At, Goto, PcOK, Thread
  <1>6. CASE DestroySwapchain
    BY <1>6 DEF DestroySwapchain, QueuesOK, At, Goto, PcOK, Thread
  <1> QED
    BY <1>1, <1>2, <1>3, <1>4, <1>5, <1>6 DEF AppCall

LEMMA CountAppStep == TypeInv /\ LifeInv /\ InFlightExact /\ AppStep => InFlightExact'
  <1> SUFFICES ASSUME TypeInv /\ LifeInv /\ InFlightExact, AppStep PROVE InFlightExact'
    OBVIOUS
  <1> USE DEF TypeInv, TypeOK, InFlightExact, hookVars, lifeVars
  <1>1. CASE Wait("app")
    BY <1>1 DEF Wait, QueuesOK, PcOK, Thread
  <1>2. CASE PassThrough
    BY <1>2 DEF PassThrough, QueuesOK, At, Goto, PcOK, Thread
  <1>3. CASE HookReserve
    BY <1>3, ImageCountAssumption DEF HookReserve, LifeInv, SlotsTaken, MustWait, QueuesOK,
                                      At, Past, Goto, PcOK, Thread
  <1>4. CASE AdapterSubmit
    BY <1>4 DEF AdapterSubmit, QueuesOK, At, Goto, PcOK, Thread
  <1>5. CASE AdapterFail
    BY <1>5, ImageCountAssumption DEF AdapterFail, QueuesOK, At, Goto, PcOK, Thread
  <1>6. CASE Enqueue
    BY <1>6, HookItem, AppendProperties DEF Enqueue, QueuesOK, At, Past, Goto, PcOK, Thread
  <1>7. CASE Collect
    BY <1>7 DEF Collect, QueuesOK, At, Goto, PcOK, Thread
  <1>8. CASE WorkerDrained
    BY <1>8 DEF WorkerDrained, QueuesOK, At, Past, Goto, PcOK, Thread
  <1>9. CASE PresenterDrained
    BY <1>9 DEF PresenterDrained, QueuesOK, At, Past, Goto, PcOK, Thread
  <1>10. CASE DeviceIdle
    BY <1>10 DEF DeviceIdle, QueuesOK, At, Goto, PcOK, Thread
  <1>11. CASE StopWorker
    BY <1>11 DEF StopWorker, QueuesOK, At, Goto, PcOK, Thread
  <1>12. CASE JoinWorker
    BY <1>12 DEF JoinWorker, QueuesOK, At, Goto, PcOK, Thread
  <1>13. CASE StopPresenter
    BY <1>13 DEF StopPresenter, QueuesOK, At, Goto, PcOK, Thread
  <1>14. CASE JoinPresenter
    BY <1>14 DEF JoinPresenter, QueuesOK, At, Goto, PcOK, Thread
  <1>15. CASE Disable
    BY <1>15 DEF Disable, QueuesOK, At, Goto, PcOK, Thread
  <1>16. CASE Free
    BY <1>16 DEF Free, QueuesOK, At, Goto, PcOK, Thread
  <1>17. CASE GenFence("app")
    BY <1>17 DEF GenFence, QueuesOK, At, Goto, PcOK, Thread
  <1>18. CASE GenDecide("app")
    BY <1>18 DEF GenDecide, QueuesOK, At, Goto, PcOK, Thread
  <1>19. CASE GenSubmit("app")
    BY <1>19 DEF GenSubmit, QueuesOK, At, Goto, PcOK, Thread
  <1>20. CASE GenFailInline
    BY <1>20 DEF GenFailInline, QueuesOK, At, Goto, PcOK, Thread
  <1>21. CASE InlineCompanion
    BY <1>21 DEF InlineCompanion, QueuesOK, At, Goto, PcOK, Thread
  <1>22. CASE InlineReal
    BY <1>22 DEF InlineReal, QueuesOK, At, Goto, PcOK, Thread
  <1> QED
    BY <1>1, <1>2, <1>3, <1>4, <1>5, <1>6, <1>7, <1>8, <1>9, <1>10, <1>11, <1>12, <1>13,
       <1>14, <1>15, <1>16, <1>17, <1>18, <1>19, <1>20, <1>21, <1>22
       DEF AppStep

LEMMA CountWorker == TypeInv /\ LifeInv /\ InFlightExact /\ WorkerStep => InFlightExact'
  <1> SUFFICES ASSUME TypeInv /\ LifeInv /\ InFlightExact, WorkerStep PROVE InFlightExact'
    OBVIOUS
  <1> USE DEF TypeInv, TypeOK, InFlightExact, hookVars, lifeVars
  <1>1. CASE Wait("worker")
    BY <1>1 DEF Wait, QueuesOK, PcOK, Thread
  <1>2. CASE WorkerTake
    BY <1>2 DEF WorkerTake, QueuesOK, At, Past, Goto, PcOK, Thread
  <1>3. CASE WorkerExit
    BY <1>3 DEF WorkerExit, QueuesOK, At, Past, Goto, PcOK, Thread
  <1>4. CASE GenFence("worker")
    BY <1>4 DEF GenFence, QueuesOK, At, Goto, PcOK, Thread
  <1>5. CASE GenDecide("worker")
    BY <1>5 DEF GenDecide, QueuesOK, At, Goto, PcOK, Thread
  <1>6. CASE GenSubmit("worker")
    BY <1>6 DEF GenSubmit, QueuesOK, At, Goto, PcOK, Thread
  <1>7. CASE GenFailWorker
    BY <1>7 DEF GenFailWorker, QueuesOK, At, Goto, PcOK, Thread
  <1>8. CASE WorkerPassOn
    BY <1>8 DEF WorkerPassOn, QueuesOK, At, Goto, PcOK, Thread
  <1>9. CASE WorkerHandoff
    BY <1>9, HandoffJobs, ImageCountAssumption DEF WorkerHandoff, QueuesOK, At, Past, Goto,
                                                   PcOK, Thread
  <1>10. CASE WorkerPop
    <2>1. Len(work') = Len(work) - 1
      BY <1>10, WorkerItem DEF WorkerPop, At
    <2>2. pc["worker"] = "pop" /\ pc'["worker"] = "take" /\ pc'["app"] = pc["app"]
      BY <1>10 DEF WorkerPop, At, Goto, PcOK, Thread
    <2>3. inFlight' = inFlight /\ jobs' = jobs
      BY <1>10 DEF WorkerPop
    <2> QED
      BY <2>1, <2>2, <2>3, ImageCountAssumption DEF QueuesOK
  <1> QED
    BY <1>1, <1>2, <1>3, <1>4, <1>5, <1>6, <1>7, <1>8, <1>9, <1>10 DEF WorkerStep

LEMMA CountPresenter == TypeInv /\ LifeInv /\ InFlightExact /\ PresenterStep => InFlightExact'
  <1> SUFFICES ASSUME TypeInv /\ LifeInv /\ InFlightExact, PresenterStep PROVE InFlightExact'
    OBVIOUS
  <1> USE DEF TypeInv, TypeOK, InFlightExact, hookVars, lifeVars
  <1>1. CASE Wait("presenter")
    BY <1>1 DEF Wait, QueuesOK, PcOK, Thread
  <1>2. CASE PresenterNext
    BY <1>2 DEF PresenterNext, QueuesOK, At, Past, Goto, PcOK, Thread
  <1>3. CASE PresenterExit
    BY <1>3 DEF PresenterExit, QueuesOK, At, Past, Goto, PcOK, Thread
  <1>4. CASE PresenterCompanion
    BY <1>4 DEF PresenterCompanion, QueuesOK, At, Goto, PcOK, Thread
  <1>5. CASE PresenterPaced
    BY <1>5 DEF PresenterPaced, QueuesOK, At, Goto, PcOK, Thread
  <1>6. CASE PresenterHeld
    BY <1>6 DEF PresenterHeld, QueuesOK, At, Goto, PcOK, Thread
  <1>7. CASE PresenterReal
    BY <1>7 DEF PresenterReal, QueuesOK, At, Goto, PcOK, Thread
  <1>8. CASE PresenterFinish
    <2>1. Len(jobs') = Len(jobs) - 1
      BY <1>8, PresenterItem DEF PresenterFinish, At
    <2>2. pc'["worker"] = pc["worker"] /\ pc'["app"] = pc["app"]
      BY <1>8 DEF PresenterFinish, At, Goto, PcOK, Thread
    <2>3. inFlight' = inFlight - 1 /\ work' = work
      BY <1>8 DEF PresenterFinish
    <2> QED
      BY <2>1, <2>2, <2>3, ImageCountAssumption DEF QueuesOK
  <1> QED
    BY <1>1, <1>2, <1>3, <1>4, <1>5, <1>6, <1>7, <1>8 DEF PresenterStep

-----------------------------------------------------------------------------
(* Sleeping threads. *)

LEMMA SleepInit == Init => SleepInv
  BY DEF Init, SleepInv

LEMMA SleepAppCall == TypeInv /\ LifeInv /\ SleepInv /\ AppCall => SleepInv'
  <1> SUFFICES ASSUME TypeInv /\ LifeInv /\ SleepInv, AppCall PROVE SleepInv'
    OBVIOUS
  <1> USE DEF TypeInv, TypeOK, PcOK, Thread, SleepInv, hookVars, lifeVars
  <1>1. CASE PresentThreaded
    BY <1>1 DEF PresentThreaded, Present, TakeSlot, StartThreads, ThreadsReady, MayStart,
                LifeInv, At, Running, Goto, SlotsTaken, WorkFull, JobsFull, WorkerBehind,
                WorkerBusy, PresenterBehind
  <1>2. CASE PresentInline
    BY <1>2 DEF PresentInline, Present, TakeSlot, StartThreads, NoThreads, ThreadsReady,
                MayStart, LifeInv, At, Running, Goto, SlotsTaken, WorkFull, JobsFull,
                WorkerBehind, WorkerBusy, PresenterBehind
  <1>3. CASE PresentUnfit
    BY <1>3 DEF PresentUnfit, Present, LifeInv, At, Running, Goto, SlotsTaken, WorkFull,
                JobsFull, WorkerBehind, WorkerBusy, PresenterBehind
  <1>4. CASE PresentDisabled
    BY <1>4 DEF PresentDisabled, Present, LifeInv, At, Running, Goto, SlotsTaken, WorkFull,
                JobsFull, WorkerBehind, WorkerBusy, PresenterBehind
  <1>5. CASE DeviceWaitIdle
    BY <1>5 DEF DeviceWaitIdle, LifeInv, At, Running, Goto, SlotsTaken, WorkFull, JobsFull,
                WorkerBehind, WorkerBusy, PresenterBehind
  <1>6. CASE DestroySwapchain
    BY <1>6 DEF DestroySwapchain, LifeInv, At, Running, Goto, SlotsTaken, WorkFull,
                JobsFull, WorkerBehind, WorkerBusy, PresenterBehind
  <1> QED
    BY <1>1, <1>2, <1>3, <1>4, <1>5, <1>6 DEF AppCall

LEMMA SleepAppStep == TypeInv /\ LifeInv /\ SleepInv /\ AppStep => SleepInv'
  <1> SUFFICES ASSUME TypeInv /\ LifeInv /\ SleepInv, AppStep PROVE SleepInv'
    OBVIOUS
  <1> USE DEF TypeInv, TypeOK, PcOK, Thread, SleepInv, hookVars, lifeVars
  <1>1. CASE Wait("app")
    BY <1>1 DEF Wait, Running, MustWait, AppPC, WorkerPC, PresenterPC, SlotsTaken, WorkFull,
                JobsFull, WorkerBehind, WorkerBusy, PresenterBehind
  <1>2. CASE PassThrough
    BY <1>2 DEF PassThrough, LifeInv, At, Running, Goto, SlotsTaken, WorkFull, JobsFull,
                WorkerBehind, WorkerBusy, PresenterBehind
  <1>3. CASE HookReserve
    BY <1>3 DEF HookReserve, LifeInv, At, Past, Running, Goto, MustWait, SlotsTaken,
                WorkFull, JobsFull, WorkerBehind, WorkerBusy, PresenterBehind
  <1>4. CASE AdapterSubmit
    BY <1>4 DEF AdapterSubmit, LifeInv, At, Running, Goto, SlotsTaken, WorkFull, JobsFull,
                WorkerBehind, WorkerBusy, PresenterBehind
  <1>5. CASE AdapterFail
    BY <1>5 DEF AdapterFail, LifeInv, At, Running, Goto, Broadcast, CondOf, SlotsTaken,
                WorkFull, JobsFull, WorkerBehind, WorkerBusy, PresenterBehind
  <1>6. CASE Enqueue
    BY <1>6 DEF Enqueue, LifeInv, At, Past, Running, Goto, Broadcast, CondOf, MustWait,
                SlotsTaken, WorkFull, JobsFull, WorkerBehind, WorkerBusy, PresenterBehind
  <1>7. CASE Collect
    BY <1>7 DEF Collect, LifeInv, At, Running, Goto, SlotsTaken, WorkFull, JobsFull,
                WorkerBehind, WorkerBusy, PresenterBehind
  <1>8. CASE WorkerDrained
    BY <1>8 DEF WorkerDrained, LifeInv, At, Past, Running, Goto, MustWait, SlotsTaken,
                WorkFull, JobsFull, WorkerBehind, WorkerBusy, PresenterBehind
  <1>9. CASE PresenterDrained
    BY <1>9 DEF PresenterDrained, LifeInv, At, Past, Running, Goto, MustWait, SlotsTaken,
                WorkFull, JobsFull, WorkerBehind, WorkerBusy, PresenterBehind
  <1>10. CASE DeviceIdle
    BY <1>10 DEF DeviceIdle, LifeInv, At, Running, Goto, SlotsTaken, WorkFull, JobsFull,
                 WorkerBehind, WorkerBusy, PresenterBehind
  <1>11. CASE StopWorker
    BY <1>11 DEF StopWorker, LifeInv, At, Running, Goto, Broadcast, CondOf, SlotsTaken,
                 WorkFull, JobsFull, WorkerBehind, WorkerBusy, PresenterBehind
  <1>12. CASE JoinWorker
    BY <1>12 DEF JoinWorker, LifeInv, At, Running, Goto, SlotsTaken, WorkFull, JobsFull,
                 WorkerBehind, WorkerBusy, PresenterBehind
  <1>13. CASE StopPresenter
    BY <1>13 DEF StopPresenter, LifeInv, At, Running, Goto, Broadcast, CondOf, SlotsTaken,
                 WorkFull, JobsFull, WorkerBehind, WorkerBusy, PresenterBehind
  <1>14. CASE JoinPresenter
    BY <1>14 DEF JoinPresenter, LifeInv, At, Running, Goto, SlotsTaken, WorkFull, JobsFull,
                 WorkerBehind, WorkerBusy, PresenterBehind
  <1>15. CASE Disable
    BY <1>15 DEF Disable, LifeInv, At, Running, Goto, SlotsTaken, WorkFull, JobsFull,
                 WorkerBehind, WorkerBusy, PresenterBehind
  <1>16. CASE Free
    BY <1>16 DEF Free, LifeInv, At, Running, Goto, SlotsTaken, WorkFull, JobsFull,
                 WorkerBehind, WorkerBusy, PresenterBehind
  <1>17. CASE GenFence("app")
    BY <1>17 DEF GenFence, LifeInv, At, Running, Goto, SlotsTaken, WorkFull, JobsFull,
                 WorkerBehind, WorkerBusy, PresenterBehind
  <1>18. CASE GenDecide("app")
    BY <1>18 DEF GenDecide, LifeInv, At, Running, Goto, SlotsTaken, WorkFull, JobsFull,
                 WorkerBehind, WorkerBusy, PresenterBehind
  <1>19. CASE GenSubmit("app")
    BY <1>19 DEF GenSubmit, LifeInv, At, Running, Goto, SlotsTaken, WorkFull, JobsFull,
                 WorkerBehind, WorkerBusy, PresenterBehind
  <1>20. CASE GenFailInline
    BY <1>20 DEF GenFailInline, LifeInv, At, Running, Goto, SlotsTaken, WorkFull, JobsFull,
                 WorkerBehind, WorkerBusy, PresenterBehind
  <1>21. CASE InlineCompanion
    BY <1>21 DEF InlineCompanion, LifeInv, At, Running, Goto, SlotsTaken, WorkFull,
                 JobsFull, WorkerBehind, WorkerBusy, PresenterBehind
  <1>22. CASE InlineReal
    BY <1>22 DEF InlineReal, LifeInv, At, Running, Goto, SlotsTaken, WorkFull, JobsFull,
                 WorkerBehind, WorkerBusy, PresenterBehind
  <1> QED
    BY <1>1, <1>2, <1>3, <1>4, <1>5, <1>6, <1>7, <1>8, <1>9, <1>10, <1>11, <1>12, <1>13,
       <1>14, <1>15, <1>16, <1>17, <1>18, <1>19, <1>20, <1>21, <1>22
       DEF AppStep

LEMMA SleepWorker == TypeInv /\ LifeInv /\ SleepInv /\ WorkerStep => SleepInv'
  <1> SUFFICES ASSUME TypeInv /\ LifeInv /\ SleepInv, WorkerStep PROVE SleepInv'
    OBVIOUS
  <1> USE DEF TypeInv, TypeOK, PcOK, Thread, SleepInv, hookVars, lifeVars
  <1>1. CASE Wait("worker")
    BY <1>1 DEF Wait, Running, MustWait, AppPC, WorkerPC, PresenterPC, SlotsTaken, WorkFull,
                JobsFull, WorkerBehind, WorkerBusy, PresenterBehind
  <1>2. CASE WorkerTake
    BY <1>2 DEF WorkerTake, LifeInv, At, Past, Running, Goto, MustWait, SlotsTaken,
                WorkFull, JobsFull, WorkerBehind, WorkerBusy, PresenterBehind
  <1>3. CASE WorkerExit
    BY <1>3 DEF WorkerExit, LifeInv, At, Past, Running, Goto, MustWait, SlotsTaken,
                WorkFull, JobsFull, WorkerBehind, WorkerBusy, PresenterBehind
  <1>4. CASE GenFence("worker")
    BY <1>4 DEF GenFence, LifeInv, At, Running, Goto, SlotsTaken, WorkFull, JobsFull,
                WorkerBehind, WorkerBusy, PresenterBehind
  <1>5. CASE GenDecide("worker")
    BY <1>5 DEF GenDecide, LifeInv, At, Running, Goto, SlotsTaken, WorkFull, JobsFull,
                WorkerBehind, WorkerBusy, PresenterBehind
  <1>6. CASE GenSubmit("worker")
    BY <1>6 DEF GenSubmit, LifeInv, At, Running, Goto, SlotsTaken, WorkFull, JobsFull,
                WorkerBehind, WorkerBusy, PresenterBehind
  <1>7. CASE GenFailWorker
    BY <1>7 DEF GenFailWorker, LifeInv, At, Running, Goto, SlotsTaken, WorkFull, JobsFull,
                WorkerBehind, WorkerBusy, PresenterBehind
  <1>8. CASE WorkerPassOn
    BY <1>8 DEF WorkerPassOn, LifeInv, At, Running, Goto, SlotsTaken, WorkFull, JobsFull,
                WorkerBehind, WorkerBusy, PresenterBehind
  <1>9. CASE WorkerHandoff
    BY <1>9 DEF WorkerHandoff, LifeInv, At, Past, Running, Goto, Broadcast, CondOf,
                MustWait, SlotsTaken, WorkFull, JobsFull, WorkerBehind, WorkerBusy,
                PresenterBehind
  <1>10. CASE WorkerPop
    BY <1>10 DEF WorkerPop, LifeInv, At, Running, Goto, Broadcast, CondOf, SlotsTaken,
                 WorkFull, JobsFull, WorkerBehind, WorkerBusy, PresenterBehind
  <1> QED
    BY <1>1, <1>2, <1>3, <1>4, <1>5, <1>6, <1>7, <1>8, <1>9, <1>10 DEF WorkerStep

LEMMA SleepPresenter == TypeInv /\ LifeInv /\ SleepInv /\ PresenterStep => SleepInv'
  <1> SUFFICES ASSUME TypeInv /\ LifeInv /\ SleepInv, PresenterStep PROVE SleepInv'
    OBVIOUS
  <1> USE DEF TypeInv, TypeOK, PcOK, Thread, SleepInv, hookVars, lifeVars
  <1>1. CASE Wait("presenter")
    BY <1>1 DEF Wait, Running, MustWait, AppPC, WorkerPC, PresenterPC, SlotsTaken, WorkFull,
                JobsFull, WorkerBehind, WorkerBusy, PresenterBehind
  <1>2. CASE PresenterNext
    BY <1>2 DEF PresenterNext, LifeInv, At, Past, Running, Goto, MustWait, SlotsTaken,
                WorkFull, JobsFull, WorkerBehind, WorkerBusy, PresenterBehind
  <1>3. CASE PresenterExit
    BY <1>3 DEF PresenterExit, LifeInv, At, Past, Running, Goto, MustWait, SlotsTaken,
                WorkFull, JobsFull, WorkerBehind, WorkerBusy, PresenterBehind
  <1>4. CASE PresenterCompanion
    BY <1>4 DEF PresenterCompanion, LifeInv, At, Running, Goto, SlotsTaken, WorkFull,
                JobsFull, WorkerBehind, WorkerBusy, PresenterBehind
  <1>5. CASE PresenterPaced
    BY <1>5 DEF PresenterPaced, LifeInv, At, Running, Goto, SlotsTaken, WorkFull, JobsFull,
                WorkerBehind, WorkerBusy, PresenterBehind
  <1>6. CASE PresenterHeld
    BY <1>6 DEF PresenterHeld, LifeInv, At, Running, Goto, SlotsTaken, WorkFull, JobsFull,
                WorkerBehind, WorkerBusy, PresenterBehind
  <1>7. CASE PresenterReal
    BY <1>7 DEF PresenterReal, LifeInv, At, Running, Goto, SlotsTaken, WorkFull, JobsFull,
                WorkerBehind, WorkerBusy, PresenterBehind
  <1>8. CASE PresenterFinish
    BY <1>8 DEF PresenterFinish, LifeInv, At, Running, Goto, Broadcast, CondOf, SlotsTaken,
                WorkFull, JobsFull, WorkerBehind, WorkerBusy, PresenterBehind
  <1> QED
    BY <1>1, <1>2, <1>3, <1>4, <1>5, <1>6, <1>7, <1>8 DEF PresenterStep

-----------------------------------------------------------------------------
(* All of them together. *)

LEMMA SafeUnchanged ==
  ASSUME SafeInv,
         UNCHANGED <<pc, asleep, inFlight, work, jobs, lifeVars, genEnabled>>
  PROVE  LifeInv' /\ InFlightExact' /\ SleepInv'
  <1>1. LifeInv' /\ InFlightExact'
    BY DEF SafeInv, LifeInv, InFlightExact, lifeVars
  <1>2. SleepInv'
    BY DEF SafeInv, SleepInv, SlotsTaken, WorkFull, WorkerBehind, WorkerBusy,
           PresenterBehind, JobsFull, lifeVars
  <1> QED
    BY <1>1, <1>2

LEMMA SafeInit == Init => SafeInv
  BY TypeInit, LifeInit, CountInit, SleepInit DEF SafeInv

LEMMA SafeStep == SafeInv /\ [Next]_vars => SafeInv'
  <1> SUFFICES ASSUME SafeInv, [Next]_vars PROVE SafeInv'
    OBVIOUS
  <1>1. TypeInv'
    BY TypeAppCall, TypeAppStep, TypeWorker, TypePresenter, TypeGpu, TypeStutter
       DEF Next, Terminated, SafeInv
  <1>2. LifeInv' /\ InFlightExact' /\ SleepInv'
    <2>1. CASE AppCall
      BY <2>1, LifeAppCall, CountAppCall, SleepAppCall DEF SafeInv
    <2>2. CASE AppStep
      BY <2>2, LifeAppStep, CountAppStep, SleepAppStep DEF SafeInv
    <2>3. CASE WorkerStep
      BY <2>3, LifeWorker, CountWorker, SleepWorker DEF SafeInv
    <2>4. CASE PresenterStep
      BY <2>4, LifePresenter, CountPresenter, SleepPresenter DEF SafeInv
    <2>5. CASE GpuComplete
      BY <2>5, SafeUnchanged DEF GpuComplete, hookVars
    <2>6. CASE UNCHANGED vars
      BY <2>6, SafeUnchanged DEF vars, hookVars
    <2> QED
      BY <2>1, <2>2, <2>3, <2>4, <2>5, <2>6 DEF Next, Terminated
  <1> QED
    BY <1>1, <1>2 DEF SafeInv

\* The counts, the threads' lives and the sleepers' reasons hold for ever.
THEOREM SafeInvariant == Spec => []SafeInv
  BY SafeInit, SafeStep, PTL DEF Spec

\* in_flight is at all times the frames queued on either thread plus the one
\* the hook has reserved, and never more than the images: whatever fails, no
\* frame is counted twice or forgotten.
THEOREM InFlightCounts == Spec => []InFlightExact
  BY SafeInvariant, PTL DEF SafeInv

\* No thread of the layer sleeps on a condition variable whose condition has
\* come true, although four conditions share two of the variables.
THEOREM NoWakeupLost == Spec => []NoLostWakeup
  <1>1. SafeInv => NoLostWakeup
    BY DEF SafeInv, SleepInv, NoLostWakeup, MustWait, TypeInv, TypeOK, PcOK, Thread
  <1> QED
    BY <1>1, SafeInvariant, PTL

-----------------------------------------------------------------------------
(* What the application is told. *)

\* Three steps settle what the application is owed.
LEMMA AppOwes ==
  ASSUME TypeInv, AppCall \/ AppStep
  PROVE  /\ Collect \/ (~Leaves("app", "collect") /\ deferred' = deferred)
         /\ ~Leaves("worker", "passOn") /\ ~Leaves("presenter", "finish")
  <1>1. CASE AppCall
    BY <1>1 DEF TypeInv, TypeOK, PcOK, Thread, AppCall, PresentThreaded, PresentInline, PresentUnfit,
                PresentDisabled, Present, DeviceWaitIdle, DestroySwapchain, Goto, At, Leaves
  <1>2. CASE AppStep
    <2>1. CASE \/ Wait("app") \/ PassThrough \/ HookReserve \/ AdapterSubmit \/ AdapterFail
               \/ Enqueue \/ Collect \/ WorkerDrained \/ PresenterDrained \/ DeviceIdle
      BY <2>1 DEF TypeInv, TypeOK, PcOK, Thread, Wait, PassThrough, HookReserve, AdapterSubmit,
                  AdapterFail, Enqueue, Collect, WorkerDrained, PresenterDrained, DeviceIdle,
                  Goto, At, Past, Leaves
    <2>2. CASE \/ StopWorker \/ JoinWorker \/ StopPresenter \/ JoinPresenter \/ Disable \/ Free
      BY <2>2 DEF TypeInv, TypeOK, PcOK, Thread, StopWorker, JoinWorker, StopPresenter,
                  JoinPresenter, Disable, Free, Goto, At, Leaves
    <2>3. CASE \/ GenFence("app") \/ GenDecide("app") \/ GenSubmit("app") \/ GenFailInline
               \/ InlineCompanion \/ InlineReal
      BY <2>3 DEF TypeInv, TypeOK, PcOK, Thread, GenFence, GenDecide, GenSubmit, GenFailInline,
                  InlineCompanion, InlineReal, Goto, At, Leaves, localVars
    <2> QED
      BY <1>2, <2>1, <2>2, <2>3 DEF AppStep
  <1> QED
    BY <1>1, <1>2

LEMMA ThreadsOwe ==
  ASSUME TypeInv, WorkerStep \/ PresenterStep \/ GpuComplete \/ UNCHANGED vars
  PROVE  /\ ~Leaves("app", "collect")
         /\ WorkerPassOn \/ (~Leaves("worker", "passOn") /\ (PresenterFinish \/ deferred' = deferred))
         /\ PresenterFinish \/ (~Leaves("presenter", "finish") /\ (WorkerPassOn \/ deferred' = deferred))
  <1>1. CASE WorkerStep
    BY <1>1 DEF TypeInv, TypeOK, PcOK, Thread, WorkerStep, Wait, WorkerTake, WorkerExit, GenFence,
                GenDecide, GenSubmit, GenFailWorker, WorkerPassOn, WorkerHandoff, WorkerPop,
                Goto, At, Past, Leaves, localVars
  <1>2. CASE PresenterStep
    BY <1>2 DEF TypeInv, TypeOK, PcOK, Thread, PresenterStep, Wait, PresenterNext, PresenterExit,
                PresenterCompanion, PresenterPaced, PresenterHeld, PresenterReal, PresenterFinish,
                Goto, At, Past, Leaves, localVars
  <1>3. CASE GpuComplete
    BY <1>3 DEF GpuComplete, Leaves
  <1>4. CASE UNCHANGED vars
    BY <1>4 DEF vars, Leaves
  <1> QED
    BY <1>1, <1>2, <1>3, <1>4

\* The worse of the two results is one of them, and no other is worse.
LEMMA WorstOfBoth ==
  ASSUME first \in Result, second \in Result
  PROVE  /\ Worst \in {first, second}
         /\ Severity(first) <= Severity(Worst) /\ Severity(second) <= Severity(Worst)
         /\ Worst = "ok" => first = "ok" /\ second = "ok"
  BY DEF Worst, Result, Severity

LEMMA Severities ==
  \A r \in Result : /\ Severity(r) \in {0, 1, 2} /\ Severity(r) <= Severity("error")
                    /\ Severity("ok") = 0
  BY DEF Result, Severity

OweInv == TypeInv /\ untold \subseteq Result /\ DeferredIsWorst

LEMMA OweStep == OweInv /\ [ResultsNext]_<<vars, resultVars>> => OweInv'
  <1> SUFFICES ASSUME OweInv, [ResultsNext]_<<vars, resultVars>> PROVE OweInv'
    OBVIOUS
  <1> USE DEF OweInv
  <1>1. CASE UNCHANGED <<vars, resultVars>>
    BY <1>1, TypeStutter DEF resultVars, vars, DeferredIsWorst
  <1>2. CASE ResultsNext
    <2>1. TypeInv'
      BY <1>2, TypeAppCall, TypeAppStep, TypeWorker, TypePresenter, TypeGpu, TypeStutter
         DEF Next, Terminated, ResultsNext
    <2>2. first \in Result /\ second \in Result /\ deferred \in Result /\ deferred' \in Result
      BY <2>1 DEF TypeInv, TypeOK, LocalsOK
    <2>3. CASE Leaves("app", "collect")
      <3>1. deferred' = "ok" /\ untold' = {}
        BY <1>2, <2>3, AppOwes, ThreadsOwe DEF Next, Terminated, ResultsNext, Owe, Collect
      <3> QED
        BY <2>1, <3>1 DEF DeferredIsWorst
    <2>4. CASE ~Leaves("app", "collect") /\ Leaves("presenter", "finish")
      <3>1. PresenterFinish /\ untold' = untold \union {first, second}
        BY <1>2, <2>4, AppOwes, ThreadsOwe DEF Next, Terminated, ResultsNext, Owe
      <3>2. deferred' = IF deferred # "error" /\ (Worst = "error" \/ deferred = "ok")
                        THEN Worst ELSE deferred
        BY <3>1 DEF PresenterFinish
      <3>3. untold' \subseteq Result
        BY <2>2, <3>1
      <3>4. ASSUME NEW r \in untold' PROVE Severity(r) <= Severity(deferred')
        <4>1. Severity(deferred) <= Severity(deferred') /\ Severity(Worst) <= Severity(deferred')
          BY <2>2, <3>2, WorstOfBoth DEF Severity, Result
        <4>2. r \in untold \/ r \in {first, second}
          BY <3>1, <3>4
        <4>3. r \in Result /\ Worst \in Result
          BY <2>2, <3>3, <3>4, WorstOfBoth
        <4>4. Severity(r) <= Severity(deferred) \/ Severity(r) <= Severity(Worst)
          BY <2>2, <4>2, WorstOfBoth DEF DeferredIsWorst
        <4> QED
          BY <2>2, <4>1, <4>3, <4>4, Severities
      <3>5. deferred' # "ok" => deferred' \in untold'
        BY <2>2, <3>1, <3>2, WorstOfBoth DEF DeferredIsWorst
      <3> QED
        BY <2>1, <3>3, <3>4, <3>5 DEF DeferredIsWorst
    <2>5. CASE ~Leaves("app", "collect") /\ ~Leaves("presenter", "finish") /\ Leaves("worker", "passOn")
      <3>1. deferred' = "error" /\ untold' = untold \union {"error"}
        BY <1>2, <2>5, AppOwes, ThreadsOwe DEF Next, Terminated, ResultsNext, Owe, WorkerPassOn
      <3>2. untold' \subseteq Result
        BY <3>1 DEF Result
      <3> QED
        BY <2>1, <3>1, <3>2, Severities DEF DeferredIsWorst
    <2>6. CASE ~Leaves("app", "collect") /\ ~Leaves("presenter", "finish") /\ ~Leaves("worker", "passOn")
      <3>1. deferred' = deferred /\ untold' = untold
        BY <1>2, <2>6, AppOwes, ThreadsOwe DEF Next, Terminated, ResultsNext, Owe, Collect,
           WorkerPassOn, PresenterFinish, TypeInv, TypeOK, PcOK, Thread, Goto, At, Leaves
      <3> QED
        BY <2>1, <3>1 DEF DeferredIsWorst
    <2> QED
      BY <2>3, <2>4, <2>5, <2>6
  <1> QED
    BY <1>1, <1>2

\* deferred_result is the worst outcome since the application was last told, and
\* one that really happened, whichever thread reported it and in whatever order.
THEOREM DeferredWorst == ResultsSpec => []DeferredIsWorst
  <1>1. ResultsInit => OweInv
    BY TypeInit DEF ResultsInit, Init, OweInv, DeferredIsWorst
  <1>2. OweInv => DeferredIsWorst
    BY DEF OweInv
  <1> QED
    BY <1>1, OweStep, <1>2, PTL DEF ResultsSpec
=============================================================================
