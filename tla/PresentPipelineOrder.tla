----------------------- MODULE PresentPipelineOrder -----------------------
(***************************************************************************)
(* PresentPipeline implements FrameStream: frames reach the screen in      *)
(* order, once each, with at most one companion between two of them.  On   *)
(* the way: inline generation runs alone, and a freed swapchain is quiet.  *)
(***************************************************************************)
EXTENDS PresentPipelineSafety

\* Which queues are empty where: a thread that does not run has an empty queue
\* in front of it, a drain that has passed stays true, for only the hook adds work.
Quiet ==
    /\ ~workerOn => work = <<>>
    /\ ~presenterOn => jobs = <<>>
    /\ pc["worker"] = "exited" => workerStop /\ work = <<>>
    /\ pc["presenter"] = "exited" => presenterStop /\ jobs = <<>>
    /\ pc["app"] = "drainJobs" => work = <<>>
    /\ pc["app"] \in {"fence", "decide", "submit", "inlineCompanion", "inlineReal", "deviceIdle"} =>
          work = <<>> /\ jobs = <<>>

\* A companion on screen belongs to the frame being presented.
CompInv ==
    /\ comp => \/ pc["presenter"] \in {"pace", "hold", "real"}
               \/ pc["app"] = "inlineReal"
    /\ pc["presenter"] = "companion" => Head(jobs).generate

\* The present call still holds its frame: not queued, not on screen.
HookHolds ==
    \/ pc["app"] \in {"reserve", "adapter", "enqueue", "fence", "decide", "submit",
                      "inlineCompanion", "inlineReal", "pass"}
    \/ pc["app"] \in {"drainWork", "drainJobs"} /\ after = "inline"
    \/ pc["app"] \in {"stopWorker", "joinWorker", "stopPresenter", "joinPresenter", "stopped"}
          /\ after = "pass"

\* The same and other places of a frame as numbers, for the counting below.
Held == IF HookHolds THEN 1 ELSE 0
Shown == IF pc["presenter"] = "finish" THEN 1 ELSE 0
Popped == IF pc["worker"] = "pop" THEN 1 ELSE 0
Handing == IF pc["worker"] = "handoff" THEN 1 ELSE 0
Inlined == IF pc["app"] \in {"inlineCompanion", "inlineReal"} THEN 1 ELSE 0

\* Every frame given is in one place and the places follow each other: those on
\* screen, then jobs, then work, then the hook's.
OrderInv ==
    /\ \A i \in 1 .. Len(jobs) : jobs[i].frame = real - Shown + i
    /\ \A i \in 1 .. Len(work) : work[i].frame = real - Shown + Len(jobs) - Popped + i
    /\ given = real - Shown + Len(jobs) + Len(work) - Popped + Held
    /\ HookHolds => hook.frame = given

\* History is recorded with a frame, so the frame after it is not the first.
HistInv == haveHistory => real - Shown + Len(jobs) + Handing + Inlined >= 1

\* A companion is only ever made for the second frame or a later one.
GenInv ==
    /\ \A i \in 1 .. Len(jobs) : jobs[i].generate => jobs[i].frame >= 2
    /\ pc["worker"] \in {"submit", "handoff"} /\ gen["worker"] => work[1].frame >= 2
    /\ pc["app"] = "submit" /\ gen["app"] => hook.frame >= 2
    /\ pc["app"] = "inlineCompanion" => hook.frame >= 2

\* With a queue of its own the layer has nothing on the GPU once it is freed.
GoneInv == pc["app"] = "gone" /\ Async => gpu = <<>>

OrderParts == Quiet /\ CompInv /\ OrderInv /\ HistInv /\ GenInv /\ GoneInv
IInv == SafeInv /\ OrderParts

-----------------------------------------------------------------------------
(* Queues and companions. *)

\* A handoff does not touch the frame being presented.
LEMMA HandoffHead ==
  ASSUME TypeInv, WorkerHandoff, jobs # <<>>
  PROVE  Head(jobs') = Head(jobs)
  <1>1. Head(work).frame \in Frame /\ Head(work).slot \in Slot
    BY WorkerItem DEF WorkerHandoff, Past, At
  <1>2. [frame |-> Head(work).frame, slot |-> Head(work).slot,
         generate |-> gen["worker"], unwaited |-> unwaited] \in Job
    BY <1>1 DEF Job, TypeInv, TypeOK, LocalsOK, Generator
  <1> QED
    BY <1>2, AppendProperties DEF WorkerHandoff, TypeInv, TypeOK, QueuesOK

LEMMA QuietAppCall == TypeInv /\ LifeInv /\ Quiet /\ AppCall => Quiet'
  <1> SUFFICES ASSUME TypeInv /\ LifeInv /\ Quiet, AppCall PROVE Quiet'
    OBVIOUS
  <1> USE DEF TypeInv, TypeOK, PcOK, Thread, Quiet, hookVars, lifeVars
  <1>1. CASE PresentThreaded
    BY <1>1 DEF PresentThreaded, Present, TakeSlot, StartThreads, ThreadsReady, MayStart,
                LifeInv, At, Running, Goto, FrameAtHand, AppPC, WorkerPC, PresenterPC
  <1>2. CASE PresentInline
    BY <1>2 DEF PresentInline, Present, TakeSlot, StartThreads, NoThreads, ThreadsReady,
                MayStart, LifeInv, At, Running, Goto, FrameAtHand, AppPC, WorkerPC,
                PresenterPC
  <1>3. CASE PresentUnfit
    BY <1>3 DEF PresentUnfit, Present, LifeInv, At, Running, Goto, FrameAtHand, AppPC,
                WorkerPC, PresenterPC
  <1>4. CASE PresentDisabled
    BY <1>4 DEF PresentDisabled, Present, LifeInv, At, Running, Goto, FrameAtHand, AppPC,
                WorkerPC, PresenterPC
  <1>5. CASE DeviceWaitIdle
    BY <1>5 DEF DeviceWaitIdle, LifeInv, At, Running, Goto, FrameAtHand, AppPC, WorkerPC,
                PresenterPC
  <1>6. CASE DestroySwapchain
    BY <1>6 DEF DestroySwapchain, LifeInv, At, Running, Goto, FrameAtHand, AppPC, WorkerPC,
                PresenterPC
  <1> QED
    BY <1>1, <1>2, <1>3, <1>4, <1>5, <1>6 DEF AppCall

LEMMA QuietAppStep == TypeInv /\ LifeInv /\ Quiet /\ AppStep => Quiet'
  <1> SUFFICES ASSUME TypeInv /\ LifeInv /\ Quiet, AppStep PROVE Quiet'
    OBVIOUS
  <1> USE DEF TypeInv, TypeOK, PcOK, Thread, Quiet, hookVars, lifeVars
  <1>1. CASE Wait("app")
    BY <1>1 DEF Wait, LifeInv, Running, MustWait, WorkerBehind, WorkerBusy, PresenterBehind,
                FrameAtHand, AppPC, WorkerPC, PresenterPC
  <1>2. CASE PassThrough
    BY <1>2 DEF PassThrough, LifeInv, At, Running, Goto, FrameAtHand, AppPC, WorkerPC,
                PresenterPC
  <1>3. CASE HookReserve
    BY <1>3 DEF HookReserve, LifeInv, At, Past, Running, Goto, MustWait, WorkerBehind,
                WorkerBusy, PresenterBehind, FrameAtHand, AppPC, WorkerPC, PresenterPC
  <1>4. CASE AdapterSubmit
    BY <1>4 DEF AdapterSubmit, LifeInv, At, Running, Goto, FrameAtHand, AppPC, WorkerPC,
                PresenterPC
  <1>5. CASE AdapterFail
    BY <1>5 DEF AdapterFail, LifeInv, At, Running, Goto, FrameAtHand, AppPC, WorkerPC,
                PresenterPC
  <1>6. CASE Enqueue
    BY <1>6 DEF Enqueue, LifeInv, At, Past, Running, Goto, FrameAtHand
  <1>7. CASE Collect
    BY <1>7 DEF Collect, LifeInv, At, Running, Goto, FrameAtHand, AppPC, WorkerPC,
                PresenterPC
  <1>8. CASE WorkerDrained
    BY <1>8 DEF WorkerDrained, LifeInv, At, Past, Running, Goto, MustWait, WorkerBehind,
                WorkerBusy, PresenterBehind, FrameAtHand, AppPC, WorkerPC, PresenterPC
  <1>9. CASE PresenterDrained
    BY <1>9 DEF PresenterDrained, LifeInv, At, Past, Running, Goto, MustWait, WorkerBehind,
                WorkerBusy, PresenterBehind, FrameAtHand, AppPC, WorkerPC, PresenterPC
  <1>10. CASE DeviceIdle
    BY <1>10 DEF DeviceIdle, LifeInv, At, Running, Goto, FrameAtHand, AppPC, WorkerPC,
                 PresenterPC
  <1>11. CASE StopWorker
    BY <1>11 DEF StopWorker, LifeInv, At, Running, Goto, FrameAtHand, AppPC, WorkerPC,
                 PresenterPC
  <1>12. CASE JoinWorker
    BY <1>12 DEF JoinWorker, LifeInv, At, Running, Goto, FrameAtHand, AppPC, WorkerPC,
                 PresenterPC
  <1>13. CASE StopPresenter
    BY <1>13 DEF StopPresenter, LifeInv, At, Running, Goto, FrameAtHand, AppPC, WorkerPC,
                 PresenterPC
  <1>14. CASE JoinPresenter
    BY <1>14 DEF JoinPresenter, LifeInv, At, Running, Goto, FrameAtHand, AppPC, WorkerPC,
                 PresenterPC
  <1>15. CASE Disable
    BY <1>15 DEF Disable, LifeInv, At, Running, Goto, FrameAtHand, AppPC, WorkerPC,
                 PresenterPC
  <1>16. CASE Free
    BY <1>16 DEF Free, LifeInv, At, Running, Goto, FrameAtHand, AppPC, WorkerPC, PresenterPC
  <1>17. CASE GenFence("app")
    BY <1>17 DEF GenFence, LifeInv, At, Running, Goto, FrameAtHand, AppPC, WorkerPC,
                 PresenterPC
  <1>18. CASE GenDecide("app")
    BY <1>18 DEF GenDecide, LifeInv, At, Running, Goto, FrameAtHand, AppPC, WorkerPC,
                 PresenterPC
  <1>19. CASE GenSubmit("app")
    BY <1>19 DEF GenSubmit, LifeInv, At, Running, Goto, FrameAtHand, AppPC, WorkerPC,
                 PresenterPC
  <1>20. CASE GenFailInline
    BY <1>20 DEF GenFailInline, LifeInv, At, Running, Goto, FrameAtHand, AppPC, WorkerPC,
                 PresenterPC
  <1>21. CASE InlineCompanion
    BY <1>21 DEF InlineCompanion, LifeInv, At, Running, Goto, FrameAtHand, AppPC, WorkerPC,
                 PresenterPC
  <1>22. CASE InlineReal
    BY <1>22 DEF InlineReal, LifeInv, At, Running, Goto, FrameAtHand, AppPC, WorkerPC,
                 PresenterPC
  <1> QED
    BY <1>1, <1>2, <1>3, <1>4, <1>5, <1>6, <1>7, <1>8, <1>9, <1>10, <1>11, <1>12, <1>13,
       <1>14, <1>15, <1>16, <1>17, <1>18, <1>19, <1>20, <1>21, <1>22
       DEF AppStep

LEMMA QuietWorker == TypeInv /\ LifeInv /\ Quiet /\ WorkerStep => Quiet'
  <1> SUFFICES ASSUME TypeInv /\ LifeInv /\ Quiet, WorkerStep PROVE Quiet'
    OBVIOUS
  <1> USE DEF TypeInv, TypeOK, PcOK, Thread, Quiet, hookVars, lifeVars
  <1>1. CASE Wait("worker")
    BY <1>1 DEF Wait, LifeInv, Running, MustWait, WorkerBehind, WorkerBusy, PresenterBehind,
                FrameAtHand, AppPC, WorkerPC, PresenterPC
  <1>2. CASE WorkerTake
    BY <1>2 DEF WorkerTake, LifeInv, At, Past, Running, Goto, MustWait, WorkerBehind,
                WorkerBusy, PresenterBehind, FrameAtHand, AppPC, WorkerPC, PresenterPC
  <1>3. CASE WorkerExit
    BY <1>3 DEF WorkerExit, LifeInv, At, Past, Running, Goto, MustWait, WorkerBehind,
                WorkerBusy, PresenterBehind, FrameAtHand, AppPC, WorkerPC, PresenterPC
  <1>4. CASE GenFence("worker")
    BY <1>4 DEF GenFence, LifeInv, At, Running, Goto, FrameAtHand, AppPC, WorkerPC,
                PresenterPC
  <1>5. CASE GenDecide("worker")
    BY <1>5 DEF GenDecide, LifeInv, At, Running, Goto, FrameAtHand, AppPC, WorkerPC,
                PresenterPC
  <1>6. CASE GenSubmit("worker")
    BY <1>6 DEF GenSubmit, LifeInv, At, Running, Goto, FrameAtHand, AppPC, WorkerPC,
                PresenterPC
  <1>7. CASE GenFailWorker
    BY <1>7 DEF GenFailWorker, LifeInv, At, Running, Goto, FrameAtHand, AppPC, WorkerPC,
                PresenterPC
  <1>8. CASE WorkerPassOn
    BY <1>8 DEF WorkerPassOn, LifeInv, At, Running, Goto, FrameAtHand, AppPC, WorkerPC,
                PresenterPC
  <1>9. CASE WorkerHandoff
    BY <1>9, HandoffJobs DEF WorkerHandoff, LifeInv, At, Past, Running, Goto, FrameAtHand
  <1>10. CASE WorkerPop
    BY <1>10, EmptySeq DEF WorkerPop, LifeInv, At, Running, Goto, FrameAtHand, QueuesOK
  <1> QED
    BY <1>1, <1>2, <1>3, <1>4, <1>5, <1>6, <1>7, <1>8, <1>9, <1>10 DEF WorkerStep

LEMMA QuietPresenter == TypeInv /\ LifeInv /\ Quiet /\ PresenterStep => Quiet'
  <1> SUFFICES ASSUME TypeInv /\ LifeInv /\ Quiet, PresenterStep PROVE Quiet'
    OBVIOUS
  <1> USE DEF TypeInv, TypeOK, PcOK, Thread, Quiet, hookVars, lifeVars
  <1>1. CASE Wait("presenter")
    BY <1>1 DEF Wait, LifeInv, Running, MustWait, WorkerBehind, WorkerBusy, PresenterBehind,
                FrameAtHand, AppPC, WorkerPC, PresenterPC
  <1>2. CASE PresenterNext
    BY <1>2 DEF PresenterNext, LifeInv, At, Past, Running, Goto, MustWait, WorkerBehind,
                WorkerBusy, PresenterBehind, FrameAtHand, AppPC, WorkerPC, PresenterPC
  <1>3. CASE PresenterExit
    BY <1>3 DEF PresenterExit, LifeInv, At, Past, Running, Goto, MustWait, WorkerBehind,
                WorkerBusy, PresenterBehind, FrameAtHand, AppPC, WorkerPC, PresenterPC
  <1>4. CASE PresenterCompanion
    BY <1>4 DEF PresenterCompanion, LifeInv, At, Running, Goto, FrameAtHand, AppPC,
                WorkerPC, PresenterPC
  <1>5. CASE PresenterPaced
    BY <1>5 DEF PresenterPaced, LifeInv, At, Running, Goto, FrameAtHand, AppPC, WorkerPC,
                PresenterPC
  <1>6. CASE PresenterHeld
    BY <1>6 DEF PresenterHeld, LifeInv, At, Running, Goto, FrameAtHand, AppPC, WorkerPC,
                PresenterPC
  <1>7. CASE PresenterReal
    BY <1>7 DEF PresenterReal, LifeInv, At, Running, Goto, FrameAtHand, AppPC, WorkerPC,
                PresenterPC
  <1>8. CASE PresenterFinish
    BY <1>8 DEF PresenterFinish, LifeInv, At, Running, Goto, FrameAtHand, AppPC, WorkerPC,
                PresenterPC
  <1> QED
    BY <1>1, <1>2, <1>3, <1>4, <1>5, <1>6, <1>7, <1>8 DEF PresenterStep

LEMMA CompAppCall == TypeInv /\ Quiet /\ CompInv /\ AppCall => CompInv'
  <1> SUFFICES ASSUME TypeInv /\ Quiet /\ CompInv, AppCall PROVE CompInv'
    OBVIOUS
  <1> USE DEF TypeInv, TypeOK, PcOK, Thread, CompInv, hookVars, lifeVars, screenVars
  <1>1. CASE PresentThreaded
    BY <1>1 DEF PresentThreaded, Present, TakeSlot, StartThreads, ThreadsReady, MayStart,
                Quiet, At, Goto, FrameAtHand
  <1>2. CASE PresentInline
    BY <1>2 DEF PresentInline, Present, TakeSlot, StartThreads, NoThreads, ThreadsReady,
                MayStart, Quiet, At, Goto, FrameAtHand
  <1>3. CASE PresentUnfit
    BY <1>3 DEF PresentUnfit, Present, Quiet, At, Goto, FrameAtHand
  <1>4. CASE PresentDisabled
    BY <1>4 DEF PresentDisabled, Present, Quiet, At, Goto, FrameAtHand
  <1>5. CASE DeviceWaitIdle
    BY <1>5 DEF DeviceWaitIdle, Quiet, At, Goto, FrameAtHand
  <1>6. CASE DestroySwapchain
    BY <1>6 DEF DestroySwapchain, Quiet, At, Goto, FrameAtHand
  <1> QED
    BY <1>1, <1>2, <1>3, <1>4, <1>5, <1>6 DEF AppCall

LEMMA CompAppStep == TypeInv /\ Quiet /\ CompInv /\ AppStep => CompInv'
  <1> SUFFICES ASSUME TypeInv /\ Quiet /\ CompInv, AppStep PROVE CompInv'
    OBVIOUS
  <1> USE DEF TypeInv, TypeOK, PcOK, Thread, CompInv, hookVars, lifeVars, screenVars
  <1>1. CASE Wait("app")
    BY <1>1 DEF Wait, Quiet, FrameAtHand
  <1>2. CASE PassThrough
    BY <1>2 DEF PassThrough, Quiet, At, Goto, FrameAtHand
  <1>3. CASE HookReserve
    BY <1>3 DEF HookReserve, Quiet, At, Past, Goto, FrameAtHand
  <1>4. CASE AdapterSubmit
    BY <1>4 DEF AdapterSubmit, Quiet, At, Goto, FrameAtHand
  <1>5. CASE AdapterFail
    BY <1>5 DEF AdapterFail, Quiet, At, Goto, FrameAtHand
  <1>6. CASE Enqueue
    BY <1>6 DEF Enqueue, Quiet, At, Past, Goto, FrameAtHand
  <1>7. CASE Collect
    BY <1>7 DEF Collect, Quiet, At, Goto, FrameAtHand
  <1>8. CASE WorkerDrained
    BY <1>8 DEF WorkerDrained, Quiet, At, Past, Goto, FrameAtHand
  <1>9. CASE PresenterDrained
    BY <1>9 DEF PresenterDrained, Quiet, At, Past, Goto, FrameAtHand
  <1>10. CASE DeviceIdle
    BY <1>10 DEF DeviceIdle, Quiet, At, Goto, FrameAtHand
  <1>11. CASE StopWorker
    BY <1>11 DEF StopWorker, Quiet, At, Goto, FrameAtHand
  <1>12. CASE JoinWorker
    BY <1>12 DEF JoinWorker, Quiet, At, Goto, FrameAtHand
  <1>13. CASE StopPresenter
    BY <1>13 DEF StopPresenter, Quiet, At, Goto, FrameAtHand
  <1>14. CASE JoinPresenter
    BY <1>14 DEF JoinPresenter, Quiet, At, Goto, FrameAtHand
  <1>15. CASE Disable
    BY <1>15 DEF Disable, Quiet, At, Goto, FrameAtHand
  <1>16. CASE Free
    BY <1>16 DEF Free, Quiet, At, Goto, FrameAtHand
  <1>17. CASE GenFence("app")
    BY <1>17 DEF GenFence, Quiet, At, Goto, FrameAtHand
  <1>18. CASE GenDecide("app")
    BY <1>18 DEF GenDecide, Quiet, At, Goto, FrameAtHand
  <1>19. CASE GenSubmit("app")
    BY <1>19 DEF GenSubmit, Quiet, At, Goto, FrameAtHand
  <1>20. CASE GenFailInline
    BY <1>20 DEF GenFailInline, Quiet, At, Goto, FrameAtHand
  <1>21. CASE InlineCompanion
    BY <1>21 DEF InlineCompanion, Quiet, At, Goto, FrameAtHand
  <1>22. CASE InlineReal
    BY <1>22 DEF InlineReal, Quiet, At, Goto, FrameAtHand
  <1> QED
    BY <1>1, <1>2, <1>3, <1>4, <1>5, <1>6, <1>7, <1>8, <1>9, <1>10, <1>11, <1>12, <1>13,
       <1>14, <1>15, <1>16, <1>17, <1>18, <1>19, <1>20, <1>21, <1>22
       DEF AppStep

LEMMA CompWorker == TypeInv /\ Quiet /\ CompInv /\ WorkerStep => CompInv'
  <1> SUFFICES ASSUME TypeInv /\ Quiet /\ CompInv, WorkerStep PROVE CompInv'
    OBVIOUS
  <1> USE DEF TypeInv, TypeOK, PcOK, Thread, CompInv, hookVars, lifeVars, screenVars
  <1>1. CASE Wait("worker")
    BY <1>1 DEF Wait, Quiet, FrameAtHand
  <1>2. CASE WorkerTake
    BY <1>2 DEF WorkerTake, Quiet, At, Past, Goto, FrameAtHand
  <1>3. CASE WorkerExit
    BY <1>3 DEF WorkerExit, Quiet, At, Past, Goto, FrameAtHand
  <1>4. CASE GenFence("worker")
    BY <1>4 DEF GenFence, Quiet, At, Goto, FrameAtHand
  <1>5. CASE GenDecide("worker")
    BY <1>5 DEF GenDecide, Quiet, At, Goto, FrameAtHand
  <1>6. CASE GenSubmit("worker")
    BY <1>6 DEF GenSubmit, Quiet, At, Goto, FrameAtHand
  <1>7. CASE GenFailWorker
    BY <1>7 DEF GenFailWorker, Quiet, At, Goto, FrameAtHand
  <1>8. CASE WorkerPassOn
    BY <1>8 DEF WorkerPassOn, Quiet, At, Goto, FrameAtHand
  <1>9. CASE WorkerHandoff
    BY <1>9, HandoffJobs, HandoffHead DEF WorkerHandoff, Quiet, At, Past, Goto, FrameAtHand
  <1>10. CASE WorkerPop
    BY <1>10 DEF WorkerPop, Quiet, At, Goto, FrameAtHand
  <1> QED
    BY <1>1, <1>2, <1>3, <1>4, <1>5, <1>6, <1>7, <1>8, <1>9, <1>10 DEF WorkerStep

LEMMA CompPresenter == TypeInv /\ Quiet /\ CompInv /\ PresenterStep => CompInv'
  <1> SUFFICES ASSUME TypeInv /\ Quiet /\ CompInv, PresenterStep PROVE CompInv'
    OBVIOUS
  <1> USE DEF TypeInv, TypeOK, PcOK, Thread, CompInv, hookVars, lifeVars, screenVars
  <1>1. CASE Wait("presenter")
    BY <1>1 DEF Wait, Quiet, FrameAtHand
  <1>2. CASE PresenterNext
    BY <1>2 DEF PresenterNext, Quiet, At, Past, Goto, FrameAtHand
  <1>3. CASE PresenterExit
    BY <1>3 DEF PresenterExit, Quiet, At, Past, Goto, FrameAtHand
  <1>4. CASE PresenterCompanion
    BY <1>4 DEF PresenterCompanion, Quiet, At, Goto, FrameAtHand
  <1>5. CASE PresenterPaced
    BY <1>5 DEF PresenterPaced, Quiet, At, Goto, FrameAtHand
  <1>6. CASE PresenterHeld
    BY <1>6 DEF PresenterHeld, Quiet, At, Goto, FrameAtHand
  <1>7. CASE PresenterReal
    BY <1>7 DEF PresenterReal, Quiet, At, Goto, FrameAtHand
  <1>8. CASE PresenterFinish
    BY <1>8 DEF PresenterFinish, Quiet, At, Goto, FrameAtHand
  <1> QED
    BY <1>1, <1>2, <1>3, <1>4, <1>5, <1>6, <1>7, <1>8 DEF PresenterStep

-----------------------------------------------------------------------------
(* Order. *)

\* The handed item is the last of jobs, and carries the worker's frame.
LEMMA HandoffAppends ==
  ASSUME TypeInv, WorkerHandoff
  PROVE  /\ Len(jobs') = Len(jobs) + 1 /\ jobs'[Len(jobs) + 1].frame = work[1].frame
         /\ jobs'[Len(jobs) + 1].slot = work[1].slot
         /\ jobs'[Len(jobs) + 1].generate = gen["worker"]
         /\ jobs'[Len(jobs) + 1].unwaited = unwaited
         /\ \A i \in 1 .. Len(jobs) : jobs'[i] = jobs[i]
  <1>1. Head(work).frame \in Frame /\ Head(work).slot \in Slot
    BY WorkerItem DEF WorkerHandoff, Past, At
  <1>2. [frame |-> Head(work).frame, slot |-> Head(work).slot,
         generate |-> gen["worker"], unwaited |-> unwaited] \in Job
    BY <1>1 DEF Job, TypeInv, TypeOK, LocalsOK, Generator
  <1>3. jobs \in Seq(Job)
    BY DEF TypeInv, TypeOK, QueuesOK
  <1> QED
    BY <1>2, <1>3, AppendProperties DEF WorkerHandoff

LEMMA OrderAppCall == TypeInv /\ LifeInv /\ Quiet /\ OrderInv /\ AppCall => OrderInv'
  <1> SUFFICES ASSUME TypeInv /\ LifeInv /\ Quiet /\ OrderInv, AppCall PROVE OrderInv'
    OBVIOUS
  <1> USE DEF TypeInv, TypeOK, PcOK, Thread, OrderInv, hookVars, lifeVars, screenVars
  <1>1. CASE PresentThreaded
    <2>1. Shown' = Shown /\ Popped' = Popped /\ Held = 0 /\ Held' = 1 /\ HookHolds'
      BY <1>1 DEF PresentThreaded, Present, Shown, Popped, HookHolds, Held, At, Goto
    <2>2. UNCHANGED <<work, jobs, real>> /\ given' = given + 1 /\ hook'.frame = given'
      BY <1>1 DEF PresentThreaded, Present, TakeSlot
    <2>3. Len(work) \in Nat /\ Len(jobs) \in Nat /\ real \in Nat /\ Shown \in {0, 1} /\ Popped \in {0, 1}
      BY DEF QueuesOK, ScreenOK, Shown, Popped
    <2> HIDE DEF TypeInv, TypeOK, PcOK, Thread, hookVars, lifeVars, screenVars
    <2>5. \A i \in 1 .. Len(jobs') : jobs'[i].frame = real' - Shown' + i
      BY <2>1, <2>2, <2>3
    <2>6. \A i \in 1 .. Len(work') : work'[i].frame = real' - Shown' + Len(jobs') - Popped' + i
      BY <2>1, <2>2, <2>3
    <2>7. given' = real' - Shown' + Len(jobs') + Len(work') - Popped' + Held'
      BY <2>1, <2>2, <2>3
    <2>8. HookHolds' => hook'.frame = given'
      BY <2>1, <2>2, <2>3
    <2> QED
      BY <2>5, <2>6, <2>7, <2>8
  <1>2. CASE PresentInline
    BY <1>2 DEF PresentInline, Present, TakeSlot, StartThreads, NoThreads, ThreadsReady,
                MayStart, HookHolds, Held, Shown, Popped, QueuesOK, HookOK, At, Goto,
                FrameAtHand, Quiet, LifeInv, ScreenOK
  <1>3. CASE PresentUnfit
    <2>1. Shown' = Shown /\ Popped' = Popped /\ Held = 0 /\ Held' = 1 /\ HookHolds'
      BY <1>3 DEF PresentUnfit, Present, Shown, Popped, HookHolds, Held, At, Goto
    <2>2. UNCHANGED <<work, jobs, real>> /\ given' = given + 1 /\ hook'.frame = given'
      BY <1>3 DEF PresentUnfit, Present
    <2>3. Len(work) \in Nat /\ Len(jobs) \in Nat /\ real \in Nat /\ Shown \in {0, 1} /\ Popped \in {0, 1}
      BY DEF QueuesOK, ScreenOK, Shown, Popped
    <2> HIDE DEF TypeInv, TypeOK, PcOK, Thread, hookVars, lifeVars, screenVars
    <2>5. \A i \in 1 .. Len(jobs') : jobs'[i].frame = real' - Shown' + i
      BY <2>1, <2>2, <2>3
    <2>6. \A i \in 1 .. Len(work') : work'[i].frame = real' - Shown' + Len(jobs') - Popped' + i
      BY <2>1, <2>2, <2>3
    <2>7. given' = real' - Shown' + Len(jobs') + Len(work') - Popped' + Held'
      BY <2>1, <2>2, <2>3
    <2>8. HookHolds' => hook'.frame = given'
      BY <2>1, <2>2, <2>3
    <2> QED
      BY <2>5, <2>6, <2>7, <2>8
  <1>4. CASE PresentDisabled
    BY <1>4 DEF PresentDisabled, Present, HookHolds, Held, Shown, Popped, QueuesOK, HookOK,
                At, Goto, FrameAtHand, Quiet, LifeInv, ScreenOK
  <1>5. CASE DeviceWaitIdle
    BY <1>5 DEF DeviceWaitIdle, HookHolds, Held, Shown, Popped, QueuesOK, HookOK, At, Goto,
                FrameAtHand, Quiet, LifeInv, ScreenOK
  <1>6. CASE DestroySwapchain
    BY <1>6 DEF DestroySwapchain, HookHolds, Held, Shown, Popped, QueuesOK, HookOK, At,
                Goto, FrameAtHand, Quiet, LifeInv, ScreenOK
  <1> QED
    BY <1>1, <1>2, <1>3, <1>4, <1>5, <1>6 DEF AppCall

LEMMA OrderAppStep == TypeInv /\ LifeInv /\ Quiet /\ OrderInv /\ AppStep => OrderInv'
  <1> SUFFICES ASSUME TypeInv /\ LifeInv /\ Quiet /\ OrderInv, AppStep PROVE OrderInv'
    OBVIOUS
  <1> USE DEF TypeInv, TypeOK, PcOK, Thread, OrderInv, hookVars, lifeVars, screenVars
  <1>1. CASE Wait("app")
    BY <1>1 DEF Wait, HookHolds, Held, Shown, Popped, QueuesOK, HookOK, FrameAtHand, Quiet,
                LifeInv, ScreenOK
  <1>2. CASE PassThrough
    BY <1>2 DEF PassThrough, HookHolds, Held, Shown, Popped, QueuesOK, HookOK, At, Goto,
                FrameAtHand, Quiet, LifeInv, ScreenOK
  <1>3. CASE HookReserve
    BY <1>3 DEF HookReserve, HookHolds, Held, Shown, Popped, QueuesOK, HookOK, At, Past,
                Goto, FrameAtHand, Quiet, LifeInv, ScreenOK
  <1>4. CASE AdapterSubmit
    BY <1>4 DEF AdapterSubmit, HookHolds, Held, Shown, Popped, QueuesOK, HookOK, At, Goto,
                FrameAtHand, Quiet, LifeInv, ScreenOK
  <1>5. CASE AdapterFail
    BY <1>5 DEF AdapterFail, HookHolds, Held, Shown, Popped, QueuesOK, HookOK, At, Goto,
                FrameAtHand, Quiet, LifeInv, ScreenOK
  <1>6. CASE Enqueue
    <2>1. Shown' = Shown /\ Popped' = Popped /\ Held = 1 /\ Held' = 0 /\ HookHolds /\ ~HookHolds'
      BY <1>6 DEF Enqueue, Shown, Popped, HookHolds, Held, Past, At, Goto
    <2>2. UNCHANGED <<jobs, given, real>>
      BY <1>6 DEF Enqueue
    <2>3. hook \in WorkItem /\ work' = Append(work, hook)
      BY <1>6, HookItem DEF Enqueue, Past, At
    <2>4. /\ Len(work') = Len(work) + 1 /\ work'[Len(work) + 1] = hook
          /\ \A i \in 1 .. Len(work) : work'[i] = work[i]
      BY <2>3, AppendProperties DEF QueuesOK
    <2>9. Len(work) \in Nat /\ Len(jobs) \in Nat /\ real \in Nat /\ Shown \in {0, 1} /\ Popped \in {0, 1}
      BY DEF QueuesOK, ScreenOK, Shown, Popped
    <2> HIDE DEF TypeInv, TypeOK, PcOK, Thread, hookVars, lifeVars, screenVars
    <2>5. \A i \in 1 .. Len(jobs') : jobs'[i].frame = real' - Shown' + i
      BY <2>1, <2>2, <2>4, <2>9
    <2>6. \A i \in 1 .. Len(work') : work'[i].frame = real' - Shown' + Len(jobs') - Popped' + i
      <3>1. given = real - Shown + Len(jobs) + Len(work) - Popped + 1 /\ hook.frame = given
        BY <2>1
      <3>2. hook.frame = real - Shown + Len(jobs) - Popped + (Len(work) + 1)
        BY <3>1, <2>9
      <3> TAKE i \in 1 .. Len(work')
      <3>3. CASE i = Len(work) + 1
        BY <3>2, <3>3, <2>1, <2>2, <2>4
      <3>4. CASE i \in 1 .. Len(work)
        BY <3>4, <2>1, <2>2, <2>4
      <3> QED
        BY <3>3, <3>4, <2>4, <2>9
    <2>7. given' = real' - Shown' + Len(jobs') + Len(work') - Popped' + Held'
      BY <2>1, <2>2, <2>4, <2>9
    <2>8. HookHolds' => hook'.frame = given'
      BY <2>1, <2>2, <2>4, <2>9
    <2> QED
      BY <2>5, <2>6, <2>7, <2>8
  <1>7. CASE Collect
    <2>1. UNCHANGED <<work, jobs, given, real, hook>> /\ UNCHANGED <<pc["worker"], pc["presenter"]>>
      BY <1>7 DEF Collect, Goto
    <2>2. ~HookHolds /\ ~HookHolds'
      BY <1>7 DEF Collect, HookHolds, At, Goto
    <2> HIDE DEF TypeInv, TypeOK, PcOK, Thread, hookVars, lifeVars, screenVars
    <2> QED
      BY <2>1, <2>2 DEF Held, Shown, Popped
  <1>8. CASE WorkerDrained
    BY <1>8 DEF WorkerDrained, HookHolds, Held, Shown, Popped, QueuesOK, HookOK, At, Past,
                Goto, FrameAtHand, Quiet, LifeInv, ScreenOK
  <1>9. CASE PresenterDrained
    BY <1>9 DEF PresenterDrained, HookHolds, Held, Shown, Popped, QueuesOK, HookOK, At,
                Past, Goto, FrameAtHand, Quiet, LifeInv, ScreenOK
  <1>10. CASE DeviceIdle
    BY <1>10 DEF DeviceIdle, HookHolds, Held, Shown, Popped, QueuesOK, HookOK, At, Goto,
                 FrameAtHand, Quiet, LifeInv, ScreenOK
  <1>11. CASE StopWorker
    <2>1. Shown' = Shown /\ Popped' = Popped /\ HookHolds' = HookHolds /\ Held' = Held
      BY <1>11 DEF StopWorker, Shown, Popped, HookHolds, Held, At, Goto
    <2>2. UNCHANGED <<work, jobs, given, hook, real>>
      BY <1>11 DEF StopWorker
    <2> QED
      BY <2>1, <2>2
  <1>12. CASE JoinWorker
    BY <1>12 DEF JoinWorker, HookHolds, Held, Shown, Popped, QueuesOK, HookOK, At, Goto,
                 FrameAtHand, Quiet, LifeInv, ScreenOK
  <1>13. CASE StopPresenter
    <2>1. Shown' = Shown /\ Popped' = Popped /\ HookHolds' = HookHolds /\ Held' = Held
      BY <1>13 DEF StopPresenter, Shown, Popped, HookHolds, Held, At, Goto
    <2>2. UNCHANGED <<work, jobs, given, hook, real>>
      BY <1>13 DEF StopPresenter
    <2> QED
      BY <2>1, <2>2
  <1>14. CASE JoinPresenter
    BY <1>14 DEF JoinPresenter, HookHolds, Held, Shown, Popped, QueuesOK, HookOK, At, Goto,
                 FrameAtHand, Quiet, LifeInv, ScreenOK
  <1>15. CASE Disable
    BY <1>15 DEF Disable, HookHolds, Held, Shown, Popped, QueuesOK, HookOK, At, Goto,
                 FrameAtHand, Quiet, LifeInv, ScreenOK
  <1>16. CASE Free
    BY <1>16 DEF Free, HookHolds, Held, Shown, Popped, QueuesOK, HookOK, At, Goto,
                 FrameAtHand, Quiet, LifeInv, ScreenOK
  <1>17. CASE GenFence("app")
    BY <1>17 DEF GenFence, HookHolds, Held, Shown, Popped, QueuesOK, HookOK, At, Goto,
                 FrameAtHand, Quiet, LifeInv, ScreenOK
  <1>18. CASE GenDecide("app")
    BY <1>18 DEF GenDecide, HookHolds, Held, Shown, Popped, QueuesOK, HookOK, At, Goto,
                 FrameAtHand, Quiet, LifeInv, ScreenOK
  <1>19. CASE GenSubmit("app")
    BY <1>19 DEF GenSubmit, HookHolds, Held, Shown, Popped, QueuesOK, HookOK, At, Goto,
                 FrameAtHand, Quiet, LifeInv, ScreenOK
  <1>20. CASE GenFailInline
    BY <1>20 DEF GenFailInline, HookHolds, Held, Shown, Popped, QueuesOK, HookOK, At, Goto,
                 FrameAtHand, Quiet, LifeInv, ScreenOK
  <1>21. CASE InlineCompanion
    BY <1>21 DEF InlineCompanion, HookHolds, Held, Shown, Popped, QueuesOK, HookOK, At,
                 Goto, FrameAtHand, Quiet, LifeInv, ScreenOK
  <1>22. CASE InlineReal
    BY <1>22 DEF InlineReal, HookHolds, Held, Shown, Popped, QueuesOK, HookOK, At, Goto,
                 FrameAtHand, Quiet, LifeInv, ScreenOK
  <1> QED
    BY <1>1, <1>2, <1>3, <1>4, <1>5, <1>6, <1>7, <1>8, <1>9, <1>10, <1>11, <1>12, <1>13,
       <1>14, <1>15, <1>16, <1>17, <1>18, <1>19, <1>20, <1>21, <1>22
       DEF AppStep

LEMMA OrderWorker == TypeInv /\ LifeInv /\ Quiet /\ OrderInv /\ WorkerStep => OrderInv'
  <1> SUFFICES ASSUME TypeInv /\ LifeInv /\ Quiet /\ OrderInv, WorkerStep PROVE OrderInv'
    OBVIOUS
  <1> USE DEF TypeInv, TypeOK, PcOK, Thread, OrderInv, hookVars, lifeVars, screenVars
  <1>1. CASE Wait("worker")
    BY <1>1 DEF Wait, HookHolds, Held, Shown, Popped, QueuesOK, HookOK, FrameAtHand, Quiet,
                LifeInv, ScreenOK
  <1>2. CASE WorkerTake
    BY <1>2 DEF WorkerTake, HookHolds, Held, Shown, Popped, QueuesOK, HookOK, At, Past,
                Goto, FrameAtHand, Quiet, LifeInv, ScreenOK
  <1>3. CASE WorkerExit
    BY <1>3 DEF WorkerExit, HookHolds, Held, Shown, Popped, QueuesOK, HookOK, At, Past,
                Goto, FrameAtHand, Quiet, LifeInv, ScreenOK
  <1>4. CASE GenFence("worker")
    BY <1>4 DEF GenFence, HookHolds, Held, Shown, Popped, QueuesOK, HookOK, At, Goto,
                FrameAtHand, Quiet, LifeInv, ScreenOK
  <1>5. CASE GenDecide("worker")
    BY <1>5 DEF GenDecide, HookHolds, Held, Shown, Popped, QueuesOK, HookOK, At, Goto,
                FrameAtHand, Quiet, LifeInv, ScreenOK
  <1>6. CASE GenSubmit("worker")
    BY <1>6 DEF GenSubmit, HookHolds, Held, Shown, Popped, QueuesOK, HookOK, At, Goto,
                FrameAtHand, Quiet, LifeInv, ScreenOK
  <1>7. CASE GenFailWorker
    BY <1>7 DEF GenFailWorker, HookHolds, Held, Shown, Popped, QueuesOK, HookOK, At, Goto,
                FrameAtHand, Quiet, LifeInv, ScreenOK
  <1>8. CASE WorkerPassOn
    BY <1>8 DEF WorkerPassOn, HookHolds, Held, Shown, Popped, QueuesOK, HookOK, At, Goto,
                FrameAtHand, Quiet, LifeInv, ScreenOK
  <1>9. CASE WorkerHandoff
    <2>1. Shown' = Shown /\ Popped = 0 /\ Popped' = 1 /\ HookHolds' = HookHolds /\ Held' = Held
      BY <1>9 DEF WorkerHandoff, Shown, Popped, HookHolds, Held, Past, At, Goto
    <2>2. UNCHANGED <<work, given, hook, real>>
      BY <1>9 DEF WorkerHandoff
    <2>3. /\ Len(jobs') = Len(jobs) + 1 /\ jobs'[Len(jobs) + 1].frame = work[1].frame
          /\ \A i \in 1 .. Len(jobs) : jobs'[i] = jobs[i]
      BY <1>9, HandoffAppends
    <2>4. Len(work) \in Nat \ {0} /\ Len(jobs) \in Nat /\ real \in Nat
      BY <1>9, EmptySeq DEF QueuesOK, ScreenOK, WorkerHandoff, Past, At, FrameAtHand
    <2>9. Shown \in {0, 1}
      BY DEF Shown
    <2> HIDE DEF TypeInv, TypeOK, PcOK, Thread, hookVars, lifeVars, screenVars
    <2>5. \A i \in 1 .. Len(jobs') : jobs'[i].frame = real' - Shown' + i
      <3>1. work[1].frame = real - Shown + (Len(jobs) + 1)
        <4>1. work[1].frame = real - Shown + Len(jobs) - Popped + 1
          BY <2>4
        <4> QED
          BY <4>1, <2>1, <2>4, <2>9
      <3> TAKE i \in 1 .. Len(jobs')
      <3>2. CASE i = Len(jobs) + 1
        BY <3>1, <3>2, <2>1, <2>2, <2>3
      <3>3. CASE i \in 1 .. Len(jobs)
        BY <3>3, <2>1, <2>2, <2>3
      <3> QED
        BY <3>2, <3>3, <2>3, <2>4
    <2>6. \A i \in 1 .. Len(work') : work'[i].frame = real' - Shown' + Len(jobs') - Popped' + i
      BY <2>1, <2>2, <2>3, <2>4, <2>9
    <2>7. given' = real' - Shown' + Len(jobs') + Len(work') - Popped' + Held'
      BY <2>1, <2>2, <2>3, <2>4, <2>9
    <2>8. HookHolds' => hook'.frame = given'
      BY <2>1, <2>2, <2>3, <2>4, <2>9
    <2> QED
      BY <2>5, <2>6, <2>7, <2>8
  <1>10. CASE WorkerPop
    <2>1. Shown' = Shown /\ Popped = 1 /\ Popped' = 0 /\ HookHolds' = HookHolds /\ Held' = Held
      BY <1>10 DEF WorkerPop, Shown, Popped, HookHolds, Held, At, Goto
    <2>2. UNCHANGED <<jobs, given, hook, real>>
      BY <1>10 DEF WorkerPop
    <2>3. work # <<>> /\ work' = Tail(work)
      BY <1>10 DEF WorkerPop, At, FrameAtHand
    <2>4. /\ Len(work) \in Nat \ {0} /\ Len(work') = Len(work) - 1
          /\ \A i \in 1 .. Len(work') : work'[i] = work[i + 1]
      BY <2>3, EmptySeq, HeadTailProperties DEF QueuesOK
    <2>9. Shown \in {0, 1} /\ Len(jobs) \in Nat /\ real \in Nat
      BY DEF Shown, QueuesOK, ScreenOK
    <2> HIDE DEF TypeInv, TypeOK, PcOK, Thread, hookVars, lifeVars, screenVars
    <2>5. \A i \in 1 .. Len(jobs') : jobs'[i].frame = real' - Shown' + i
      BY <2>1, <2>2
    <2>6. \A i \in 1 .. Len(work') : work'[i].frame = real' - Shown' + Len(jobs') - Popped' + i
      <3> TAKE i \in 1 .. Len(work')
      <3>1. i + 1 \in 1 .. Len(work)
        BY <2>4
      <3>2. work[i + 1].frame = real - Shown + Len(jobs) - Popped + (i + 1)
        BY <3>1
      <3>3. work'[i].frame = work[i + 1].frame
        BY <2>4
      <3> QED
        BY <3>2, <3>3, <2>1, <2>2, <2>4, <2>9
    <2>7. given' = real' - Shown' + Len(jobs') + Len(work') - Popped' + Held'
      BY <2>1, <2>2, <2>4, <2>9
    <2>8. HookHolds' => hook'.frame = given'
      BY <2>1, <2>2
    <2> QED
      BY <2>5, <2>6, <2>7, <2>8
  <1> QED
    BY <1>1, <1>2, <1>3, <1>4, <1>5, <1>6, <1>7, <1>8, <1>9, <1>10 DEF WorkerStep

LEMMA OrderPresenter == TypeInv /\ LifeInv /\ Quiet /\ OrderInv /\ PresenterStep => OrderInv'
  <1> SUFFICES ASSUME TypeInv /\ LifeInv /\ Quiet /\ OrderInv, PresenterStep PROVE OrderInv'
    OBVIOUS
  <1> USE DEF TypeInv, TypeOK, PcOK, Thread, OrderInv, hookVars, lifeVars, screenVars
  <1>1. CASE Wait("presenter")
    BY <1>1 DEF Wait, HookHolds, Held, Shown, Popped, QueuesOK, HookOK, FrameAtHand, Quiet,
                LifeInv, ScreenOK
  <1>2. CASE PresenterNext
    BY <1>2 DEF PresenterNext, HookHolds, Held, Shown, Popped, QueuesOK, HookOK, At, Past,
                Goto, FrameAtHand, Quiet, LifeInv, ScreenOK
  <1>3. CASE PresenterExit
    BY <1>3 DEF PresenterExit, HookHolds, Held, Shown, Popped, QueuesOK, HookOK, At, Past,
                Goto, FrameAtHand, Quiet, LifeInv, ScreenOK
  <1>4. CASE PresenterCompanion
    BY <1>4 DEF PresenterCompanion, HookHolds, Held, Shown, Popped, QueuesOK, HookOK, At,
                Goto, FrameAtHand, Quiet, LifeInv, ScreenOK
  <1>5. CASE PresenterPaced
    BY <1>5 DEF PresenterPaced, HookHolds, Held, Shown, Popped, QueuesOK, HookOK, At, Goto,
                FrameAtHand, Quiet, LifeInv, ScreenOK
  <1>6. CASE PresenterHeld
    BY <1>6 DEF PresenterHeld, HookHolds, Held, Shown, Popped, QueuesOK, HookOK, At, Goto,
                FrameAtHand, Quiet, LifeInv, ScreenOK
  <1>7. CASE PresenterReal
    <2>1. Shown = 0 /\ Shown' = 1 /\ Popped' = Popped /\ HookHolds' = HookHolds /\ Held' = Held
      BY <1>7 DEF PresenterReal, Shown, Popped, HookHolds, Held, At, Goto
    <2>2. UNCHANGED <<work, jobs, given, hook>> /\ real' = jobs[1].frame
      BY <1>7 DEF PresenterReal
    <2>3. Len(work) \in Nat /\ Len(jobs) \in Nat \ {0} /\ real \in Nat
      BY <1>7, EmptySeq DEF QueuesOK, ScreenOK, PresenterReal, At, FrameAtHand
    <2>4. real' = real + 1
      BY <2>1, <2>2, <2>3
    <2>9. Popped \in {0, 1}
      BY DEF Popped
    <2> HIDE DEF TypeInv, TypeOK, PcOK, Thread, hookVars, lifeVars, screenVars
    <2>5. \A i \in 1 .. Len(jobs') : jobs'[i].frame = real' - Shown' + i
      BY <2>1, <2>2, <2>3, <2>4, <2>9
    <2>6. \A i \in 1 .. Len(work') : work'[i].frame = real' - Shown' + Len(jobs') - Popped' + i
      <3>1. real' - Shown' = real - Shown
        BY <2>1, <2>3, <2>4
      <3> QED
        BY <3>1, <2>1, <2>2
    <2>7. given' = real' - Shown' + Len(jobs') + Len(work') - Popped' + Held'
      BY <2>1, <2>2, <2>3, <2>4, <2>9
    <2>8. HookHolds' => hook'.frame = given'
      BY <2>1, <2>2, <2>3, <2>4, <2>9
    <2> QED
      BY <2>5, <2>6, <2>7, <2>8
  <1>8. CASE PresenterFinish
    BY <1>8 DEF PresenterFinish, HookHolds, Held, Shown, Popped, QueuesOK, HookOK, At, Goto,
                FrameAtHand, Quiet, LifeInv, ScreenOK
  <1> QED
    BY <1>1, <1>2, <1>3, <1>4, <1>5, <1>6, <1>7, <1>8 DEF PresenterStep

-----------------------------------------------------------------------------
(* History and companions. *)

LEMMA HistAppCall == TypeInv /\ LifeInv /\ Quiet /\ OrderInv /\ HistInv /\ AppCall => HistInv'
  <1> SUFFICES ASSUME TypeInv /\ LifeInv /\ Quiet /\ OrderInv /\ HistInv, AppCall PROVE HistInv'
    OBVIOUS
  <1> USE DEF TypeInv, TypeOK, PcOK, Thread, HistInv, hookVars, lifeVars, screenVars, slotVars
  <1>1. CASE PresentThreaded
    BY <1>1 DEF PresentThreaded, Present, TakeSlot, StartThreads, ThreadsReady, MayStart,
                Shown, Handing, Inlined, QueuesOK, ScreenOK, At, Goto
  <1>2. CASE PresentInline
    BY <1>2 DEF PresentInline, Present, TakeSlot, StartThreads, NoThreads, ThreadsReady,
                MayStart, Shown, Handing, Inlined, QueuesOK, ScreenOK, At, Goto
  <1>3. CASE PresentUnfit
    BY <1>3 DEF PresentUnfit, Present, Shown, Handing, Inlined, QueuesOK, ScreenOK, At, Goto
  <1>4. CASE PresentDisabled
    BY <1>4 DEF PresentDisabled, Present, Shown, Handing, Inlined, QueuesOK, ScreenOK, At,
                Goto
  <1>5. CASE DeviceWaitIdle
    BY <1>5 DEF DeviceWaitIdle, Shown, Handing, Inlined, QueuesOK, ScreenOK, At, Goto
  <1>6. CASE DestroySwapchain
    BY <1>6 DEF DestroySwapchain, Shown, Handing, Inlined, QueuesOK, ScreenOK, At, Goto
  <1> QED
    BY <1>1, <1>2, <1>3, <1>4, <1>5, <1>6 DEF AppCall

LEMMA HistAppStep == TypeInv /\ LifeInv /\ Quiet /\ OrderInv /\ HistInv /\ AppStep => HistInv'
  <1> SUFFICES ASSUME TypeInv /\ LifeInv /\ Quiet /\ OrderInv /\ HistInv, AppStep PROVE HistInv'
    OBVIOUS
  <1> USE DEF TypeInv, TypeOK, PcOK, Thread, HistInv, hookVars, lifeVars, screenVars, slotVars
  <1>1. CASE Wait("app")
    BY <1>1 DEF Wait, Shown, Handing, Inlined, QueuesOK, ScreenOK
  <1>2. CASE PassThrough
    <2>9. Len(jobs) \in Nat /\ Len(work) \in Nat /\ real \in Nat
      BY DEF QueuesOK, ScreenOK
    <2>1. ~workerOn /\ ~presenterOn /\ work = <<>> /\ jobs = <<>>
      BY <1>2 DEF PassThrough, At, LifeInv, Quiet
    <2>2. Shown = 0 /\ Popped = 0 /\ Handing = 0 /\ Inlined = 0 /\ Held = 1
      BY <1>2, <2>1 DEF PassThrough, At, Shown, Popped, Handing, Inlined, Held, HookHolds,
                        FrameAtHand
    <2>3. Shown' = 0 /\ Handing' = 0 /\ Inlined' = 0
      BY <1>2, <2>1 DEF PassThrough, At, Goto, Shown, Handing, Inlined, FrameAtHand
    <2>4. real' = given /\ UNCHANGED <<jobs, haveHistory>>
      BY <1>2 DEF PassThrough, At, OrderInv, HookHolds
    <2>5. given = real + 1
      BY <2>1, <2>2, <2>9, EmptySeq DEF OrderInv
    <2> QED
      BY <2>1, <2>2, <2>3, <2>4, <2>5, <2>9, EmptySeq
  <1>3. CASE HookReserve
    BY <1>3 DEF HookReserve, Shown, Handing, Inlined, QueuesOK, ScreenOK, At, Past, Goto
  <1>4. CASE AdapterSubmit
    BY <1>4 DEF AdapterSubmit, Shown, Handing, Inlined, QueuesOK, ScreenOK, At, Goto
  <1>5. CASE AdapterFail
    BY <1>5 DEF AdapterFail, Shown, Handing, Inlined, QueuesOK, ScreenOK, At, Goto
  <1>6. CASE Enqueue
    BY <1>6 DEF Enqueue, Shown, Handing, Inlined, QueuesOK, ScreenOK, At, Past, Goto
  <1>7. CASE Collect
    BY <1>7 DEF Collect, Shown, Handing, Inlined, QueuesOK, ScreenOK, At, Goto
  <1>8. CASE WorkerDrained
    BY <1>8 DEF WorkerDrained, Shown, Handing, Inlined, QueuesOK, ScreenOK, At, Past, Goto
  <1>9. CASE PresenterDrained
    BY <1>9 DEF PresenterDrained, Shown, Handing, Inlined, QueuesOK, ScreenOK, At, Past,
                Goto
  <1>10. CASE DeviceIdle
    BY <1>10 DEF DeviceIdle, Shown, Handing, Inlined, QueuesOK, ScreenOK, At, Goto
  <1>11. CASE StopWorker
    BY <1>11 DEF StopWorker, Shown, Handing, Inlined, QueuesOK, ScreenOK, At, Goto
  <1>12. CASE JoinWorker
    BY <1>12 DEF JoinWorker, Shown, Handing, Inlined, QueuesOK, ScreenOK, At, Goto
  <1>13. CASE StopPresenter
    BY <1>13 DEF StopPresenter, Shown, Handing, Inlined, QueuesOK, ScreenOK, At, Goto
  <1>14. CASE JoinPresenter
    BY <1>14 DEF JoinPresenter, Shown, Handing, Inlined, QueuesOK, ScreenOK, At, Goto
  <1>15. CASE Disable
    BY <1>15 DEF Disable, Shown, Handing, Inlined, QueuesOK, ScreenOK, At, Goto
  <1>16. CASE Free
    BY <1>16 DEF Free, Shown, Handing, Inlined, QueuesOK, ScreenOK, At, Goto
  <1>17. CASE GenFence("app")
    BY <1>17 DEF GenFence, Shown, Handing, Inlined, QueuesOK, ScreenOK, At, Goto
  <1>18. CASE GenDecide("app")
    BY <1>18 DEF GenDecide, Shown, Handing, Inlined, QueuesOK, ScreenOK, At, Goto
  <1>19. CASE GenSubmit("app")
    <2>9. Len(jobs) \in Nat /\ Len(work) \in Nat /\ real \in Nat
      BY DEF QueuesOK, ScreenOK
    <2>1. Inlined' = 1 /\ Handing' \in {0, 1} /\ UNCHANGED <<real, jobs>>
      BY <1>19 DEF GenSubmit, At, Goto, Handing, Inlined
    <2>2. Shown' \in {0, 1} /\ (Shown' = 1 => jobs # <<>>)
      BY <1>19 DEF GenSubmit, At, Goto, Shown, FrameAtHand
    <2>3. jobs # <<>> => Len(jobs) # 0
      BY EmptySeq DEF QueuesOK
    <2> QED
      BY <2>1, <2>2, <2>3, <2>9
  <1>20. CASE GenFailInline
    BY <1>20 DEF GenFailInline, Shown, Handing, Inlined, QueuesOK, ScreenOK, At, Goto
  <1>21. CASE InlineCompanion
    BY <1>21 DEF InlineCompanion, Shown, Handing, Inlined, QueuesOK, ScreenOK, At, Goto
  <1>22. CASE InlineReal
    <2>9. Len(jobs) \in Nat /\ Len(work) \in Nat /\ real \in Nat
      BY DEF QueuesOK, ScreenOK
    <2>1. work = <<>> /\ jobs = <<>>
      BY <1>22 DEF InlineReal, At, Quiet
    <2>2. Shown = 0 /\ Popped = 0 /\ Handing = 0 /\ Held = 1
      BY <1>22, <2>1 DEF InlineReal, At, Shown, Popped, Handing, Held, HookHolds,
                         FrameAtHand
    <2>3. Shown' = 0 /\ Handing' = 0 /\ Inlined' = 0
      BY <1>22, <2>1 DEF InlineReal, At, Goto, Shown, Handing, Inlined, FrameAtHand
    <2>4. real' = given /\ UNCHANGED <<jobs>>
      BY <1>22 DEF InlineReal, At, OrderInv, HookHolds
    <2>5. given = real + 1
      BY <2>1, <2>2, <2>9, EmptySeq DEF OrderInv
    <2> QED
      BY <2>1, <2>2, <2>3, <2>4, <2>5, <2>9, EmptySeq
  <1> QED
    BY <1>1, <1>2, <1>3, <1>4, <1>5, <1>6, <1>7, <1>8, <1>9, <1>10, <1>11, <1>12, <1>13,
       <1>14, <1>15, <1>16, <1>17, <1>18, <1>19, <1>20, <1>21, <1>22
       DEF AppStep

LEMMA HistWorker == TypeInv /\ LifeInv /\ Quiet /\ OrderInv /\ HistInv /\ WorkerStep => HistInv'
  <1> SUFFICES ASSUME TypeInv /\ LifeInv /\ Quiet /\ OrderInv /\ HistInv, WorkerStep PROVE HistInv'
    OBVIOUS
  <1> USE DEF TypeInv, TypeOK, PcOK, Thread, HistInv, hookVars, lifeVars, screenVars, slotVars
  <1>1. CASE Wait("worker")
    BY <1>1 DEF Wait, Shown, Handing, Inlined, QueuesOK, ScreenOK
  <1>2. CASE WorkerTake
    BY <1>2 DEF WorkerTake, Shown, Handing, Inlined, QueuesOK, ScreenOK, At, Past, Goto
  <1>3. CASE WorkerExit
    BY <1>3 DEF WorkerExit, Shown, Handing, Inlined, QueuesOK, ScreenOK, At, Past, Goto
  <1>4. CASE GenFence("worker")
    BY <1>4 DEF GenFence, Shown, Handing, Inlined, QueuesOK, ScreenOK, At, Goto
  <1>5. CASE GenDecide("worker")
    BY <1>5 DEF GenDecide, Shown, Handing, Inlined, QueuesOK, ScreenOK, At, Goto
  <1>6. CASE GenSubmit("worker")
    <2>9. Len(jobs) \in Nat /\ Len(work) \in Nat /\ real \in Nat
      BY DEF QueuesOK, ScreenOK
    <2>1. Handing' = 1 /\ Inlined' \in {0, 1} /\ UNCHANGED <<real, jobs>>
      BY <1>6 DEF GenSubmit, At, Goto, Handing, Inlined
    <2>2. Shown' \in {0, 1} /\ (Shown' = 1 => jobs # <<>>)
      BY <1>6 DEF GenSubmit, At, Goto, Shown, FrameAtHand
    <2>3. jobs # <<>> => Len(jobs) # 0
      BY EmptySeq DEF QueuesOK
    <2> QED
      BY <2>1, <2>2, <2>3, <2>9
  <1>7. CASE GenFailWorker
    BY <1>7 DEF GenFailWorker, Shown, Handing, Inlined, QueuesOK, ScreenOK, At, Goto
  <1>8. CASE WorkerPassOn
    BY <1>8 DEF WorkerPassOn, Shown, Handing, Inlined, QueuesOK, ScreenOK, At, Goto
  <1>9. CASE WorkerHandoff
    <2>9. Len(jobs) \in Nat /\ Len(work) \in Nat /\ real \in Nat
      BY DEF QueuesOK, ScreenOK
    <2>1. Len(jobs') = Len(jobs) + 1
      BY <1>9, HandoffAppends
    <2>2. Handing = 1 /\ Handing' = 0 /\ Shown' = Shown /\ Inlined' = Inlined
      BY <1>9 DEF WorkerHandoff, Handing, Shown, Inlined, Past, At, Goto
    <2>3. UNCHANGED <<haveHistory, real>>
      BY <1>9 DEF WorkerHandoff
    <2>4. Shown \in {0, 1} /\ Inlined \in {0, 1}
      BY DEF Shown, Inlined
    <2> QED
      BY <2>1, <2>2, <2>3, <2>4, <2>9
  <1>10. CASE WorkerPop
    BY <1>10 DEF WorkerPop, Shown, Handing, Inlined, QueuesOK, ScreenOK, At, Goto
  <1> QED
    BY <1>1, <1>2, <1>3, <1>4, <1>5, <1>6, <1>7, <1>8, <1>9, <1>10 DEF WorkerStep

LEMMA HistPresenter == TypeInv /\ LifeInv /\ Quiet /\ OrderInv /\ HistInv /\ PresenterStep => HistInv'
  <1> SUFFICES ASSUME TypeInv /\ LifeInv /\ Quiet /\ OrderInv /\ HistInv, PresenterStep PROVE HistInv'
    OBVIOUS
  <1> USE DEF TypeInv, TypeOK, PcOK, Thread, HistInv, hookVars, lifeVars, screenVars, slotVars
  <1>1. CASE Wait("presenter")
    BY <1>1 DEF Wait, Shown, Handing, Inlined, QueuesOK, ScreenOK
  <1>2. CASE PresenterNext
    BY <1>2 DEF PresenterNext, Shown, Handing, Inlined, QueuesOK, ScreenOK, At, Past, Goto
  <1>3. CASE PresenterExit
    BY <1>3 DEF PresenterExit, Shown, Handing, Inlined, QueuesOK, ScreenOK, At, Past, Goto
  <1>4. CASE PresenterCompanion
    BY <1>4 DEF PresenterCompanion, Shown, Handing, Inlined, QueuesOK, ScreenOK, At, Goto
  <1>5. CASE PresenterPaced
    BY <1>5 DEF PresenterPaced, Shown, Handing, Inlined, QueuesOK, ScreenOK, At, Goto
  <1>6. CASE PresenterHeld
    BY <1>6 DEF PresenterHeld, Shown, Handing, Inlined, QueuesOK, ScreenOK, At, Goto
  <1>7. CASE PresenterReal
    <2>9. Len(jobs) \in Nat /\ Len(work) \in Nat /\ real \in Nat
      BY DEF QueuesOK, ScreenOK
    <2>1. Shown = 0 /\ Shown' = 1 /\ Handing' = Handing /\ Inlined' = Inlined
      BY <1>7 DEF PresenterReal, At, Goto, Shown, Handing, Inlined
    <2>2. UNCHANGED <<jobs, haveHistory>> /\ real' = jobs[1].frame
      BY <1>7 DEF PresenterReal
    <2>3. Len(jobs) \in Nat \ {0}
      BY <1>7, EmptySeq DEF QueuesOK, PresenterReal, At, FrameAtHand
    <2>4. jobs[1].frame = real + 1
      BY <2>1, <2>3, <2>9 DEF OrderInv
    <2>5. Handing \in {0, 1} /\ Inlined \in {0, 1}
      BY DEF Handing, Inlined
    <2> QED
      BY <2>1, <2>2, <2>3, <2>4, <2>5, <2>9
  <1>8. CASE PresenterFinish
    <2>9. Len(jobs) \in Nat /\ Len(work) \in Nat /\ real \in Nat
      BY DEF QueuesOK, ScreenOK
    <2>1. Shown = 1 /\ Shown' = 0 /\ Handing' = Handing /\ Inlined' = Inlined
      BY <1>8 DEF PresenterFinish, At, Goto, Shown, Handing, Inlined
    <2>2. Len(jobs') = Len(jobs) - 1 /\ UNCHANGED <<real, haveHistory>>
      BY <1>8, PresenterItem DEF PresenterFinish, At
    <2>5. Handing \in {0, 1} /\ Inlined \in {0, 1}
      BY DEF Handing, Inlined
    <2> QED
      BY <2>1, <2>2, <2>5, <2>9
  <1> QED
    BY <1>1, <1>2, <1>3, <1>4, <1>5, <1>6, <1>7, <1>8 DEF PresenterStep

LEMMA GenAppCall == TypeInv /\ LifeInv /\ Quiet /\ OrderInv /\ HistInv /\ GenInv /\ AppCall => GenInv'
  <1> SUFFICES ASSUME TypeInv /\ LifeInv /\ Quiet /\ OrderInv /\ HistInv /\ GenInv, AppCall PROVE GenInv'
    OBVIOUS
  <1> USE DEF TypeInv, TypeOK, PcOK, Thread, GenInv, hookVars, lifeVars, screenVars, localVars
  <1>1. CASE PresentThreaded
    BY <1>1 DEF PresentThreaded, Present, TakeSlot, StartThreads, ThreadsReady, MayStart,
                At, Goto, LocalsOK, Generator, FrameAtHand
  <1>2. CASE PresentInline
    BY <1>2 DEF PresentInline, Present, TakeSlot, StartThreads, NoThreads, ThreadsReady,
                MayStart, At, Goto, LocalsOK, Generator, FrameAtHand
  <1>3. CASE PresentUnfit
    BY <1>3 DEF PresentUnfit, Present, At, Goto, LocalsOK, Generator, FrameAtHand
  <1>4. CASE PresentDisabled
    BY <1>4 DEF PresentDisabled, Present, At, Goto, LocalsOK, Generator, FrameAtHand
  <1>5. CASE DeviceWaitIdle
    BY <1>5 DEF DeviceWaitIdle, At, Goto, LocalsOK, Generator, FrameAtHand
  <1>6. CASE DestroySwapchain
    BY <1>6 DEF DestroySwapchain, At, Goto, LocalsOK, Generator, FrameAtHand
  <1> QED
    BY <1>1, <1>2, <1>3, <1>4, <1>5, <1>6 DEF AppCall

LEMMA GenAppStep == TypeInv /\ LifeInv /\ Quiet /\ OrderInv /\ HistInv /\ GenInv /\ AppStep => GenInv'
  <1> SUFFICES ASSUME TypeInv /\ LifeInv /\ Quiet /\ OrderInv /\ HistInv /\ GenInv, AppStep PROVE GenInv'
    OBVIOUS
  <1> USE DEF TypeInv, TypeOK, PcOK, Thread, GenInv, hookVars, lifeVars, screenVars, localVars
  <1>1. CASE Wait("app")
    BY <1>1 DEF Wait, LocalsOK, Generator, FrameAtHand
  <1>2. CASE PassThrough
    BY <1>2 DEF PassThrough, At, Goto, LocalsOK, Generator, FrameAtHand
  <1>3. CASE HookReserve
    BY <1>3 DEF HookReserve, At, Past, Goto, LocalsOK, Generator, FrameAtHand
  <1>4. CASE AdapterSubmit
    BY <1>4 DEF AdapterSubmit, At, Goto, LocalsOK, Generator, FrameAtHand
  <1>5. CASE AdapterFail
    BY <1>5 DEF AdapterFail, At, Goto, LocalsOK, Generator, FrameAtHand
  <1>6. CASE Enqueue
    <2>1. UNCHANGED <<jobs, hook, gen>> /\ pc'["worker"] = pc["worker"] /\ pc'["app"] = "collect"
      BY <1>6 DEF Enqueue, Past, At, Goto
    <2>2. pc["worker"] \in {"submit", "handoff"} => work'[1] = work[1]
      <3>1. hook \in WorkItem
        BY <1>6, HookItem DEF Enqueue, Past, At
      <3>2. work # <<>> => Len(work) \in Nat \ {0}
        BY EmptySeq DEF QueuesOK
      <3> QED
        BY <1>6, <3>1, <3>2, AppendProperties DEF Enqueue, QueuesOK, FrameAtHand
    <2> QED
      BY <2>1, <2>2
  <1>7. CASE Collect
    BY <1>7 DEF Collect, At, Goto, LocalsOK, Generator, FrameAtHand
  <1>8. CASE WorkerDrained
    BY <1>8 DEF WorkerDrained, At, Past, Goto, LocalsOK, Generator, FrameAtHand
  <1>9. CASE PresenterDrained
    BY <1>9 DEF PresenterDrained, At, Past, Goto, LocalsOK, Generator, FrameAtHand
  <1>10. CASE DeviceIdle
    BY <1>10 DEF DeviceIdle, At, Goto, LocalsOK, Generator, FrameAtHand
  <1>11. CASE StopWorker
    BY <1>11 DEF StopWorker, At, Goto, LocalsOK, Generator, FrameAtHand
  <1>12. CASE JoinWorker
    BY <1>12 DEF JoinWorker, At, Goto, LocalsOK, Generator, FrameAtHand
  <1>13. CASE StopPresenter
    BY <1>13 DEF StopPresenter, At, Goto, LocalsOK, Generator, FrameAtHand
  <1>14. CASE JoinPresenter
    BY <1>14 DEF JoinPresenter, At, Goto, LocalsOK, Generator, FrameAtHand
  <1>15. CASE Disable
    BY <1>15 DEF Disable, At, Goto, LocalsOK, Generator, FrameAtHand
  <1>16. CASE Free
    BY <1>16 DEF Free, At, Goto, LocalsOK, Generator, FrameAtHand
  <1>17. CASE GenFence("app")
    BY <1>17 DEF GenFence, At, Goto, LocalsOK, Generator, FrameAtHand
  <1>18. CASE GenDecide("app")
    <2>1. haveHistory => hook.frame >= 2
      <3>1. work = <<>> /\ jobs = <<>> /\ real \in Nat
        BY <1>18 DEF ScreenOK, GenDecide, At, Quiet
      <3>2. /\ Handing = 0 /\ Popped = 0 /\ Inlined = 0 /\ Shown = 0 /\ Held = 1
            /\ hook.frame = given
        BY <1>18, <3>1 DEF GenDecide, At, Handing, Popped, Inlined, Shown, Held, HookHolds,
                           FrameAtHand, OrderInv
      <3>3. hook.frame = real + 1
        BY <3>1, <3>2, EmptySeq DEF OrderInv
      <3> QED
        BY <3>1, <3>2, <3>3, EmptySeq DEF HistInv
    <2>2. /\ UNCHANGED <<work, hook, jobs>> /\ gen'["worker"] = gen["worker"]
          /\ gen'["app"] => haveHistory
      BY <1>18 DEF GenDecide, LocalsOK, Generator
    <2>3. pc'["app"] = "submit" /\ pc'["worker"] = pc["worker"]
      BY <1>18 DEF GenDecide, At, Goto
    <2> QED
      BY <2>1, <2>2, <2>3
  <1>19. CASE GenSubmit("app")
    BY <1>19 DEF GenSubmit, At, Goto, LocalsOK, Generator, FrameAtHand
  <1>20. CASE GenFailInline
    BY <1>20 DEF GenFailInline, At, Goto, LocalsOK, Generator, FrameAtHand
  <1>21. CASE InlineCompanion
    BY <1>21 DEF InlineCompanion, At, Goto, LocalsOK, Generator, FrameAtHand
  <1>22. CASE InlineReal
    BY <1>22 DEF InlineReal, At, Goto, LocalsOK, Generator, FrameAtHand
  <1> QED
    BY <1>1, <1>2, <1>3, <1>4, <1>5, <1>6, <1>7, <1>8, <1>9, <1>10, <1>11, <1>12, <1>13,
       <1>14, <1>15, <1>16, <1>17, <1>18, <1>19, <1>20, <1>21, <1>22
       DEF AppStep

LEMMA GenWorker == TypeInv /\ LifeInv /\ Quiet /\ OrderInv /\ HistInv /\ GenInv /\ WorkerStep => GenInv'
  <1> SUFFICES ASSUME TypeInv /\ LifeInv /\ Quiet /\ OrderInv /\ HistInv /\ GenInv, WorkerStep PROVE GenInv'
    OBVIOUS
  <1> USE DEF TypeInv, TypeOK, PcOK, Thread, GenInv, hookVars, lifeVars, screenVars, localVars
  <1>1. CASE Wait("worker")
    BY <1>1 DEF Wait, LocalsOK, Generator, FrameAtHand
  <1>2. CASE WorkerTake
    BY <1>2 DEF WorkerTake, At, Past, Goto, LocalsOK, Generator, FrameAtHand
  <1>3. CASE WorkerExit
    BY <1>3 DEF WorkerExit, At, Past, Goto, LocalsOK, Generator, FrameAtHand
  <1>4. CASE GenFence("worker")
    BY <1>4 DEF GenFence, At, Goto, LocalsOK, Generator, FrameAtHand
  <1>5. CASE GenDecide("worker")
    <2>1. haveHistory => work[1].frame >= 2
      <3>1. Len(jobs) \in Nat /\ Len(work) \in Nat \ {0} /\ real \in Nat
        BY <1>5, EmptySeq DEF QueuesOK, ScreenOK, GenDecide, At, FrameAtHand
      <3>2. Handing = 0 /\ Popped = 0 /\ Inlined = 0 /\ Shown \in {0, 1}
        BY <1>5 DEF GenDecide, At, Handing, Popped, Inlined, Shown, Quiet, FrameAtHand
      <3>3. work[1].frame = real - Shown + Len(jobs) + 1
        BY <3>1, <3>2 DEF OrderInv
      <3> QED
        BY <3>1, <3>2, <3>3 DEF HistInv
    <2>2. /\ UNCHANGED <<work, hook, jobs>> /\ gen'["app"] = gen["app"]
          /\ gen'["worker"] => haveHistory
      BY <1>5 DEF GenDecide, LocalsOK, Generator
    <2>3. pc'["worker"] = "submit" /\ pc'["app"] = pc["app"]
      BY <1>5 DEF GenDecide, At, Goto
    <2> QED
      BY <2>1, <2>2, <2>3
  <1>6. CASE GenSubmit("worker")
    BY <1>6 DEF GenSubmit, At, Goto, LocalsOK, Generator, FrameAtHand
  <1>7. CASE GenFailWorker
    BY <1>7 DEF GenFailWorker, At, Goto, LocalsOK, Generator, FrameAtHand
  <1>8. CASE WorkerPassOn
    BY <1>8 DEF WorkerPassOn, At, Goto, LocalsOK, Generator, FrameAtHand
  <1>9. CASE WorkerHandoff
    <2>1. \A i \in 1 .. Len(jobs') : jobs'[i].generate => jobs'[i].frame >= 2
      <3>1. /\ Len(jobs') = Len(jobs) + 1 /\ jobs'[Len(jobs) + 1].frame = work[1].frame
            /\ jobs'[Len(jobs) + 1].generate = gen["worker"]
            /\ \A i \in 1 .. Len(jobs) : jobs'[i] = jobs[i]
        BY <1>9, HandoffAppends
      <3>2. gen["worker"] => work[1].frame >= 2
        BY <1>9 DEF WorkerHandoff, Past, At
      <3>3. Len(jobs) \in Nat
        BY DEF QueuesOK
      <3> HIDE DEF TypeInv, TypeOK, PcOK, Thread
      <3> QED
        BY <3>1, <3>2, <3>3
    <2>2. UNCHANGED <<work, hook, gen>> /\ pc'["worker"] = "pop" /\ pc'["app"] = pc["app"]
      BY <1>9 DEF WorkerHandoff, Past, At, Goto
    <2> QED
      BY <2>1, <2>2
  <1>10. CASE WorkerPop
    BY <1>10 DEF WorkerPop, At, Goto, LocalsOK, Generator, FrameAtHand
  <1> QED
    BY <1>1, <1>2, <1>3, <1>4, <1>5, <1>6, <1>7, <1>8, <1>9, <1>10 DEF WorkerStep

LEMMA GenPresenter == TypeInv /\ LifeInv /\ Quiet /\ OrderInv /\ HistInv /\ GenInv /\ PresenterStep => GenInv'
  <1> SUFFICES ASSUME TypeInv /\ LifeInv /\ Quiet /\ OrderInv /\ HistInv /\ GenInv, PresenterStep PROVE GenInv'
    OBVIOUS
  <1> USE DEF TypeInv, TypeOK, PcOK, Thread, GenInv, hookVars, lifeVars, screenVars, localVars
  <1>1. CASE Wait("presenter")
    BY <1>1 DEF Wait, LocalsOK, Generator, FrameAtHand
  <1>2. CASE PresenterNext
    BY <1>2 DEF PresenterNext, At, Past, Goto, LocalsOK, Generator, FrameAtHand
  <1>3. CASE PresenterExit
    BY <1>3 DEF PresenterExit, At, Past, Goto, LocalsOK, Generator, FrameAtHand
  <1>4. CASE PresenterCompanion
    BY <1>4 DEF PresenterCompanion, At, Goto, LocalsOK, Generator, FrameAtHand
  <1>5. CASE PresenterPaced
    BY <1>5 DEF PresenterPaced, At, Goto, LocalsOK, Generator, FrameAtHand
  <1>6. CASE PresenterHeld
    BY <1>6 DEF PresenterHeld, At, Goto, LocalsOK, Generator, FrameAtHand
  <1>7. CASE PresenterReal
    BY <1>7 DEF PresenterReal, At, Goto, LocalsOK, Generator, FrameAtHand
  <1>8. CASE PresenterFinish
    <2>1. \A i \in 1 .. Len(jobs') : jobs'[i].generate => jobs'[i].frame >= 2
      <3>1. jobs # <<>> /\ jobs' = Tail(jobs)
        BY <1>8 DEF PresenterFinish, At, FrameAtHand
      <3>2. /\ Len(jobs) \in Nat \ {0} /\ Len(jobs') = Len(jobs) - 1
            /\ \A i \in 1 .. Len(jobs') : jobs'[i] = jobs[i + 1]
        BY <3>1, EmptySeq, HeadTailProperties DEF QueuesOK
      <3> HIDE DEF TypeInv, TypeOK, PcOK, Thread
      <3> TAKE i \in 1 .. Len(jobs')
      <3>3. i + 1 \in 1 .. Len(jobs) /\ jobs'[i] = jobs[i + 1]
        BY <3>2
      <3> QED
        BY <3>3
    <2>2. UNCHANGED <<work, hook, gen>> /\ pc'["worker"] = pc["worker"] /\ pc'["app"] = pc["app"]
      BY <1>8 DEF PresenterFinish, At, Goto
    <2> QED
      BY <2>1, <2>2
  <1> QED
    BY <1>1, <1>2, <1>3, <1>4, <1>5, <1>6, <1>7, <1>8 DEF PresenterStep

-----------------------------------------------------------------------------
(* All of them together. *)

LEMMA GoneStep == IInv /\ [Next]_vars => GoneInv'
  <1> SUFFICES ASSUME IInv, [Next]_vars PROVE GoneInv'
    OBVIOUS
  <1> USE DEF IInv, SafeInv, OrderParts, GoneInv
  <1>1. CASE AppCall
    BY <1>1 DEF AppCall, PresentThreaded, PresentInline, PresentUnfit, PresentDisabled,
                DeviceWaitIdle, DestroySwapchain, Present, slotVars, Goto, At, TypeInv,
                TypeOK, PcOK, Thread
  <1>2. CASE AppStep
    <2> USE DEF TypeInv, TypeOK, PcOK, Thread, slotVars, At, Past, Goto
    <2>1. CASE Free
      BY <2>1 DEF Free
    <2>2. CASE Wait("app")
      BY <2>2 DEF Wait
    <2>3. CASE PassThrough \/ HookReserve \/ AdapterSubmit \/ AdapterFail \/ Enqueue \/ Collect
      BY <2>3 DEF PassThrough, HookReserve, AdapterSubmit, AdapterFail, Enqueue, Collect
    <2>4. CASE WorkerDrained \/ PresenterDrained \/ DeviceIdle \/ StopWorker \/ JoinWorker
               \/ StopPresenter \/ JoinPresenter \/ Disable
      BY <2>4 DEF WorkerDrained, PresenterDrained, DeviceIdle, StopWorker, JoinWorker,
                  StopPresenter, JoinPresenter, Disable
    <2>5. CASE GenFence("app") \/ GenDecide("app") \/ GenSubmit("app") \/ GenFailInline
               \/ InlineCompanion \/ InlineReal
      BY <2>5 DEF GenFence, GenDecide, GenSubmit, GenFailInline, InlineCompanion, InlineReal
    <2> QED
      BY <1>2, <2>1, <2>2, <2>3, <2>4, <2>5 DEF AppStep
  <1>3. CASE WorkerStep
    <2>1. workerOn /\ pc["app"] # "gone"
      BY <1>3 DEF WorkerStep, Wait, WorkerTake, WorkerExit, GenFence, GenDecide, GenSubmit,
                  GenFailWorker, WorkerPassOn, WorkerHandoff, WorkerPop, At, Past, Running,
                  LifeInv
    <2>2. pc'["app"] = pc["app"]
      BY <1>3 DEF WorkerStep, Wait, WorkerTake, WorkerExit, GenFence, GenDecide, GenSubmit,
                  GenFailWorker, WorkerPassOn, WorkerHandoff, WorkerPop, Goto, TypeInv,
                  TypeOK, PcOK, Thread
    <2> QED
      BY <2>1, <2>2
  <1>4. CASE PresenterStep
    BY <1>4 DEF PresenterStep, Wait, PresenterNext, PresenterExit, PresenterCompanion,
                PresenterPaced, PresenterHeld, PresenterReal, PresenterFinish, slotVars,
                Goto, TypeInv, TypeOK, PcOK, Thread
  <1>5. CASE GpuComplete
    BY <1>5 DEF GpuComplete
  <1>6. CASE UNCHANGED vars
    BY <1>6 DEF vars, slotVars
  <1> QED
    BY <1>1, <1>2, <1>3, <1>4, <1>5, <1>6 DEF Next, Terminated

LEMMA OrderInit == Init => OrderParts
  <1> SUFFICES ASSUME Init PROVE OrderParts
    OBVIOUS
  <1>1. Quiet /\ CompInv /\ HistInv /\ GoneInv
    BY DEF Init, Quiet, CompInv, HistInv, GoneInv
  <1>2. OrderInv
    BY DEF Init, OrderInv, Shown, Popped, Held, HookHolds
  <1>3. GenInv
    BY DEF Init, GenInv
  <1> QED
    BY <1>1, <1>2, <1>3 DEF OrderParts

LEMMA OrderUnchanged ==
  ASSUME IInv,
         UNCHANGED <<pc, hookVars, work, jobs, lifeVars, haveHistory, gen, screenVars>>
  PROVE  Quiet' /\ CompInv' /\ OrderInv' /\ HistInv' /\ GenInv'
  <1> USE DEF IInv, OrderParts, hookVars, lifeVars, screenVars
  <1>1. Quiet' /\ CompInv' /\ GenInv'
    BY DEF Quiet, CompInv, GenInv
  <1>2. /\ Shown' = Shown /\ Popped' = Popped /\ Held' = Held /\ HookHolds' = HookHolds
        /\ Handing' = Handing /\ Inlined' = Inlined
    BY DEF Shown, Popped, Held, HookHolds, Handing, Inlined
  <1>3. OrderInv' /\ HistInv'
    BY <1>2 DEF OrderInv, HistInv
  <1> QED
    BY <1>1, <1>3

LEMMA Inductive == IInv /\ [Next]_vars => IInv'
  <1> SUFFICES ASSUME IInv, [Next]_vars PROVE IInv'
    OBVIOUS
  <1>1. SafeInv'
    BY SafeStep DEF IInv
  <1>2. GoneInv'
    BY GoneStep
  <1>3. Quiet' /\ CompInv' /\ OrderInv' /\ HistInv' /\ GenInv'
    <2> USE DEF IInv, SafeInv, OrderParts
    <2>1. CASE AppCall
      BY <2>1, QuietAppCall, CompAppCall, OrderAppCall, HistAppCall, GenAppCall
    <2>2. CASE AppStep
      BY <2>2, QuietAppStep, CompAppStep, OrderAppStep, HistAppStep, GenAppStep
    <2>3. CASE WorkerStep
      BY <2>3, QuietWorker, CompWorker, OrderWorker, HistWorker, GenWorker
    <2>4. CASE PresenterStep
      BY <2>4, QuietPresenter, CompPresenter, OrderPresenter, HistPresenter, GenPresenter
    <2>5. CASE GpuComplete
      BY <2>5, OrderUnchanged DEF GpuComplete, localVars
    <2>6. CASE UNCHANGED vars
      BY <2>6, OrderUnchanged DEF vars, slotVars, localVars
    <2> QED
      BY <2>1, <2>2, <2>3, <2>4, <2>5, <2>6 DEF Next, Terminated
  <1> QED
    BY <1>1, <1>2, <1>3 DEF IInv, OrderParts

\* The frames' places, in order, for ever.
THEOREM OrderInvariant == Spec => []IInv
  <1>1. Init => IInv
    BY SafeInit, OrderInit DEF IInv
  <1> QED
    BY <1>1, Inductive, PTL DEF Spec

\* Inline generation never runs beside the work thread or queued frames: the
\* drains in front of it are enough.
THEOREM InlineAlone == Spec => []InlineRunsAlone
  <1>1. ASSUME IInv PROVE InlineRunsAlone
    <2> SUFFICES ASSUME pc["app"] \in {"fence", "decide", "submit", "inlineCompanion", "inlineReal"}
                 PROVE  ~WorkerBusy /\ work = <<>> /\ jobs = <<>> /\ pc["presenter"] \in {"next", "exited"} /\ real = hook.frame - 1
      BY DEF InlineRunsAlone
    <2>1. work = <<>> /\ jobs = <<>>
      BY <1>1 DEF IInv, SafeInv, OrderParts, Quiet
    <2>2. pc["worker"] \in {"take", "exited"} /\ pc["presenter"] \in {"next", "exited"}
      BY <1>1, <2>1 DEF IInv, SafeInv, OrderParts, TypeInv, TypeOK, PcOK, FrameAtHand,
                        WorkerPC, PresenterPC
    <2>3. Shown = 0 /\ Popped = 0 /\ Held = 1 /\ hook.frame = given
      BY <1>1, <2>2 DEF Shown, Popped, Held, HookHolds, IInv, SafeInv, OrderParts, OrderInv
    <2>4. real = hook.frame - 1
      BY <1>1, <2>1, <2>3, EmptySeq DEF IInv, SafeInv, OrderParts, OrderInv, TypeInv,
                                        TypeOK, ScreenOK
    <2> QED
      BY <2>1, <2>2, <2>4 DEF WorkerBusy
  <1> QED
    BY <1>1, OrderInvariant, PTL

\* After the teardown both threads are joined, both queues empty and every frame
\* the application presented was shown.
THEOREM FreedQuiet == Spec => []FreedIsQuiet
  <1>1. ASSUME IInv PROVE FreedIsQuiet
    <2> SUFFICES ASSUME pc["app"] = "gone"
                 PROVE  ~workerOn /\ ~presenterOn /\ work = <<>> /\ jobs = <<>> /\ inFlight = 0
                        /\ real = given /\ (Async => gpu = <<>>)
      BY DEF FreedIsQuiet
    <2>1. ~workerOn /\ ~presenterOn /\ work = <<>> /\ jobs = <<>>
      BY <1>1 DEF IInv, SafeInv, OrderParts, Quiet, LifeInv
    <2>2. pc["worker"] \in {"take", "exited"} /\ pc["presenter"] \in {"next", "exited"}
      BY <1>1, <2>1 DEF IInv, SafeInv, OrderParts, TypeInv, TypeOK, PcOK, FrameAtHand,
                        WorkerPC, PresenterPC
    <2>3. Shown = 0 /\ Popped = 0 /\ Held = 0
      BY <1>1, <2>2 DEF Shown, Popped, Held, HookHolds
    <2>4. real = given
      BY <1>1, <2>1, <2>3, EmptySeq DEF IInv, SafeInv, OrderParts, OrderInv, TypeInv,
                                        TypeOK, ScreenOK
    <2>5. inFlight = 0
      BY <1>1, <2>1, <2>2, EmptySeq DEF IInv, SafeInv, OrderParts, InFlightExact
    <2>6. Async => gpu = <<>>
      BY <1>1 DEF IInv, SafeInv, OrderParts, GoneInv
    <2> QED
      BY <2>1, <2>4, <2>5, <2>6
  <1> QED
    BY <1>1, OrderInvariant, PTL

-----------------------------------------------------------------------------
(* The abstract stream. *)

\* The presentation thread's frame is the next one the screen waits for.
LEMMA NextOfJobs ==
  ASSUME IInv, pc["presenter"] \in {"companion", "pace", "hold", "real"}
  PROVE  Head(jobs).frame = real + 1 /\ real < given /\ jobs # <<>>
  <1>1. Len(jobs) \in Nat \ {0} /\ Len(work) \in Nat /\ real \in Nat
    BY EmptySeq DEF IInv, SafeInv, OrderParts, TypeInv, TypeOK, QueuesOK, ScreenOK,
                    FrameAtHand
  <1>2. Shown = 0 /\ Popped \in {0, 1} /\ Held \in {0, 1} /\ (Popped = 1 => work # <<>>)
    BY DEF Shown, Popped, Held, IInv, SafeInv, OrderParts, TypeInv, FrameAtHand
  <1>3. work # <<>> => Len(work) # 0
    BY EmptySeq DEF IInv, SafeInv, OrderParts, TypeInv, TypeOK, QueuesOK
  <1>4. jobs[1].frame = real + 1
    BY <1>1, <1>2 DEF IInv, SafeInv, OrderParts, OrderInv
  <1>5. given = real - Shown + Len(jobs) + Len(work) - Popped + Held
    BY DEF IInv, SafeInv, OrderParts, OrderInv
  <1>6. given > real
    BY <1>1, <1>2, <1>3, <1>5
  <1> QED
    BY <1>1, <1>4, <1>6, EmptySeq DEF IInv, SafeInv, OrderParts, TypeInv, FrameAtHand

\* So is the present call's own where it shows it itself.
LEMMA NextOfHook ==
  ASSUME IInv, pc["app"] \in {"inlineCompanion", "inlineReal", "pass"}
  PROVE  hook.frame = real + 1 /\ given = real + 1 /\ jobs = <<>> /\ work = <<>>
  <1>1. jobs = <<>> /\ work = <<>>
    BY DEF IInv, SafeInv, OrderParts, Quiet, LifeInv
  <1>2. Shown = 0 /\ Popped = 0 /\ Held = 1 /\ hook.frame = given
    BY <1>1 DEF Shown, Popped, Held, HookHolds, IInv, SafeInv, OrderParts, TypeInv,
                FrameAtHand, OrderInv
  <1>3. given = real + 1
    BY <1>1, <1>2, EmptySeq DEF IInv, SafeInv, OrderParts, OrderInv, TypeInv, TypeOK,
                                ScreenOK
  <1> QED
    BY <1>1, <1>2, <1>3

LEMMA StepRefines == IInv /\ [Next]_vars => [Stream!Next]_(Stream!vars)
  <1> SUFFICES ASSUME IInv, [Next]_vars PROVE [Stream!Next]_(Stream!vars)
    OBVIOUS
  <1> USE DEF Stream!Next, Stream!vars, screenVars, hookVars
  <1>1. CASE AppCall
    <2>1. CASE PresentThreaded \/ PresentInline \/ PresentUnfit \/ PresentDisabled
      BY <2>1 DEF PresentThreaded, PresentInline, PresentUnfit, PresentDisabled, Present,
                  Stream!Give
    <2>2. CASE DeviceWaitIdle \/ DestroySwapchain
      BY <2>2 DEF DeviceWaitIdle, DestroySwapchain
    <2> QED
      BY <1>1, <2>1, <2>2 DEF AppCall
  <1>2. CASE AppStep
    <2>1. CASE PassThrough
      <3>1. hook.frame = real + 1 /\ given = real + 1 /\ real \in Nat
        BY <2>1, NextOfHook DEF PassThrough, At, IInv, SafeInv, OrderParts, TypeInv, TypeOK,
                                ScreenOK
      <3> QED
        BY <2>1, <3>1 DEF PassThrough, Stream!ShowReal
    <2>2. CASE InlineReal
      <3>1. hook.frame = real + 1 /\ given = real + 1 /\ real \in Nat
        BY <2>2, NextOfHook DEF InlineReal, At, IInv, SafeInv, OrderParts, TypeInv, TypeOK,
                                ScreenOK
      <3> QED
        BY <2>2, <3>1 DEF InlineReal, Stream!ShowReal
    <2>3. CASE InlineCompanion
      <3>1. hook.frame = real + 1 /\ given = real + 1 /\ real \in Nat /\ jobs = <<>>
        BY <2>3, NextOfHook DEF InlineCompanion, At, IInv, SafeInv, OrderParts, TypeInv,
                                TypeOK, ScreenOK
      <3>2. hook.frame >= 2
        BY <2>3 DEF InlineCompanion, At, IInv, SafeInv, OrderParts, GenInv
      <3>3. ~comp
        BY <2>3, <3>1 DEF InlineCompanion, At, IInv, SafeInv, OrderParts, CompInv, TypeInv,
                          FrameAtHand
      <3>4. 0 < real /\ real < given
        BY <3>1, <3>2
      <3> QED
        BY <2>3, <3>3, <3>4 DEF InlineCompanion, Stream!ShowCompanion
    <2>4. CASE Wait("app") \/ HookReserve \/ AdapterSubmit \/ AdapterFail \/ Enqueue \/ Collect
      BY <2>4 DEF Wait, HookReserve, AdapterSubmit, AdapterFail, Enqueue, Collect
    <2>5. CASE WorkerDrained \/ PresenterDrained \/ DeviceIdle \/ StopWorker \/ JoinWorker
               \/ StopPresenter \/ JoinPresenter \/ Disable \/ Free
      BY <2>5 DEF WorkerDrained, PresenterDrained, DeviceIdle, StopWorker, JoinWorker,
                  StopPresenter, JoinPresenter, Disable, Free
    <2>6. CASE GenFence("app") \/ GenDecide("app") \/ GenSubmit("app") \/ GenFailInline
      BY <2>6 DEF GenFence, GenDecide, GenSubmit, GenFailInline
    <2> QED
      BY <1>2, <2>1, <2>2, <2>3, <2>4, <2>5, <2>6 DEF AppStep
  <1>3. CASE WorkerStep
    BY <1>3 DEF WorkerStep, Wait, WorkerTake, WorkerExit, GenFence, GenDecide, GenSubmit,
                GenFailWorker, WorkerPassOn, WorkerHandoff, WorkerPop
  <1>4. CASE PresenterStep
    <2>1. CASE PresenterReal
      <3>1. Head(jobs).frame = real + 1 /\ real < given
        BY <2>1, NextOfJobs DEF PresenterReal, At
      <3> QED
        BY <2>1, <3>1 DEF PresenterReal, Stream!ShowReal
    <2>2. CASE PresenterCompanion
      <3>1. Head(jobs).frame = real + 1 /\ real < given /\ jobs # <<>>
        BY <2>2, NextOfJobs DEF PresenterCompanion, At
      <3>2. real \in Nat /\ Len(jobs) \in Nat \ {0}
        BY <3>1, EmptySeq DEF IInv, SafeInv, OrderParts, TypeInv, TypeOK, ScreenOK, QueuesOK
      <3>3. Head(jobs).generate
        BY <2>2 DEF PresenterCompanion, At, IInv, SafeInv, OrderParts, CompInv
      <3>4. Head(jobs).frame >= 2
        BY <3>2, <3>3 DEF IInv, SafeInv, OrderParts, GenInv
      <3>5. ~comp
        BY <2>2, <3>1 DEF PresenterCompanion, At, IInv, SafeInv, OrderParts, CompInv, Quiet
      <3>6. 0 < real
        BY <3>1, <3>2, <3>4
      <3> QED
        BY <2>2, <3>1, <3>5, <3>6 DEF PresenterCompanion, Stream!ShowCompanion
    <2>3. CASE Wait("presenter") \/ PresenterNext \/ PresenterExit \/ PresenterPaced
               \/ PresenterHeld \/ PresenterFinish
      BY <2>3 DEF Wait, PresenterNext, PresenterExit, PresenterPaced, PresenterHeld,
                  PresenterFinish
    <2> QED
      BY <1>4, <2>1, <2>2, <2>3 DEF PresenterStep
  <1>5. CASE GpuComplete
    BY <1>5 DEF GpuComplete
  <1>6. CASE UNCHANGED vars
    BY <1>6 DEF vars
  <1> QED
    BY <1>1, <1>2, <1>3, <1>4, <1>5, <1>6 DEF Next, Terminated

\* The pipeline implements the abstract frame stream: whatever the threads, the
\* failures and the drains do, the viewer sees each frame once and in order.
THEOREM PipelineImplementsStream == Spec => StreamSafety
  <1>1. Init => Stream!Init
    BY DEF Init, Stream!Init
  <1> QED
    BY <1>1, StepRefines, OrderInvariant, PTL DEF Spec, StreamSafety, Stream!Safety
=============================================================================
