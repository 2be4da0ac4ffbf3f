-------------------------- MODULE SpareImageProofs --------------------------
(***************************************************************************)
(* Theorems about SpareImage (its types, the swapchain lock, the spare's   *)
(* fence, the uses of each image), for every number of images and every    *)
(* budget.                                                                 *)
(***************************************************************************)
EXTENDS SpareImage, SequenceTheorems, FiniteSetTheorems, TLAPS

\* TypeOK in parts, one for each group of variables the actions leave alone.
PcOK ==
    /\ pc \in [Thread -> AppPC \union WorkerPC \union PresenterPC]
    /\ pc["app"] \in AppPC /\ pc["worker"] \in WorkerPC
    /\ pc["presenter"] \in PresenterPC
LockOK == wsi \in [Thread -> {"out", "turn", "in"}]
AppOK ==
    /\ {genEnabled, forever} \subseteq BOOLEAN
    /\ held \subseteq Image /\ direct \in Image \union {None}
EngineOK == free \subseteq Image /\ shown \subseteq Image
SpareOK ==
    /\ spareValid \in BOOLEAN /\ spareImage \in Image \union {None}
    /\ fence \in {"unsignalled", "pending", "signalled"}
TakeOK == left \in 0 .. Budget /\ {spare, companion} \subseteq Image \union {None}
QueueOK == work \in Seq(Image) /\ jobs \in Seq(Job)
FailOK == workerFailed \in BOOLEAN /\ lost \subseteq Image

\* Where a thread works on a frame, the frame is there; a companion is presented
\* only when the frame has one; a present of the driver's own has an image.
AtHand ==
    /\ pc["worker"] # "take" => work # <<>>
    /\ pc["presenter"] # "next" => jobs # <<>>
    /\ pc["presenter"] = "companion" => Head(jobs).companion # None
    /\ pc["app"] = "direct" => direct # None

TypeInv ==
    PcOK /\ LockOK /\ AppOK /\ EngineOK /\ SpareOK /\ TakeOK /\ QueueOK /\ FailOK /\ AtHand

LEMMA TypeParts == TypeInv => TypeOK
  BY DEF TypeInv, TypeOK, PcOK, LockOK, AppOK, EngineOK, SpareOK, TakeOK, QueueOK, FailOK

-----------------------------------------------------------------------------
(* What the steps work on. *)

LEMMA NextFrame ==
  ASSUME TypeInv, pc["worker"] # "take"
  PROVE  work # <<>> /\ Head(work) \in Image /\ Tail(work) \in Seq(Image)
  <1>1. work \in Seq(Image) /\ work # <<>>
    BY DEF TypeInv, QueueOK, AtHand
  <1> QED
    BY <1>1, HeadTailProperties

LEMMA NextJob ==
  ASSUME TypeInv, pc["presenter"] # "next"
  PROVE  /\ Head(jobs) \in Job /\ Head(jobs).real \in Image
         /\ Head(jobs).companion \in Image \union {None}
         /\ Tail(jobs) \in Seq(Job)
  <1>1. jobs \in Seq(Job) /\ jobs # <<>>
    BY DEF TypeInv, QueueOK, AtHand
  <1>2. Head(jobs) \in Job
    BY <1>1, HeadTailProperties
  <1> QED
    BY <1>1, <1>2, HeadTailProperties DEF Job

\* A frame queued behind others is no new head, and no queue becomes empty.
LEMMA QueueGrows ==
  ASSUME NEW S, NEW q \in Seq(S), NEW x \in S
  PROVE  /\ Append(q, x) \in Seq(S) /\ Append(q, x) # <<>>
         /\ q # <<>> => Head(Append(q, x)) = Head(q)
  BY AppendProperties, HeadTailProperties, SMT

LEMMA RefillOK ==
  ASSUME SpareOK, EngineOK, Refill
  PROVE  SpareOK' /\ free' \subseteq Image
  BY DEF SpareOK, EngineOK, Refill, Dealt, spareVars

LEMMA GotoOK ==
  ASSUME PcOK, NEW t \in Thread, NEW label, Goto(t, label),
         /\ t = "app" => label \in AppPC
         /\ t = "worker" => label \in WorkerPC
         /\ t = "presenter" => label \in PresenterPC
  PROVE  PcOK' /\ pc'[t] = label /\ \A u \in Thread \ {t} : pc'[u] = pc[u]
  <1>1. pc' = [pc EXCEPT ![t] = label] /\ label \in AppPC \union WorkerPC \union PresenterPC
    BY DEF Goto, Thread
  <1>2. pc' \in [Thread -> AppPC \union WorkerPC \union PresenterPC]
    BY <1>1 DEF PcOK
  <1>3. pc'[t] = label /\ \A u \in Thread \ {t} : pc'[u] = pc[u]
    BY <1>1 DEF PcOK
  <1> QED
    BY <1>2, <1>3 DEF PcOK, Thread

LEMMA GiveOK ==
  ASSUME LockOK, NEW t \in Thread, Give(t)
  PROVE  LockOK' /\ wsi'[t] = "out" /\ \A u \in Thread \ {t} : wsi'[u] = wsi[u]
  BY DEF LockOK, Give

LEMMA TypeInit == Init => TypeInv
  <1> SUFFICES ASSUME Init PROVE TypeInv
    OBVIOUS
  <1> USE DEF Init
  <1>1. PcOK /\ LockOK
    BY DEF PcOK, LockOK, Thread, AppPC, WorkerPC, PresenterPC
  <1>2. AppOK /\ EngineOK /\ SpareOK /\ FailOK
    BY DEF AppOK, EngineOK, SpareOK, FailOK
  <1>3. TakeOK
    BY BudgetAssumption DEF TakeOK
  <1>4. QueueOK
    BY EmptySeq DEF QueueOK
  <1>5. AtHand
    BY DEF AtHand
  <1> QED
    BY <1>1, <1>2, <1>3, <1>4, <1>5 DEF TypeInv

-----------------------------------------------------------------------------
(* The type invariant: steps of the lock, of the threads, of the engine. *)

LEMMA TypeLock ==
  ASSUME TypeInv, NEW t \in Thread, TakeTurn(t) \/ TakeLock(t)
  PROVE  TypeInv'
  <1>1. LockOK' /\ UNCHANGED <<pc, appVars, engineVars, spareVars, takeVars, queueVars, failVars>>
    BY DEF TakeTurn, TakeLock, TypeInv, LockOK
  <1> QED
    BY <1>1 DEF TypeInv, PcOK, AppOK, EngineOK, SpareOK, TakeOK, QueueOK, FailOK, AtHand,
                appVars, engineVars, spareVars, takeVars, queueVars, failVars

LEMMA TypeApp ==
  ASSUME TypeInv, AppChoice \/ AppStep
  PROVE  TypeInv'
  <1> USE DEF TypeInv
  <1>1. CASE Acquire
    <2>1. PcOK' /\ pc'["app"] \in {"acquire", "plain"} /\ pc'["worker"] = pc["worker"]
          /\ pc'["presenter"] = pc["presenter"]
      BY <1>1, GotoOK, SMT DEF Acquire, Thread, AppPC
    <2> QED
      BY <1>1, <2>1 DEF Acquire, LockOK, AppOK, EngineOK, SpareOK, TakeOK, QueueOK, FailOK,
                        AtHand, engineVars, spareVars, takeVars, queueVars, failVars
  <1>2. CASE AcquireSlice
    <2>1. LockOK'
      BY <1>2, GiveOK DEF AcquireSlice, Thread
    <2>2. PcOK' /\ pc'["app"] \in {"acquire", "idle"} /\ pc'["worker"] = pc["worker"]
          /\ pc'["presenter"] = pc["presenter"]
      BY <1>2, GotoOK, SMT
      DEF AcquireSlice, Inside, Acquired, NotAcquired, SliceOver, Thread, AppPC, PcOK
    <2>3. AppOK' /\ EngineOK'
      BY <1>2 DEF AcquireSlice, Acquired, NotAcquired, SliceOver, Dealt, AppOK, EngineOK
    <2> QED
      BY <1>2, <2>1, <2>2, <2>3
      DEF AcquireSlice, SpareOK, TakeOK, QueueOK, FailOK, AtHand,
          spareVars, takeVars, queueVars, failVars
  <1>3. CASE AcquirePlain
    <2>1. PcOK' /\ pc'["app"] = "idle" /\ pc'["worker"] = pc["worker"]
          /\ pc'["presenter"] = pc["presenter"]
      BY <1>3, GotoOK, SMT DEF AcquirePlain, Acquired, NotAcquired, Thread, AppPC
    <2>2. AppOK' /\ EngineOK'
      BY <1>3 DEF AcquirePlain, Acquired, NotAcquired, Dealt, AppOK, EngineOK
    <2> QED
      BY <1>3, <2>1, <2>2
      DEF AcquirePlain, LockOK, SpareOK, TakeOK, QueueOK, FailOK, AtHand,
          spareVars, takeVars, queueVars, failVars
  <1>4. CASE Present
    <2>1. PcOK' /\ pc'["app"] \in {"idle", "stop"} /\ pc'["worker"] = pc["worker"]
          /\ pc'["presenter"] = pc["presenter"]
      BY <1>4, GotoOK, SMT DEF Present, Thread, AppPC
    <2>2. PICK i \in held : held' = held \ {i} /\ work' = Append(work, i)
      BY <1>4 DEF Present
    <2>3. i \in Image /\ work \in Seq(Image) /\ held' \subseteq Image
      BY <2>2 DEF AppOK, QueueOK
    <2>4. work' \in Seq(Image) /\ work' # <<>>
      BY <2>2, <2>3, QueueGrows
    <2> QED
      BY <1>4, <2>1, <2>3, <2>4
      DEF Present, LockOK, AppOK, EngineOK, SpareOK, TakeOK, QueueOK, FailOK, AtHand,
          engineVars, spareVars, takeVars, failVars
  <1>5. CASE Disable
    <2>1. PcOK' /\ pc'["app"] = "idle" /\ pc'["worker"] = pc["worker"]
          /\ pc'["presenter"] = pc["presenter"]
      BY <1>5, GotoOK, SMT DEF Disable, Thread, AppPC
    <2> QED
      BY <1>5, <2>1
      DEF Disable, LockOK, AppOK, EngineOK, SpareOK, TakeOK, QueueOK, FailOK, AtHand,
          engineVars, spareVars, takeVars, queueVars, failVars
  <1>6. CASE PresentDirect
    <2>1. PcOK' /\ pc'["app"] = "direct" /\ pc'["worker"] = pc["worker"]
          /\ pc'["presenter"] = pc["presenter"]
      BY <1>6, GotoOK, SMT DEF PresentDirect, Thread, AppPC
    <2>2. AppOK' /\ direct' # None
      BY <1>6 DEF PresentDirect, AppOK, Image, None
    <2> QED
      BY <1>6, <2>1, <2>2
      DEF PresentDirect, LockOK, EngineOK, SpareOK, TakeOK, QueueOK, FailOK, AtHand,
          engineVars, spareVars, takeVars, queueVars, failVars
  <1>7. CASE DirectDone
    <2>1. PcOK' /\ pc'["app"] = "idle" /\ pc'["worker"] = pc["worker"]
          /\ pc'["presenter"] = pc["presenter"]
      BY <1>7, GotoOK, SMT DEF DirectDone, Thread, AppPC
    <2>2. AppOK' /\ EngineOK'
      BY <1>7 DEF DirectDone, AppOK, EngineOK, AtHand
    <2> QED
      BY <1>7, <2>1, <2>2
      DEF DirectDone, LockOK, SpareOK, TakeOK, QueueOK, FailOK, AtHand,
          spareVars, takeVars, queueVars, failVars
  <1> QED
    BY <1>1, <1>2, <1>3, <1>4, <1>5, <1>6, <1>7 DEF AppChoice, AppStep

LEMMA TypeWorker ==
  ASSUME TypeInv, WorkerStep
  PROVE  TypeInv'
  <1> USE DEF TypeInv
  <1>1. CASE WorkerTake
    <2>1. PcOK' /\ pc'["presenter"] = pc["presenter"] /\ pc'["app"] = pc["app"]
      BY <1>1, GotoOK, SMT DEF WorkerTake, Thread, WorkerPC
    <2>2. TakeOK'
      BY <1>1, BudgetAssumption DEF WorkerTake, TakeOK
    <2> QED
      BY <1>1, <2>1, <2>2
      DEF WorkerTake, LockOK, AppOK, EngineOK, SpareOK, QueueOK, FailOK, AtHand,
          appVars, engineVars, spareVars, queueVars, failVars
  <1>2. CASE SpareSlice
    <2>1. LockOK'
      BY <1>2, GiveOK DEF SpareSlice, Thread
    <2>2. PcOK' /\ pc'["presenter"] = pc["presenter"] /\ pc'["app"] = pc["app"]
      BY <1>2, GotoOK, SMT DEF SpareSlice, Inside, Thread, WorkerPC, PcOK
    <2>3. SpareOK' /\ free' \subseteq Image
      BY <1>2, RefillOK DEF SpareSlice
    <2>4. TakeOK'
      BY <1>2, <2>3, BudgetAssumption DEF SpareSlice, TakeOK, SpareOK
    <2>5. work # <<>>
      BY <1>2 DEF SpareSlice, Inside, AtHand
    <2> QED
      BY <1>2, <2>1, <2>2, <2>3, <2>4, <2>5
      DEF SpareSlice, AppOK, EngineOK, QueueOK, FailOK, AtHand, appVars, queueVars, failVars
  <1>3. CASE FenceWait
    <2>1. PcOK' /\ pc'["presenter"] = pc["presenter"] /\ pc'["app"] = pc["app"]
      BY <1>3, GotoOK, SMT DEF FenceWait, Thread, WorkerPC
    <2>2. TakeOK' /\ work # <<>>
      BY <1>3 DEF FenceWait, TakeOK, AtHand
    <2> QED
      BY <1>3, <2>1, <2>2
      DEF FenceWait, LockOK, AppOK, EngineOK, SpareOK, QueueOK, FailOK, AtHand,
          appVars, engineVars, spareVars, queueVars, failVars
  <1>4. CASE FenceReset
    <2>1. PcOK' /\ pc'["presenter"] = pc["presenter"] /\ pc'["app"] = pc["app"]
      BY <1>4, GotoOK, SMT DEF FenceReset, Thread, WorkerPC
    <2>2. SpareOK' /\ work # <<>>
      BY <1>4 DEF FenceReset, SpareOK, AtHand
    <2> QED
      BY <1>4, <2>1, <2>2
      DEF FenceReset, LockOK, AppOK, EngineOK, TakeOK, QueueOK, FailOK, AtHand,
          appVars, engineVars, takeVars, queueVars, failVars
  <1>5. CASE SpareDrop
    <2>1. LockOK'
      BY <1>5, GiveOK DEF SpareDrop, Thread
    <2>2. PcOK' /\ pc'["presenter"] = pc["presenter"] /\ pc'["app"] = pc["app"]
      BY <1>5, GotoOK, SMT DEF SpareDrop, Thread, WorkerPC
    <2>3. SpareOK' /\ TakeOK' /\ work # <<>>
      BY <1>5 DEF SpareDrop, Inside, SpareOK, TakeOK, AtHand
    <2> QED
      BY <1>5, <2>1, <2>2, <2>3
      DEF SpareDrop, AppOK, EngineOK, QueueOK, FailOK, AtHand,
          appVars, engineVars, queueVars, failVars
  <1>6. CASE SubmitFrame
    <2>1. PcOK' /\ pc'["presenter"] = pc["presenter"] /\ pc'["app"] = pc["app"]
      BY <1>6, GotoOK, SMT DEF SubmitFrame, Thread, WorkerPC
    <2>2. TakeOK' /\ FailOK' /\ work # <<>>
      BY <1>6 DEF SubmitFrame, TakeOK, FailOK, failVars, AtHand
    <2> QED
      BY <1>6, <2>1, <2>2
      DEF SubmitFrame, LockOK, AppOK, EngineOK, SpareOK, QueueOK, AtHand,
          appVars, engineVars, spareVars, queueVars
  <1>7. CASE Handoff
    <2>1. PcOK' /\ pc'["worker"] = "take"
          /\ pc'["presenter"] = pc["presenter"] /\ pc'["app"] = pc["app"]
      BY <1>7, GotoOK, SMT DEF Handoff, Thread, WorkerPC
    <2>2. Head(work) \in Image /\ work' \in Seq(Image)
      BY <1>7, NextFrame DEF Handoff
    <2>3. [real |-> Head(work), companion |-> companion] \in Job
      BY <2>2 DEF Job, TakeOK
    <2>4. jobs' \in Seq(Job) /\ jobs' # <<>> /\ (jobs # <<>> => Head(jobs') = Head(jobs))
      BY <1>7, <2>3, QueueGrows DEF Handoff, QueueOK
    <2>5. TakeOK'
      BY <1>7 DEF Handoff, TakeOK
    <2> QED
      BY <1>7, <2>1, <2>2, <2>4, <2>5
      DEF Handoff, LockOK, AppOK, EngineOK, SpareOK, QueueOK, FailOK, AtHand,
          appVars, engineVars, spareVars, failVars
  <1> QED
    BY <1>1, <1>2, <1>3, <1>4, <1>5, <1>6, <1>7 DEF WorkerStep

LEMMA TypePresenter ==
  ASSUME TypeInv, PresenterStep
  PROVE  TypeInv'
  <1> USE DEF TypeInv
  <1>1. CASE JobTaken
    <2>1. /\ PcOK' /\ pc'["worker"] = pc["worker"] /\ pc'["app"] = pc["app"]
          /\ pc'["presenter"] = IF Head(jobs).companion # None THEN "companion" ELSE "real"
      BY <1>1, GotoOK, SMT DEF JobTaken, Thread, PresenterPC
    <2> QED
      BY <1>1, <2>1
      DEF JobTaken, LockOK, AppOK, EngineOK, SpareOK, TakeOK, QueueOK, FailOK, AtHand,
          appVars, engineVars, spareVars, takeVars, queueVars, failVars
  <1>2. CASE PresentCompanion
    <2>1. LockOK'
      BY <1>2, GiveOK DEF PresentCompanion, Thread
    <2>2. /\ PcOK' /\ pc'["worker"] = pc["worker"] /\ pc'["app"] = pc["app"]
          /\ pc'["presenter"] = "real"
      BY <1>2, GotoOK, SMT DEF PresentCompanion, Thread, PresenterPC
    <2>3. Head(jobs).companion \in Image /\ jobs # <<>>
      BY <1>2, NextJob DEF PresentCompanion, Inside, AtHand
    <2>4. EngineOK'
      BY <1>2, <2>3 DEF PresentCompanion, EngineOK
    <2> QED
      BY <1>2, <2>1, <2>2, <2>3, <2>4
      DEF PresentCompanion, AppOK, SpareOK, TakeOK, QueueOK, FailOK, AtHand,
          appVars, spareVars, takeVars, queueVars, failVars
  <1>3. CASE PresentReal
    <2>1. LockOK'
      BY <1>3, GiveOK DEF PresentReal, Thread
    <2>2. /\ PcOK' /\ pc'["worker"] = pc["worker"] /\ pc'["app"] = pc["app"]
          /\ pc'["presenter"] = "refill"
      BY <1>3, GotoOK, SMT DEF PresentReal, Thread, PresenterPC
    <2>3. Head(jobs).real \in Image /\ jobs # <<>>
      BY <1>3, NextJob DEF PresentReal, Inside, AtHand
    <2>4. EngineOK'
      BY <1>3, <2>3 DEF PresentReal, EngineOK
    <2> QED
      BY <1>3, <2>1, <2>2, <2>3, <2>4
      DEF PresentReal, AppOK, SpareOK, TakeOK, QueueOK, FailOK, AtHand,
          appVars, spareVars, takeVars, queueVars, failVars
  <1>4. CASE LineUpSpare
    <2>1. LockOK'
      BY <1>4, GiveOK DEF LineUpSpare, Thread
    <2>2. /\ PcOK' /\ pc'["worker"] = pc["worker"] /\ pc'["app"] = pc["app"]
          /\ pc'["presenter"] = "finish"
      BY <1>4, GotoOK, SMT DEF LineUpSpare, Thread, PresenterPC
    <2>3. SpareOK' /\ EngineOK'
      BY <1>4, RefillOK DEF LineUpSpare, EngineOK
    <2>4. jobs # <<>>
      BY <1>4 DEF LineUpSpare, Inside, AtHand
    <2> QED
      BY <1>4, <2>1, <2>2, <2>3, <2>4
      DEF LineUpSpare, AppOK, TakeOK, QueueOK, FailOK, AtHand,
          appVars, takeVars, queueVars, failVars
  <1>5. CASE JobFinished
    <2>1. /\ PcOK' /\ pc'["worker"] = pc["worker"] /\ pc'["app"] = pc["app"]
          /\ pc'["presenter"] = "next"
      BY <1>5, GotoOK, SMT DEF JobFinished, Thread, PresenterPC
    <2>2. QueueOK'
      BY <1>5, NextJob DEF JobFinished, QueueOK
    <2> QED
      BY <1>5, <2>1, <2>2
      DEF JobFinished, LockOK, AppOK, EngineOK, SpareOK, TakeOK, FailOK, AtHand,
          appVars, engineVars, spareVars, takeVars, failVars
  <1> QED
    BY <1>1, <1>2, <1>3, <1>4, <1>5 DEF PresenterStep

LEMMA TypeEngine ==
  ASSUME TypeInv, Release \/ SignalFence
  PROVE  TypeInv'
  <1>1. EngineOK' /\ SpareOK'
    BY DEF TypeInv, Release, SignalFence, Dealt, EngineOK, SpareOK, engineVars, spareVars
  <1>2. UNCHANGED <<pc, wsi, appVars, takeVars, queueVars, failVars>>
    BY DEF Release, SignalFence
  <1> QED
    BY <1>1, <1>2
    DEF TypeInv, PcOK, LockOK, AppOK, TakeOK, QueueOK, FailOK, AtHand,
        appVars, takeVars, queueVars, failVars

LEMMA TypeStep == TypeInv /\ [Next]_vars => TypeInv'
  <1> SUFFICES ASSUME TypeInv, [Next]_vars PROVE TypeInv'
    OBVIOUS
  <1>1. CASE UNCHANGED vars
    BY <1>1 DEF vars, TypeInv, PcOK, LockOK, AppOK, EngineOK, SpareOK, TakeOK, QueueOK, FailOK,
                AtHand, appVars, engineVars, spareVars, takeVars, queueVars, failVars
  <1> QED
    BY <1>1, TypeLock, TypeApp, TypeWorker, TypePresenter, TypeEngine DEF Next

\* Every variable of the swapchain and its threads keeps its type, the budget of
\* an acquire in slices never falls below zero (afmf_sc_spare_take), and no
\* thread works on a frame that is not there.
THEOREM SpareTypes == Spec => []TypeOK
  <1>1. Spec => []TypeInv
    BY TypeInit, TypeStep, PTL DEF Spec
  <1> QED
    BY <1>1, TypeParts, PTL

-----------------------------------------------------------------------------
(* The swapchain lock. *)

\* At most one thread is inside, only at a step that calls the driver about the
\* swapchain.
LockInv ==
    /\ \A t, u \in Thread : wsi[t] = "in" /\ wsi[u] = "in" => t = u
    /\ \A t \in Thread : wsi[t] # "out" => pc[t] \in Locked

\* Once generation has ended both threads are out of work for good, so the
\* application's calls need no lock.
EndInv ==
    /\ ~genEnabled =>
          /\ work = <<>> /\ pc["worker"] = "take"
          /\ jobs = <<>> /\ pc["presenter"] = "next"
    /\ pc["app"] = "acquire" => genEnabled
    /\ pc["app"] = "plain" => ~genEnabled
    /\ pc["app"] = "direct" => ~genEnabled \/ MultiPresent

TurnInv == TypeInv /\ LockInv /\ EndInv

LEMMA TurnInit == Init => TurnInv
  <1> SUFFICES ASSUME Init PROVE TurnInv
    OBVIOUS
  <1>1. LockInv /\ EndInv
    BY DEF Init, LockInv, EndInv
  <1> QED
    BY <1>1, TypeInit DEF TurnInv

\* A thread that moves while it is outside, or gives the lock back.
LEMMA MoveOutside ==
  ASSUME LockInv, PcOK, LockOK, NEW t \in Thread,
         wsi'[t] = "out", \A u \in Thread \ {t} : wsi'[u] = wsi[u] /\ pc'[u] = pc[u]
  PROVE  LockInv'
  BY DEF LockInv

LEMMA TurnLock ==
  ASSUME TurnInv, NEW t \in Thread, TakeTurn(t) \/ TakeLock(t)
  PROVE  LockInv' /\ EndInv'
  <1>1. LockInv'
    BY DEF TurnInv, TypeInv, LockOK, LockInv, TakeTurn, TakeLock
  <1> QED
    BY <1>1 DEF TurnInv, EndInv, TakeTurn, TakeLock, appVars, queueVars

LEMMA TurnApp ==
  ASSUME TurnInv, AppChoice \/ AppStep
  PROVE  LockInv' /\ EndInv'
  <1> USE DEF TurnInv, TypeInv
  <1>0. /\ \A u \in Thread \ {"app"} : pc'[u] = pc[u]
        /\ pc["app"] \in {"idle", "plain", "stop", "direct"} => wsi["app"] = "out"
    BY DEF AppChoice, AppStep, Acquire, Present, PresentDirect, AcquireSlice, AcquirePlain,
           Disable, DirectDone, Acquired, NotAcquired, SliceOver, Goto, PcOK, LockInv, Locked,
           Thread
  <1>1. LockInv'
    <2>1. CASE AcquireSlice
      <3>1. wsi'["app"] = "out" /\ \A u \in Thread \ {"app"} : wsi'[u] = wsi[u]
        BY <2>1, GiveOK DEF AcquireSlice, Thread
      <3> QED
        BY <3>1, <1>0, MoveOutside DEF Thread
    <2>2. CASE AppChoice \/ AcquirePlain \/ Disable \/ DirectDone
      <3>1. wsi' = wsi /\ wsi["app"] = "out"
        BY <2>2, <1>0 DEF AppChoice, Acquire, Present, PresentDirect, AcquirePlain, Disable,
                          DirectDone
      <3> QED
        BY <3>1, <1>0, MoveOutside DEF Thread
    <2> QED
      BY <2>1, <2>2 DEF AppStep
  <1>2. EndInv'
    <2>1. pc'["worker"] = pc["worker"] /\ pc'["presenter"] = pc["presenter"]
      BY <1>0 DEF Thread
    <2>2. CASE Acquire
      BY <2>1, <2>2 DEF Acquire, Goto, PcOK, EndInv, queueVars, Thread
    <2>3. CASE AcquireSlice
      BY <2>1, <2>3 DEF AcquireSlice, Inside, Acquired, NotAcquired, SliceOver, Goto, PcOK,
                        EndInv, queueVars, Thread
    <2>4. CASE AcquirePlain
      BY <2>1, <2>4 DEF AcquirePlain, Acquired, NotAcquired, Goto, PcOK, EndInv, queueVars,
                        Thread
    <2>5. CASE Present
      BY <2>1, <2>5 DEF Present, Goto, PcOK, EndInv, Thread
    <2>6. CASE Disable
      BY <2>1, <2>6 DEF Disable, Goto, PcOK, EndInv, queueVars, Thread
    <2>7. CASE PresentDirect
      BY <2>1, <2>7 DEF PresentDirect, Goto, PcOK, EndInv, queueVars, Thread
    <2>8. CASE DirectDone
      BY <2>1, <2>8 DEF DirectDone, Goto, PcOK, EndInv, queueVars, Thread
    <2> QED
      BY <2>2, <2>3, <2>4, <2>5, <2>6, <2>7, <2>8 DEF AppChoice, AppStep
  <1> QED
    BY <1>1, <1>2

LEMMA TurnWorker ==
  ASSUME TurnInv, WorkerStep
  PROVE  LockInv' /\ EndInv'
  <1> USE DEF TurnInv, TypeInv
  <1>0. /\ \A u \in Thread \ {"worker"} : pc'[u] = pc[u]
        /\ pc["worker"] \notin {"spare", "drop"} => wsi["worker"] = "out"
    BY DEF WorkerStep, WorkerTake, SpareSlice, FenceWait, FenceReset, SpareDrop, SubmitFrame,
           Handoff, Goto, PcOK, WorkerPC, LockInv, Locked, Thread
  <1>1. LockInv'
    <2>1. CASE SpareSlice \/ SpareDrop
      <3>1. wsi'["worker"] = "out" /\ \A u \in Thread \ {"worker"} : wsi'[u] = wsi[u]
        BY <2>1, GiveOK DEF SpareSlice, SpareDrop, Thread
      <3> QED
        BY <3>1, <1>0, MoveOutside DEF Thread
    <2>2. CASE WorkerTake \/ FenceWait \/ FenceReset \/ SubmitFrame \/ Handoff
      <3>1. wsi' = wsi /\ wsi["worker"] = "out"
        BY <2>2, <1>0 DEF WorkerTake, FenceWait, FenceReset, SubmitFrame, Handoff
      <3> QED
        BY <3>1, <1>0, MoveOutside DEF Thread
    <2> QED
      BY <2>1, <2>2 DEF WorkerStep
  <1>2. genEnabled
    <2>1. pc["worker"] # "take" \/ work # <<>>
      BY DEF WorkerStep, WorkerTake, SpareSlice, FenceWait, FenceReset, SpareDrop, SubmitFrame,
             Handoff, Inside
    <2> QED
      BY <2>1 DEF EndInv, AppOK
  <1>3. UNCHANGED appVars
    BY DEF WorkerStep, WorkerTake, SpareSlice, FenceWait, FenceReset, SpareDrop, SubmitFrame,
           Handoff
  <1>4. EndInv'
    BY <1>0, <1>2, <1>3 DEF EndInv, appVars, Thread
  <1> QED
    BY <1>1, <1>4

LEMMA TurnPresenter ==
  ASSUME TurnInv, PresenterStep
  PROVE  LockInv' /\ EndInv'
  <1> USE DEF TurnInv, TypeInv
  <1>0. /\ \A u \in Thread \ {"presenter"} : pc'[u] = pc[u]
        /\ pc["presenter"] \in {"next", "finish"} => wsi["presenter"] = "out"
    BY DEF PresenterStep, JobTaken, PresentCompanion, PresentReal, LineUpSpare, JobFinished,
           Goto, PcOK, LockInv, Locked, Thread
  <1>1. LockInv'
    <2>1. CASE PresentCompanion \/ PresentReal \/ LineUpSpare
      <3>1. wsi'["presenter"] = "out" /\ \A u \in Thread \ {"presenter"} : wsi'[u] = wsi[u]
        BY <2>1, GiveOK DEF PresentCompanion, PresentReal, LineUpSpare, Thread
      <3> QED
        BY <3>1, <1>0, MoveOutside DEF Thread
    <2>2. CASE JobTaken \/ JobFinished
      <3>1. wsi' = wsi /\ wsi["presenter"] = "out"
        BY <2>2, <1>0 DEF JobTaken, JobFinished
      <3> QED
        BY <3>1, <1>0, MoveOutside DEF Thread
    <2> QED
      BY <2>1, <2>2 DEF PresenterStep
  <1>2. genEnabled
    <2>1. pc["presenter"] # "next" \/ jobs # <<>>
      BY DEF PresenterStep, JobTaken, PresentCompanion, PresentReal, LineUpSpare, JobFinished,
             Inside
    <2> QED
      BY <2>1 DEF EndInv, AppOK
  <1>3. UNCHANGED appVars
    BY DEF PresenterStep, JobTaken, PresentCompanion, PresentReal, LineUpSpare, JobFinished
  <1>4. EndInv'
    BY <1>0, <1>2, <1>3 DEF EndInv, appVars, Thread
  <1> QED
    BY <1>1, <1>4

LEMMA TurnStep == TurnInv /\ [Next]_vars => TurnInv'
  <1> SUFFICES ASSUME TurnInv, [Next]_vars PROVE TurnInv'
    OBVIOUS
  <1>1. TypeInv'
    BY TypeStep DEF TurnInv
  <1>2. CASE UNCHANGED vars
    BY <1>1, <1>2 DEF TurnInv, LockInv, EndInv, vars, appVars, queueVars
  <1>3. CASE Release \/ SignalFence
    <2>1. UNCHANGED <<pc, wsi, appVars, queueVars>>
      BY <1>3 DEF Release, SignalFence
    <2> QED
      BY <1>1, <2>1 DEF TurnInv, LockInv, EndInv, appVars, queueVars
  <1> QED
    BY <1>1, <1>2, <1>3, TurnLock, TurnApp, TurnWorker, TurnPresenter DEF Next, TurnInv

\* The lock has one holder at a time, and generation ends with both threads out
\* of work (wsi_take, afmf_sc_gen_disable).
THEOREM LockInvariant == Spec => []TurnInv
  BY TurnInit, TurnStep, PTL DEF Spec

\* Calls into the driver about the swapchain never overlap, as long as no present
\* is made of several swapchains at once (wsi_lock, swapchain_internal.h:188-190).
THEOREM DriverExclusive == ASSUME ~MultiPresent PROVE Spec => []SwapchainExclusive
  <1>1. TurnInv => SwapchainExclusive
    <2> SUFFICES ASSUME TurnInv PROVE SwapchainExclusive
      OBVIOUS
    <2>1. \A t, u \in InDriver : t = u
      BY DEF TurnInv, LockInv, EndInv, InDriver, Locked, Thread
    <2>2. InDriver = {} \/ \E t \in InDriver : InDriver = {t}
      BY <2>1
    <2>3. Cardinality(InDriver) \in {0, 1}
      BY <2>2, FS_EmptySet, FS_Singleton
    <2> QED
      BY <2>3 DEF SwapchainExclusive
  <1> QED
    BY <1>1, LockInvariant, PTL

-----------------------------------------------------------------------------
(* The spare's fence. *)

\* The fence is in use as long as the spare is lined up, until the work thread
\* resets it on its way to giving the spare up.
FenceInv ==
    /\ ~spareValid => fence = "unsignalled"
    /\ pc["worker"] \in {"fence", "reset", "drop"} => spareValid
    /\ spareValid /\ pc["worker"] # "drop" => fence # "unsignalled"
    /\ pc["worker"] = "reset" => fence = "signalled"
    /\ pc["worker"] = "drop" => fence = "unsignalled"

FenceFull == TypeInv /\ FenceInv

LEMMA FenceInit == Init => FenceFull
  BY TypeInit DEF Init, FenceFull, FenceInv

LEMMA FenceStep == FenceFull /\ [Next]_vars => FenceFull'
  <1> SUFFICES ASSUME FenceFull, [Next]_vars PROVE FenceFull'
    OBVIOUS
  <1> USE DEF FenceFull, TypeInv
  <1>1. TypeInv'
    BY TypeStep
  <1>2. FenceInv'
    <2>1. CASE UNCHANGED <<pc, spareVars>>
      BY <2>1 DEF FenceInv, spareVars
    <2>2. CASE AppChoice \/ AppStep
      <3>1. pc'["worker"] = pc["worker"]
        BY <2>2 DEF AppChoice, AppStep, Acquire, Present, PresentDirect, AcquireSlice,
                    AcquirePlain, Disable, DirectDone, Acquired, NotAcquired, SliceOver, Goto,
                    PcOK, Thread
      <3>2. UNCHANGED spareVars
        BY <2>2 DEF AppChoice, AppStep, Acquire, Present, PresentDirect, AcquireSlice,
                    AcquirePlain, Disable, DirectDone
      <3> QED
        BY <3>1, <3>2 DEF FenceInv, spareVars
    <2>3. CASE WorkerTake \/ SubmitFrame \/ Handoff
      BY <2>3 DEF WorkerTake, SubmitFrame, Handoff, Goto, PcOK, FenceInv, spareVars, Thread
    <2>4. CASE SpareSlice
      <3>1. pc["worker"] = "spare" /\ pc'["worker"] \in {"spare", "fence", "submit"}
            /\ (pc'["worker"] = "fence" => spareValid')
        BY <2>4 DEF SpareSlice, Inside, Goto, PcOK, Thread
      <3>2. UNCHANGED spareVars \/ (spareValid' /\ fence' = "pending")
        BY <2>4 DEF SpareSlice, Refill
      <3> QED
        BY <3>1, <3>2 DEF FenceInv, spareVars
    <2>5. CASE FenceWait
      BY <2>5 DEF FenceWait, Goto, PcOK, SpareOK, FenceInv, spareVars, Thread
    <2>6. CASE FenceReset
      BY <2>6 DEF FenceReset, Goto, PcOK, FenceInv, Thread
    <2>7. CASE SpareDrop
      BY <2>7 DEF SpareDrop, Inside, Goto, PcOK, FenceInv, Thread
    <2>8. CASE JobTaken \/ PresentCompanion \/ PresentReal \/ JobFinished
      BY <2>8 DEF JobTaken, PresentCompanion, PresentReal, JobFinished, Goto, PcOK, FenceInv,
                  spareVars, Thread
    <2>9. CASE LineUpSpare
      BY <2>9 DEF LineUpSpare, Refill, Goto, PcOK, FenceInv, spareVars, Thread
    <2>10. CASE SignalFence
      BY <2>10 DEF SignalFence, FenceInv
    <2>11. CASE Release \/ \E t \in Thread : TakeTurn(t) \/ TakeLock(t)
      BY <2>11, <2>1 DEF Release, TakeTurn, TakeLock
    <2>12. CASE UNCHANGED vars
      BY <2>12, <2>1 DEF vars
    <2> QED
      BY <2>2, <2>3, <2>4, <2>5, <2>6, <2>7, <2>8, <2>9, <2>10, <2>11, <2>12
      DEF Next, WorkerStep, PresenterStep
  <1> QED
    BY <1>1, <1>2

\* An acquire of the spare never uses a fence that is still signalled or in use,
\* and the work thread resets it only after it was signalled (spare_take: "the
\* fence is reset before that, and never raced").
THEOREM FenceSafe == Spec => []FenceUnraced
  <1>1. FenceFull => FenceUnraced
    BY DEF FenceFull, FenceInv, FenceUnraced
  <1> QED
    BY <1>1, FenceInit, FenceStep, PTL DEF Spec

-----------------------------------------------------------------------------
(* The images. *)

\* Frame k of `jobs` still has to present image i, as the real one or as its
\* companion.
RealOwed(k, i) == jobs[k].real = i /\ ~Presented(k, "real")
CompanionOwed(k, i) == jobs[k].companion = i /\ ~Presented(k, "companion")
InWork(i) == \E n \in DOMAIN work : work[n] = i
InJobs(i) == \E k \in DOMAIN jobs : RealOwed(k, i) \/ CompanionOwed(k, i)

Places == {"ready", "shown", "app", "direct", "spare", "companion", "work", "jobs", "lost"}

\* Where an image is.
In(i, o) ==
    \/ o = "ready" /\ i \in free
    \/ o = "shown" /\ i \in shown
    \/ o = "app" /\ i \in held
    \/ o = "direct" /\ i = direct
    \/ o = "spare" /\ spareValid /\ i = spareImage
    \/ o = "companion" /\ i = companion
    \/ o = "work" /\ InWork(i)
    \/ o = "jobs" /\ InJobs(i)
    \/ o = "lost" /\ i \in lost

Placed ==
    /\ \A i \in Image : \E o \in Places : In(i, o)
    /\ \A i \in Image, o, p \in Places : In(i, o) /\ In(i, p) => o = p

\* Once in each queue.
WorkOnce == \A m, n \in DOMAIN work : work[m] = work[n] => m = n
JobsOnce ==
    \A k, l \in DOMAIN jobs, i \in Image :
        /\ RealOwed(k, i) /\ RealOwed(l, i) => k = l
        /\ CompanionOwed(k, i) /\ CompanionOwed(l, i) => k = l
        /\ ~(RealOwed(k, i) /\ CompanionOwed(l, i))

\* What the work thread read of the spare is still so when it gives it up; a
\* companion is with the frame being submitted.
TakenInv ==
    /\ pc["worker"] \in {"fence", "reset", "drop"} => spare = spareImage
    /\ companion # None => pc["worker"] \in {"submit", "handoff"}
    /\ direct # None => pc["app"] = "direct"
    /\ spareValid => spareImage # None

ImageCore == Placed /\ WorkOnce /\ JobsOnce /\ TakenInv
ImageInv == FenceFull /\ ImageCore

\* The images of X go to one place, the others stay.
Moved(X, to) == \A i \in Image, o \in Places : In(i, o)' <=> IF i \in X THEN o = to ELSE In(i, o)

LEMMA MovedPlaced ==
  ASSUME Placed, NEW X, NEW to \in Places, Moved(X, to)
  PROVE  Placed'
  BY DEF Placed, Moved

LEMMA ImageInit == Init => ImageInv
  <1> SUFFICES ASSUME Init PROVE ImageInv
    OBVIOUS
  <1>1. \A i \in Image, o \in Places : In(i, o) <=> o = "ready"
    BY DEF Init, In, InWork, InJobs, Places, Image, None
  <1>2. Placed
    BY <1>1 DEF Placed, Places
  <1> QED
    BY <1>2, FenceInit DEF Init, ImageInv, ImageCore, WorkOnce, JobsOnce, TakenInv

\* A queue that stays, with the presenter where it is, owes the same images.
LEMMA WorkStays ==
  ASSUME UNCHANGED work, WorkOnce
  PROVE  WorkOnce' /\ \A i \in Image : InWork(i)' <=> InWork(i)
  BY DEF InWork, WorkOnce

LEMMA JobsStay ==
  ASSUME UNCHANGED jobs, pc'["presenter"] = pc["presenter"], JobsOnce
  PROVE  JobsOnce' /\ \A i \in Image : InJobs(i)' <=> InJobs(i)
  BY DEF InJobs, RealOwed, CompanionOwed, Presented, JobsOnce

\* What a queue owes after a frame more or a frame less.
LEMMA WorkGrows ==
  ASSUME work \in Seq(Image), NEW x \in Image, work' = Append(work, x), ~InWork(x), WorkOnce
  PROVE  WorkOnce' /\ \A i \in Image : InWork(i)' <=> InWork(i) \/ i = x
  <1>1. /\ DOMAIN work = 1 .. Len(work) /\ Len(work) \in Nat
        /\ DOMAIN work' = 1 .. Len(work) + 1
        /\ work'[Len(work) + 1] = x /\ \A n \in DOMAIN work : work'[n] = work[n]
    BY AppendProperties
  <1>2. \A n \in DOMAIN work' : n \in DOMAIN work \/ n = Len(work) + 1
    BY <1>1
  <1>3. Len(work) + 1 \in DOMAIN work' /\ \A n \in DOMAIN work : n \in DOMAIN work'
    BY <1>1
  <1>4. \A n \in DOMAIN work : work[n] # x
    BY DEF InWork
  <1>5. WorkOnce'
    BY <1>1, <1>2, <1>3, <1>4 DEF WorkOnce
  <1>6. \A i \in Image : InWork(i)' <=> InWork(i) \/ i = x
    BY <1>1, <1>2, <1>3 DEF InWork
  <1> QED
    BY <1>5, <1>6

LEMMA WorkShrinks ==
  ASSUME work \in Seq(Image), work # <<>>, work' = Tail(work), WorkOnce
  PROVE  /\ WorkOnce' /\ InWork(Head(work))
         /\ \A i \in Image : InWork(i)' <=> InWork(i) /\ i # Head(work)
  <1>1. /\ DOMAIN work = 1 .. Len(work) /\ Len(work) \in Nat \ {0}
        /\ DOMAIN work' = 1 .. Len(work) - 1 /\ Head(work) = work[1]
        /\ \A n \in DOMAIN work' : work'[n] = work[n + 1]
    BY HeadTailProperties
  <1>2. 1 \in DOMAIN work /\ \A n \in DOMAIN work' : n + 1 \in DOMAIN work /\ n + 1 # 1
    BY <1>1
  <1>3. \A n \in DOMAIN work : n = 1 \/ (n - 1 \in DOMAIN work' /\ work'[n - 1] = work[n])
    BY <1>1
  <1>4. WorkOnce'
    BY <1>1, <1>2 DEF WorkOnce
  <1>5. \A i \in Image : InWork(i)' <=> InWork(i) /\ i # Head(work)
    <2> TAKE i \in Image
    <2>1. ASSUME InWork(i)' PROVE InWork(i) /\ i # Head(work)
      <3> PICK n \in DOMAIN work' : work'[n] = i
        BY <2>1 DEF InWork
      <3>1. work[n + 1] = i /\ n + 1 \in DOMAIN work /\ n + 1 # 1
        BY <1>1, <1>2
      <3> QED
        BY <3>1, <1>1, <1>2 DEF InWork, WorkOnce
    <2>2. ASSUME InWork(i), i # Head(work) PROVE InWork(i)'
      BY <2>2, <1>1, <1>3 DEF InWork
    <2> QED
      BY <2>1, <2>2
  <1> QED
    BY <1>1, <1>2, <1>4, <1>5 DEF InWork

LEMMA JobsGrow ==
  ASSUME jobs \in Seq(Job), NEW j \in Job, jobs' = Append(jobs, j),
         ~InJobs(j.real), j.companion # None => ~InJobs(j.companion), j.real # j.companion,
         pc'["presenter"] = pc["presenter"], pc["presenter"] # "next" => jobs # <<>>, JobsOnce
  PROVE  /\ JobsOnce'
         /\ \A i \in Image : InJobs(i)' <=> InJobs(i) \/ i = j.real \/ i = j.companion
  <1> PICK last \in Nat : last = Len(jobs) + 1
    BY LenProperties
  <1>1. /\ DOMAIN jobs = 1 .. Len(jobs) /\ Len(jobs) \in Nat
        /\ DOMAIN jobs' = 1 .. last
        /\ jobs'[last] = j /\ \A n \in DOMAIN jobs : jobs'[n] = jobs[n]
    BY AppendProperties
  <1>2. /\ \A n \in DOMAIN jobs' : n \in DOMAIN jobs \/ n = last
        /\ last \in DOMAIN jobs' /\ \A n \in DOMAIN jobs : n \in DOMAIN jobs'
    BY <1>1
  <1>3. ~Presented(last, "real")' /\ ~Presented(last, "companion")'
    <2>1. last = 1 => pc'["presenter"] = "next"
      BY <1>1, EmptySeq
    <2> QED
      BY <2>1 DEF Presented
  <1>4. \A n \in DOMAIN jobs, i \in Image : (RealOwed(n, i)' <=> RealOwed(n, i))
                                       /\ (CompanionOwed(n, i)' <=> CompanionOwed(n, i))
    BY <1>1 DEF RealOwed, CompanionOwed, Presented
  <1>5. \A i \in Image : (RealOwed(last, i)' <=> i = j.real)
                         /\ (CompanionOwed(last, i)' <=> i = j.companion)
    BY <1>1, <1>3 DEF RealOwed, CompanionOwed
  <1>6. \A n \in DOMAIN jobs, i \in Image :
            i = j.real \/ i = j.companion => ~RealOwed(n, i) /\ ~CompanionOwed(n, i)
    BY DEF InJobs, Image, None
  <1>7. JobsOnce'
    <2> SUFFICES ASSUME NEW k \in DOMAIN jobs', NEW l \in DOMAIN jobs', NEW i \in Image
                 PROVE  /\ RealOwed(k, i)' /\ RealOwed(l, i)' => k = l
                        /\ CompanionOwed(k, i)' /\ CompanionOwed(l, i)' => k = l
                        /\ ~(RealOwed(k, i)' /\ CompanionOwed(l, i)')
      BY DEF JobsOnce
    <2>1. CASE k \in DOMAIN jobs /\ l \in DOMAIN jobs
      BY <2>1, <1>4 DEF JobsOnce
    <2>2. CASE k \in DOMAIN jobs /\ l = last
      BY <2>2, <1>4, <1>5, <1>6
    <2>3. CASE k = last /\ l \in DOMAIN jobs
      BY <2>3, <1>4, <1>5, <1>6
    <2>4. CASE k = last /\ l = last
      BY <2>4, <1>5
    <2> QED
      BY <1>2, <2>1, <2>2, <2>3, <2>4
  <1>8. \A i \in Image : InJobs(i)' <=> InJobs(i) \/ i = j.real \/ i = j.companion
    BY <1>2, <1>4, <1>5 DEF InJobs
  <1> QED
    BY <1>7, <1>8

\* A frame of which everything is presented leaves nothing behind.
LEMMA JobsShrink ==
  ASSUME jobs \in Seq(Job), jobs # <<>>, jobs' = Tail(jobs),
         pc["presenter"] = "finish", pc'["presenter"] = "next", JobsOnce
  PROVE  JobsOnce' /\ \A i \in Image : InJobs(i)' <=> InJobs(i)
  <1>1. /\ DOMAIN jobs = 1 .. Len(jobs) /\ Len(jobs) \in Nat \ {0}
        /\ DOMAIN jobs' = 1 .. Len(jobs) - 1
        /\ \A n \in DOMAIN jobs' : jobs'[n] = jobs[n + 1]
    BY HeadTailProperties
  <1>2. \A n \in DOMAIN jobs', i \in Image :
            /\ n + 1 \in DOMAIN jobs
            /\ RealOwed(n, i)' <=> RealOwed(n + 1, i)
            /\ CompanionOwed(n, i)' <=> CompanionOwed(n + 1, i)
    BY <1>1 DEF RealOwed, CompanionOwed, Presented
  <1>3. \A i \in Image : ~RealOwed(1, i) /\ ~CompanionOwed(1, i)
    BY DEF RealOwed, CompanionOwed, Presented
  <1>4. \A n \in DOMAIN jobs : n = 1 \/ (n - 1 \in DOMAIN jobs' /\ (n - 1) + 1 = n)
    BY <1>1
  <1>5. \A k, l \in DOMAIN jobs' : k + 1 = l + 1 => k = l
    BY <1>1
  <1>6. JobsOnce'
    BY <1>2, <1>5 DEF JobsOnce
  <1>7. \A i \in Image : InJobs(i)' <=> InJobs(i)
    BY <1>2, <1>3, <1>4 DEF InJobs
  <1> QED
    BY <1>6, <1>7

\* An image given to the application, or none.
LEMMA ImageAcquired ==
  ASSUME ImageInv, AcquireSlice \/ AcquirePlain
  PROVE  ImageCore'
  <1> USE DEF ImageInv, ImageCore, FenceFull, TypeInv
  <1>1. /\ UNCHANGED <<direct, shown, spareVars, takeVars, queueVars, failVars>>
        /\ pc["app"] \in {"acquire", "plain"} /\ pc'["worker"] = pc["worker"]
        /\ pc'["presenter"] = pc["presenter"]
    BY DEF AcquireSlice, AcquirePlain, Inside, Acquired, NotAcquired, SliceOver, Goto, PcOK, Thread
  <1>2. /\ \A i \in Image : (InWork(i)' <=> InWork(i)) /\ (InJobs(i)' <=> InJobs(i))
        /\ WorkOnce' /\ JobsOnce'
    BY <1>1, WorkStays, JobsStay DEF queueVars
  <1>3. TakenInv'
    BY <1>1 DEF TakenInv, spareVars, takeVars
  <1>4. Placed'
    <2>1. CASE UNCHANGED <<free, held>>
      <3>1. Moved({}, "app")
        BY <1>1, <1>2, <2>1 DEF Moved, In, spareVars, takeVars, failVars
      <3> QED
        BY <3>1, MovedPlaced DEF Places
    <2>2. CASE \E i \in free : held' = held \union {i} /\ free' = free \ {i}
      <3> PICK i \in free : held' = held \union {i} /\ free' = free \ {i}
        BY <2>2
      <3>1. \A o \in Places : In(i, o) => o = "ready"
        BY DEF Placed, In, Places, EngineOK
      <3>2. Moved({i}, "app")
        BY <1>1, <1>2, <3>1 DEF Moved, In, Places, spareVars, takeVars, failVars
      <3> QED
        BY <3>2, MovedPlaced DEF Places
    <2> QED
      BY <2>1, <2>2 DEF AcquireSlice, AcquirePlain, Acquired, NotAcquired, SliceOver, Dealt
  <1> QED
    BY <1>2, <1>3, <1>4


\* The presenter moves on within the frame at the head of `jobs`: what it has
\* just presented is owed no more.
LEMMA HeadOwed ==
  ASSUME jobs \in Seq(Job), jobs # <<>>, UNCHANGED jobs
  PROVE  /\ Head(jobs) = jobs[1] /\ 1 \in DOMAIN jobs
         /\ \A k \in DOMAIN jobs, i \in Image :
               k # 1 => /\ RealOwed(k, i)' <=> RealOwed(k, i)
                        /\ CompanionOwed(k, i)' <=> CompanionOwed(k, i)
  <1>1. Head(jobs) = jobs[1] /\ 1 \in DOMAIN jobs
    BY HeadTailProperties
  <1> QED
    BY <1>1 DEF RealOwed, CompanionOwed, Presented

LEMMA JobBegun ==
  ASSUME jobs \in Seq(Job), jobs # <<>>, UNCHANGED jobs, JobsOnce, pc["presenter"] = "next",
         pc'["presenter"] = IF Head(jobs).companion # None THEN "companion" ELSE "real"
  PROVE  JobsOnce' /\ \A i \in Image : InJobs(i)' <=> InJobs(i)
  <1>1. \A i \in Image : (RealOwed(1, i)' <=> RealOwed(1, i))
                         /\ (CompanionOwed(1, i)' <=> CompanionOwed(1, i))
    BY HeadOwed DEF RealOwed, CompanionOwed, Presented, Image, None
  <1>2. \A k \in DOMAIN jobs, i \in Image : (RealOwed(k, i)' <=> RealOwed(k, i))
                                       /\ (CompanionOwed(k, i)' <=> CompanionOwed(k, i))
    BY <1>1, HeadOwed
  <1>3. JobsOnce'
    BY <1>2 DEF JobsOnce
  <1> QED
    BY <1>2, <1>3 DEF InJobs

LEMMA CompanionGoes ==
  ASSUME jobs \in Seq(Job), jobs # <<>>, UNCHANGED jobs, JobsOnce,
         pc["presenter"] = "companion", pc'["presenter"] = "real"
  PROVE  /\ JobsOnce'
         /\ \A i \in Image : InJobs(i)' <=> InJobs(i) /\ i # Head(jobs).companion
         /\ Head(jobs).companion \in Image => InJobs(Head(jobs).companion)
  <1> PICK c : c = Head(jobs).companion
    OBVIOUS
  <1>1. \A i \in Image : /\ RealOwed(1, i)' <=> RealOwed(1, i)
                         /\ ~CompanionOwed(1, i)' /\ (CompanionOwed(1, i) <=> i = c)
    BY HeadOwed DEF RealOwed, CompanionOwed, Presented
  <1>2. c \in Image => /\ InJobs(c)
                       /\ \A k \in DOMAIN jobs : ~RealOwed(k, c) /\ (CompanionOwed(k, c) => k = 1)
    BY <1>1, HeadOwed DEF JobsOnce, InJobs
  <1>3. \A k \in DOMAIN jobs, i \in Image :
            /\ RealOwed(k, i)' <=> RealOwed(k, i)
            /\ CompanionOwed(k, i)' <=> CompanionOwed(k, i) /\ i # c
    BY <1>1, <1>2, HeadOwed
  <1>4. JobsOnce'
    BY <1>3 DEF JobsOnce
  <1>5. \A i \in Image : InJobs(i)' <=> InJobs(i) /\ i # c
    BY <1>2, <1>3 DEF InJobs
  <1> QED
    BY <1>2, <1>4, <1>5

LEMMA RealGoes ==
  ASSUME jobs \in Seq(Job), jobs # <<>>, UNCHANGED jobs, JobsOnce,
         pc["presenter"] = "real", pc'["presenter"] = "refill"
  PROVE  /\ JobsOnce'
         /\ \A i \in Image : InJobs(i)' <=> InJobs(i) /\ i # Head(jobs).real
         /\ Head(jobs).real \in Image => InJobs(Head(jobs).real)
  <1> PICK r : r = Head(jobs).real
    OBVIOUS
  <1>1. \A i \in Image : /\ CompanionOwed(1, i)' <=> CompanionOwed(1, i)
                         /\ ~RealOwed(1, i)' /\ (RealOwed(1, i) <=> i = r)
    BY HeadOwed DEF RealOwed, CompanionOwed, Presented
  <1>2. r \in Image => /\ InJobs(r)
                       /\ \A k \in DOMAIN jobs : ~CompanionOwed(k, r) /\ (RealOwed(k, r) => k = 1)
    BY <1>1, HeadOwed DEF JobsOnce, InJobs
  <1>3. \A k \in DOMAIN jobs, i \in Image :
            /\ CompanionOwed(k, i)' <=> CompanionOwed(k, i)
            /\ RealOwed(k, i)' <=> RealOwed(k, i) /\ i # r
    BY <1>1, <1>2, HeadOwed
  <1>4. JobsOnce'
    BY <1>3 DEF JobsOnce
  <1>5. \A i \in Image : InJobs(i)' <=> InJobs(i) /\ i # r
    BY <1>2, <1>3 DEF InJobs
  <1> QED
    BY <1>2, <1>4, <1>5

-----------------------------------------------------------------------------
(* The images: where each step takes one. *)

\* What no image's place depends on.
placeVars == <<held, direct, free, shown, spareValid, spareImage, companion, lost>>

LEMMA NoneMoves ==
  ASSUME Placed, UNCHANGED placeVars,
         \A i \in Image : (InWork(i)' <=> InWork(i)) /\ (InJobs(i)' <=> InJobs(i))
  PROVE  Placed'
  <1>1. Moved({}, "app")
    BY DEF Moved, In, placeVars
  <1> QED
    BY <1>1, MovedPlaced DEF Places

\* A lined-up spare was an image the engine had ready.
LEMMA ImageRefill ==
  ASSUME EngineOK, Placed, Refill, UNCHANGED <<held, direct, shown, companion, lost>>,
         \A i \in Image : (InWork(i)' <=> InWork(i)) /\ (InJobs(i)' <=> InJobs(i))
  PROVE  Placed'
  <1>1. CASE UNCHANGED <<spareValid, spareImage, free>>
    BY <1>1, NoneMoves DEF placeVars
  <1>2. CASE ~spareValid /\ spareValid' /\ \E i \in free : spareImage' = i /\ free' = free \ {i}
    <2> PICK i \in free : spareImage' = i /\ free' = free \ {i}
      BY <1>2
    <2>1. \A o \in Places : In(i, o) => o = "ready"
      BY DEF Placed, In, Places, EngineOK
    <2>2. Moved({i}, "spare")
      BY <1>2, <2>1 DEF Moved, In, Places
    <2> QED
      BY <2>2, MovedPlaced DEF Places
  <1> QED
    BY <1>1, <1>2 DEF Refill, Dealt, spareVars

LEMMA RefilledSpare ==
  ASSUME EngineOK, Refill, spareValid => spareImage # None
  PROVE  spareValid' => spareImage' # None
  <1>1. \A i \in free : i # None
    BY DEF EngineOK, Image, None
  <1>2. CASE UNCHANGED spareVars
    BY <1>2 DEF spareVars
  <1>3. CASE \E i \in free : spareImage' = i
    BY <1>1, <1>3
  <1> QED
    BY <1>2, <1>3 DEF Refill, Dealt

\* The application: it takes ready images and hands what it has drawn to the
\* work thread, or to the driver.

LEMMA ImageApp ==
  ASSUME ImageInv, AppChoice \/ AppStep
  PROVE  ImageCore'
  <1> USE DEF ImageInv, ImageCore, FenceFull, TypeInv
  <1>1. pc'["worker"] = pc["worker"] /\ pc'["presenter"] = pc["presenter"]
    BY DEF AppChoice, AppStep, Acquire, Present, PresentDirect, AcquireSlice, AcquirePlain,
           Disable, DirectDone, Acquired, NotAcquired, SliceOver, Goto, PcOK, Thread
  <1>2. CASE AcquireSlice \/ AcquirePlain
    BY <1>2, ImageAcquired
  <1>3. CASE Acquire \/ Disable
    <2>1. UNCHANGED <<placeVars, queueVars, spareVars, takeVars>>
      BY <1>3 DEF Acquire, Disable, placeVars, appVars, engineVars, spareVars, takeVars,
                  failVars
    <2>2. pc["app"] # "direct"
      BY <1>3 DEF Acquire, Disable
    <2>3. TakenInv'
      BY <1>1, <2>1, <2>2 DEF TakenInv, placeVars, takeVars
    <2> QED
      BY <1>1, <2>1, <2>3, WorkStays, JobsStay, NoneMoves DEF queueVars
  <1>4. CASE Present
    <2> PICK x \in held : held' = held \ {x} /\ work' = Append(work, x)
      BY <1>4 DEF Present
    <2>1. /\ UNCHANGED <<direct, engineVars, spareVars, takeVars, jobs, failVars>>
          /\ pc["app"] = "idle"
      BY <1>4 DEF Present
    <2>2. x \in Image /\ \A o \in Places : In(x, o) => o = "app"
      BY DEF Placed, In, Places, AppOK
    <2>3. WorkOnce' /\ \A i \in Image : InWork(i)' <=> InWork(i) \/ i = x
      <3>1. ~InWork(x)
        BY <2>2 DEF In, Places
      <3> QED
        BY <2>2, <3>1, WorkGrows DEF QueueOK
    <2>4. JobsOnce' /\ \A i \in Image : InJobs(i)' <=> InJobs(i)
      BY <1>1, <2>1, JobsStay
    <2>5. Moved({x}, "work")
      BY <2>1, <2>2, <2>3, <2>4 DEF Moved, In, Places, engineVars, spareVars, takeVars, failVars
    <2>6. TakenInv'
      BY <1>1, <2>1 DEF TakenInv, spareVars, takeVars
    <2> QED
      BY <2>3, <2>4, <2>5, <2>6, MovedPlaced DEF Places
  <1>5. CASE PresentDirect
    <2> PICK x \in held : held' = held \ {x} /\ direct' = x
      BY <1>5 DEF PresentDirect
    <2>1. /\ UNCHANGED <<engineVars, spareVars, takeVars, queueVars, failVars>>
          /\ pc["app"] = "idle" /\ pc'["app"] = "direct"
      BY <1>5 DEF PresentDirect, Goto, PcOK, Thread
    <2>2. x \in Image /\ \A o \in Places : In(x, o) => o = "app"
      BY DEF Placed, In, Places, AppOK
    <2>3. /\ WorkOnce' /\ JobsOnce'
          /\ \A i \in Image : (InWork(i)' <=> InWork(i)) /\ (InJobs(i)' <=> InJobs(i))
      BY <1>1, <2>1, WorkStays, JobsStay DEF queueVars
    <2>4. direct = None
      BY <2>1 DEF TakenInv
    <2>5. Moved({x}, "direct")
      BY <2>1, <2>2, <2>3, <2>4
      DEF Moved, In, Places, Image, None, engineVars, spareVars, takeVars, failVars
    <2>6. TakenInv'
      BY <1>1, <2>1 DEF TakenInv, spareVars, takeVars
    <2> QED
      BY <2>3, <2>5, <2>6, MovedPlaced DEF Places
  <1>6. CASE DirectDone
    <2>1. /\ UNCHANGED <<held, free, spareVars, takeVars, queueVars, failVars>>
          /\ shown' = shown \union {direct} /\ direct' = None
      BY <1>6 DEF DirectDone
    <2>2. direct \in Image
      BY <1>6 DEF DirectDone, AtHand, AppOK
    <2>3. \A o \in Places : In(direct, o) => o = "direct"
      BY <2>2 DEF Placed, In, Places
    <2>4. /\ WorkOnce' /\ JobsOnce'
          /\ \A i \in Image : (InWork(i)' <=> InWork(i)) /\ (InJobs(i)' <=> InJobs(i))
      BY <1>1, <2>1, WorkStays, JobsStay DEF queueVars
    <2>5. PICK x \in Image : x = direct
      BY <2>2
    <2>6. Moved({x}, "shown")
      BY <2>1, <2>3, <2>4, <2>5 DEF Moved, In, Places, Image, None, spareVars, takeVars, failVars
    <2>7. TakenInv'
      BY <1>1, <2>1 DEF TakenInv, spareVars, takeVars
    <2> QED
      BY <2>4, <2>6, <2>7, MovedPlaced DEF Places
  <1> QED
    BY <1>2, <1>3, <1>4, <1>5, <1>6 DEF AppChoice, AppStep

\* The work thread: the spare becomes a companion, a companion goes on with its
\* frame or, when submission fails, is lost.
LEMMA ImageWorker ==
  ASSUME ImageInv, WorkerStep
  PROVE  ImageCore'
  <1> USE DEF ImageInv, ImageCore, FenceFull, TypeInv
  <1>1. /\ pc'["app"] = pc["app"] /\ pc'["presenter"] = pc["presenter"]
        /\ UNCHANGED <<held, direct, shown>>
    BY DEF WorkerStep, WorkerTake, SpareSlice, FenceWait, FenceReset, SpareDrop, SubmitFrame,
           Handoff, Inside, Goto, PcOK, Thread, appVars, engineVars
  <1>2. ASSUME UNCHANGED queueVars
        PROVE  /\ WorkOnce' /\ JobsOnce'
               /\ \A i \in Image : (InWork(i)' <=> InWork(i)) /\ (InJobs(i)' <=> InJobs(i))
    BY <1>1, <1>2, WorkStays, JobsStay DEF queueVars
  <1>3. CASE WorkerTake \/ FenceWait \/ FenceReset
    <2>1. UNCHANGED <<placeVars, queueVars>>
      BY <1>1, <1>3 DEF WorkerTake, FenceWait, FenceReset, placeVars, engineVars, spareVars,
                        takeVars, failVars
    <2>2. TakenInv'
      BY <1>1, <1>3 DEF WorkerTake, FenceWait, FenceReset, Goto, PcOK, Thread, TakenInv,
                        spareVars, takeVars
    <2> QED
      BY <1>2, <2>1, <2>2, NoneMoves
  <1>4. CASE SpareSlice
    <2>1. Refill /\ UNCHANGED <<companion, queueVars, failVars>>
      BY <1>4 DEF SpareSlice
    <2>2. Placed'
      BY <1>1, <1>2, <2>1, ImageRefill DEF failVars
    <2>3. /\ pc["worker"] = "spare" /\ pc'["worker"] \in {"spare", "fence", "submit"}
          /\ pc'["worker"] = "fence" => spare' = spareImage'
      BY <1>4 DEF SpareSlice, Inside, Goto, PcOK, Thread
    <2>4. spareValid' => spareImage' # None
      BY <2>1, RefilledSpare DEF TakenInv
    <2>5. TakenInv'
      BY <1>1, <2>1, <2>3, <2>4 DEF TakenInv
    <2> QED
      BY <1>2, <2>1, <2>2, <2>5
  <1>5. CASE SpareDrop
    <2>1. /\ pc["worker"] = "drop" /\ pc'["worker"] = "submit"
          /\ spareValid' = FALSE /\ companion' = spare
          /\ UNCHANGED <<engineVars, queueVars, failVars>>
      BY <1>5 DEF SpareDrop, Inside, Goto, PcOK, Thread
    <2>2. PICK x \in Image : x = spareImage /\ spareValid /\ spare = x
      BY <2>1 DEF FenceInv, TakenInv, SpareOK
    <2>3. companion = None /\ \A o \in Places : In(x, o) => o = "spare"
      BY <2>1, <2>2 DEF TakenInv, Placed, In, Places
    <2>4. Moved({x}, "companion")
      BY <1>1, <1>2, <2>1, <2>2, <2>3 DEF Moved, In, Places, Image, None, engineVars, failVars
    <2>5. TakenInv'
      BY <1>1, <2>1 DEF TakenInv
    <2> QED
      BY <1>2, <2>1, <2>4, <2>5, MovedPlaced DEF Places
  <1>6. CASE SubmitFrame
    <2>1. /\ UNCHANGED <<engineVars, spareVars, spare, queueVars>>
          /\ pc["worker"] = "submit" /\ pc'["worker"] = "handoff"
      BY <1>6 DEF SubmitFrame, Goto, PcOK, Thread
    <2>2. TakenInv'
      BY <1>1, <2>1 DEF TakenInv, spareVars
    <2>3. CASE UNCHANGED <<companion, lost>>
      BY <1>1, <1>2, <2>1, <2>2, <2>3, NoneMoves DEF placeVars, engineVars, spareVars
    <2>4. CASE lost' = lost \union ({companion} \ {None}) /\ companion' = None
      <3>1. CASE companion = None
        BY <2>3, <2>4, <3>1
      <3>2. CASE companion # None
        <4>1. PICK x \in Image : x = companion
          BY <3>2 DEF TakeOK
        <4>2. \A o \in Places : In(x, o) => o = "companion"
          BY <4>1 DEF Placed, In, Places
        <4>3. Moved({x}, "lost")
          BY <1>1, <1>2, <2>1, <2>4, <3>2, <4>1, <4>2
          DEF Moved, In, Places, Image, None, engineVars, spareVars
        <4> QED
          BY <1>2, <2>1, <2>2, <4>3, MovedPlaced DEF Places
      <3> QED
        BY <3>1, <3>2
    <2> QED
      BY <1>6, <2>3, <2>4 DEF SubmitFrame, failVars
  <1>7. CASE Handoff
    <2>1. /\ UNCHANGED <<engineVars, spareVars, spare, failVars>> /\ companion' = None
          /\ work' = Tail(work)
          /\ jobs' = Append(jobs, [real |-> Head(work), companion |-> companion])
          /\ pc["worker"] = "handoff" /\ pc'["worker"] = "take"
      BY <1>7 DEF Handoff, Goto, PcOK, Thread
    <2>2. PICK h \in Image : h = Head(work)
      BY <2>1, NextFrame
    <2>3. PICK c \in Image \union {None} : c = companion
      BY DEF TakeOK
    <2>4. PICK j \in Job : j.real = h /\ j.companion = c /\ jobs' = Append(jobs, j)
      BY <2>1, <2>2, <2>3 DEF Job
    <2>5. /\ WorkOnce' /\ InWork(h)
          /\ \A i \in Image : InWork(i)' <=> InWork(i) /\ i # h
      BY <2>1, <2>2, NextFrame, WorkShrinks DEF QueueOK
    <2>6. \A o \in Places : In(h, o) => o = "work"
      BY <2>5 DEF Placed, In, Places
    <2>7. c # None => \A o \in Places : In(c, o) => o = "companion"
      BY <2>3 DEF Placed, In, Places
    <2>8. ~InJobs(h) /\ (c # None => ~InJobs(c) /\ ~InWork(c)) /\ h # c
      BY <2>3, <2>6, <2>7 DEF In, Places, Image, None
    <2>9. JobsOnce' /\ \A i \in Image : InJobs(i)' <=> InJobs(i) \/ i = h \/ i = c
      <3>1. pc["presenter"] # "next" => jobs # <<>>
        BY DEF AtHand
      <3> QED
        BY <1>1, <2>4, <2>8, <3>1, JobsGrow DEF QueueOK
    <2>10. Moved({h, c}, "jobs")
      BY <1>1, <2>1, <2>3, <2>5, <2>6, <2>7, <2>8, <2>9
      DEF Moved, In, Places, Image, None, engineVars, spareVars, failVars
    <2>11. TakenInv'
      BY <1>1, <2>1 DEF TakenInv, spareVars
    <2> QED
      BY <2>5, <2>9, <2>10, <2>11, MovedPlaced DEF Places
  <1> QED
    BY <1>3, <1>4, <1>5, <1>6, <1>7 DEF WorkerStep

\* The presentation thread: it presents what the head of `jobs` owes and lines up
\* a ready image as the next spare.
LEMMA ImagePresenter ==
  ASSUME ImageInv, PresenterStep
  PROVE  ImageCore'
  <1> USE DEF ImageInv, ImageCore, FenceFull, TypeInv
  <1>1. /\ pc'["app"] = pc["app"] /\ pc'["worker"] = pc["worker"]
        /\ UNCHANGED <<held, direct, work, takeVars, lost>>
        /\ jobs \in Seq(Job)
    BY DEF PresenterStep, JobTaken, PresentCompanion, PresentReal, LineUpSpare, JobFinished,
           Inside, Goto, PcOK, Thread, appVars, queueVars, failVars, QueueOK
  <1>2. WorkOnce' /\ \A i \in Image : InWork(i)' <=> InWork(i)
    BY <1>1, WorkStays
  <1>3. CASE JobTaken
    <2>1. UNCHANGED <<placeVars, spareVars, jobs>>
      BY <1>1, <1>3 DEF JobTaken, placeVars, engineVars, spareVars, takeVars, queueVars
    <2>2. JobsOnce' /\ \A i \in Image : InJobs(i)' <=> InJobs(i)
      BY <1>1, <1>3, JobBegun DEF JobTaken, Goto, PcOK, Thread, queueVars
    <2>3. TakenInv'
      BY <1>1, <2>1 DEF TakenInv, spareVars, takeVars
    <2> QED
      BY <1>2, <2>1, <2>2, <2>3, NoneMoves
  <1>4. CASE PresentCompanion
    <2>1. /\ UNCHANGED <<free, spareVars, jobs>> /\ jobs # <<>>
          /\ shown' = shown \union {Head(jobs).companion}
          /\ pc["presenter"] = "companion" /\ pc'["presenter"] = "real"
      BY <1>4 DEF PresentCompanion, Inside, Goto, PcOK, Thread, queueVars, AtHand
    <2>2. PICK c \in Image : c = Head(jobs).companion
      BY <2>1, NextJob DEF AtHand
    <2>3. /\ JobsOnce' /\ InJobs(c)
          /\ \A i \in Image : InJobs(i)' <=> InJobs(i) /\ i # c
      BY <1>1, <2>1, <2>2, CompanionGoes
    <2>4. \A o \in Places : In(c, o) => o = "jobs"
      BY <2>3 DEF Placed, In, Places
    <2>5. Moved({c}, "shown")
      BY <1>1, <1>2, <2>1, <2>2, <2>3, <2>4 DEF Moved, In, Places, spareVars, takeVars
    <2>6. TakenInv'
      BY <1>1, <2>1 DEF TakenInv, spareVars, takeVars
    <2> QED
      BY <1>2, <2>3, <2>5, <2>6, MovedPlaced DEF Places
  <1>5. CASE PresentReal
    <2>1. /\ UNCHANGED <<free, spareVars, jobs>> /\ jobs # <<>>
          /\ shown' = shown \union {Head(jobs).real}
          /\ pc["presenter"] = "real" /\ pc'["presenter"] = "refill"
      BY <1>5 DEF PresentReal, Inside, Goto, PcOK, Thread, queueVars, AtHand
    <2>2. PICK r \in Image : r = Head(jobs).real
      BY <2>1, NextJob
    <2>3. /\ JobsOnce' /\ InJobs(r)
          /\ \A i \in Image : InJobs(i)' <=> InJobs(i) /\ i # r
      BY <1>1, <2>1, <2>2, RealGoes
    <2>4. \A o \in Places : In(r, o) => o = "jobs"
      BY <2>3 DEF Placed, In, Places
    <2>5. Moved({r}, "shown")
      BY <1>1, <1>2, <2>1, <2>2, <2>3, <2>4 DEF Moved, In, Places, spareVars, takeVars
    <2>6. TakenInv'
      BY <1>1, <2>1 DEF TakenInv, spareVars, takeVars
    <2> QED
      BY <1>2, <2>3, <2>5, <2>6, MovedPlaced DEF Places
  <1>6. CASE LineUpSpare
    <2>1. /\ Refill /\ UNCHANGED <<shown, takeVars, jobs>>
          /\ pc["presenter"] = "refill" /\ pc'["presenter"] = "finish"
      BY <1>6 DEF LineUpSpare, Inside, Goto, PcOK, Thread, queueVars
    <2>2. JobsOnce' /\ \A i \in Image : InJobs(i)' <=> InJobs(i)
      BY <2>1 DEF InJobs, JobsOnce, RealOwed, CompanionOwed, Presented
    <2>3. Placed'
      BY <1>1, <1>2, <2>1, <2>2, ImageRefill DEF takeVars
    <2>4. TakenInv'
      <3>1. spareValid' => spareImage' # None
        BY <2>1, RefilledSpare DEF TakenInv
      <3>2. pc["worker"] \in {"fence", "reset", "drop"} => spareImage' = spareImage
        BY <2>1 DEF Refill, FenceInv, spareVars
      <3> QED
        BY <1>1, <3>1, <3>2 DEF TakenInv, takeVars
    <2> QED
      BY <1>2, <2>2, <2>3, <2>4
  <1>7. CASE JobFinished
    <2>1. /\ UNCHANGED <<placeVars, spareVars>> /\ jobs # <<>> /\ jobs' = Tail(jobs)
          /\ pc["presenter"] = "finish" /\ pc'["presenter"] = "next"
      BY <1>1, <1>7 DEF JobFinished, placeVars, engineVars, spareVars, takeVars, Goto, PcOK,
                        Thread, AtHand
    <2>2. JobsOnce' /\ \A i \in Image : InJobs(i)' <=> InJobs(i)
      BY <1>1, <2>1, JobsShrink
    <2>3. TakenInv'
      BY <1>1, <2>1 DEF TakenInv, spareVars, takeVars
    <2> QED
      BY <1>2, <2>1, <2>2, <2>3, NoneMoves
  <1> QED
    BY <1>3, <1>4, <1>5, <1>6, <1>7 DEF PresenterStep

\* The engine is through with an image.
LEMMA ImageReleased ==
  ASSUME ImageInv, Release
  PROVE  ImageCore'
  <1> USE DEF ImageInv, ImageCore, FenceFull, TypeInv
  <1> PICK x \in shown : shown' = shown \ {x} /\ free' = free \union {x}
    BY DEF Release, Dealt
  <1>1. UNCHANGED <<pc, appVars, spareVars, takeVars, queueVars, failVars>>
    BY DEF Release
  <1>2. x \in Image /\ \A o \in Places : In(x, o) => o = "shown"
    BY DEF Placed, In, Places, EngineOK
  <1>3. /\ WorkOnce' /\ JobsOnce'
        /\ \A i \in Image : (InWork(i)' <=> InWork(i)) /\ (InJobs(i)' <=> InJobs(i))
    BY <1>1, WorkStays, JobsStay DEF queueVars
  <1>4. Moved({x}, "ready")
    BY <1>1, <1>2, <1>3 DEF Moved, In, Places, appVars, spareVars, takeVars, failVars
  <1>5. TakenInv'
    BY <1>1 DEF TakenInv, appVars, spareVars, takeVars
  <1> QED
    BY <1>3, <1>4, <1>5, MovedPlaced DEF Places

\* The lock's steps and the fence's signal move no image.
LEMMA ImageQuiet ==
  ASSUME ImageInv,
         UNCHANGED <<pc, appVars, engineVars, spareValid, spareImage, takeVars, queueVars, failVars>>
  PROVE  ImageCore'
  <1> USE DEF ImageInv, ImageCore
  <1>1. UNCHANGED placeVars
    BY DEF placeVars, appVars, engineVars, takeVars, failVars
  <1>2. /\ WorkOnce' /\ JobsOnce'
        /\ \A i \in Image : (InWork(i)' <=> InWork(i)) /\ (InJobs(i)' <=> InJobs(i))
    BY WorkStays, JobsStay DEF queueVars
  <1>3. TakenInv'
    BY DEF TakenInv, appVars, takeVars
  <1> QED
    BY <1>1, <1>2, <1>3, NoneMoves

LEMMA ImageStep == ImageInv /\ [Next]_vars => ImageInv'
  <1> SUFFICES ASSUME ImageInv, [Next]_vars PROVE ImageInv'
    OBVIOUS
  <1>1. FenceFull'
    BY FenceStep DEF ImageInv
  <1>2. CASE AppChoice \/ AppStep
    BY <1>1, <1>2, ImageApp DEF ImageInv
  <1>3. CASE WorkerStep
    BY <1>1, <1>3, ImageWorker DEF ImageInv
  <1>4. CASE PresenterStep
    BY <1>1, <1>4, ImagePresenter DEF ImageInv
  <1>5. CASE Release
    BY <1>1, <1>5, ImageReleased DEF ImageInv
  <1>6. CASE SignalFence \/ UNCHANGED vars \/ \E t \in Thread : TakeTurn(t) \/ TakeLock(t)
    <2>1. UNCHANGED <<pc, appVars, engineVars, spareValid, spareImage, takeVars, queueVars, failVars>>
      BY <1>6 DEF SignalFence, TakeTurn, TakeLock, vars, spareVars
    <2> QED
      BY <1>1, <2>1, ImageQuiet DEF ImageInv
  <1> QED
    BY <1>2, <1>3, <1>4, <1>5, <1>6 DEF Next

-----------------------------------------------------------------------------
(* The images: who has a use for each. *)

\* Every use of an image but its loss makes its place.
LEMMA HolderPlace ==
  ASSUME ImageInv, NEW i \in Image, NEW h \in Holders(i)
  PROVE  \/ \E o \in {"ready", "shown", "app", "direct", "spare", "companion"} :
               h = <<o>> /\ In(i, o)
         \/ \E k \in DOMAIN work : h = <<"work", k>> /\ work[k] = i /\ In(i, "work")
         \/ \E k \in DOMAIN jobs :
               /\ In(i, "jobs")
               /\ \/ h = <<"job", k, "real">> /\ RealOwed(k, i)
                  \/ h = <<"job", k, "companion">> /\ CompanionOwed(k, i)
  <1>1. CASE h \in {o \in {<<"ready">>, <<"shown">>, <<"app">>, <<"direct">>, <<"spare">>,
                           <<"companion">>} :
                    \/ o = <<"ready">> /\ i \in free
                    \/ o = <<"shown">> /\ i \in shown
                    \/ o = <<"app">> /\ i \in held
                    \/ o = <<"direct">> /\ i = direct
                    \/ o = <<"spare">> /\ spareValid /\ i = spareImage
                    \/ o = <<"companion">> /\ i = companion}
    BY <1>1 DEF In
  <1>2. CASE h \in {<<"work", k>> : k \in {n \in DOMAIN work : work[n] = i}}
    BY <1>2 DEF In, InWork
  <1>3. CASE h \in {p \in {"job"} \X (DOMAIN jobs) \X {"real", "companion"} :
                       jobs[p[2]][p[3]] = i /\ ~Presented(p[2], p[3])}
    <2>1. PICK k \in DOMAIN jobs, part \in {"real", "companion"} :
             h = <<"job", k, part>> /\ jobs[k][part] = i /\ ~Presented(k, part)
      BY <1>3
    <2> QED
      BY <2>1 DEF In, InJobs, RealOwed, CompanionOwed
  <1> QED
    BY <1>1, <1>2, <1>3 DEF Holders

LEMMA OneHolder ==
  ASSUME ImageInv, NEW i \in Image, NEW g \in Holders(i), NEW h \in Holders(i)
  PROVE  g = h
  <1> USE DEF ImageInv, ImageCore
  <1>1. \A o, p \in Places : In(i, o) /\ In(i, p) => o = p
    BY DEF Placed
  <1> QED
    BY <1>1, HolderPlace DEF Places, WorkOnce, JobsOnce

\* No image has two uses, with any number of images, however the three threads
\* and the engine interleave (afmf_sc_spare_take gives up in one critical section
\* what it read in another).
THEOREM ImagesOnce == Spec => []NoImageTwice
  <1>1. ImageInv => NoImageTwice
    <2> SUFFICES ASSUME ImageInv, NEW i \in Image PROVE Cardinality(Holders(i)) <= 1
      BY DEF NoImageTwice
    <2>1. CASE Holders(i) = {}
      BY <2>1, FS_EmptySet
    <2>2. CASE Holders(i) # {}
      <3> PICK h \in Holders(i) : TRUE
        BY <2>2
      <3>1. Holders(i) = {h}
        BY OneHolder
      <3> QED
        BY <3>1, FS_Singleton
    <2> QED
      BY <2>1, <2>2
  <1> QED
    BY <1>1, ImageInit, ImageStep, PTL DEF Spec

\* No image is forgotten but those of companions whose submission failed.
THEOREM ImagesKept == Spec => []NoImageForgotten
  <1>1. ImageInv => NoImageForgotten
    <2> SUFFICES ASSUME ImageInv, NEW i \in Image, i \notin lost PROVE Holders(i) # {}
      BY DEF NoImageForgotten
    <2>1. PICK o \in Places \ {"lost"} : In(i, o)
      BY DEF ImageInv, ImageCore, Placed, In, Places
    <2>2. CASE o = "work"
      <3>1. PICK k \in DOMAIN work : work[k] = i
        BY <2>1, <2>2 DEF In, InWork
      <3>2. <<"work", k>> \in Holders(i)
        BY <3>1 DEF Holders
      <3> QED
        BY <3>2
    <2>3. CASE o = "jobs"
      <3>1. PICK k \in DOMAIN jobs, part \in {"real", "companion"} :
               jobs[k][part] = i /\ ~Presented(k, part)
        BY <2>1, <2>3 DEF In, InJobs, RealOwed, CompanionOwed
      <3>2. <<"job", k, part>> \in Holders(i)
        BY <3>1 DEF Holders
      <3> QED
        BY <3>2
    <2>4. CASE o \notin {"work", "jobs"}
      <3>1. <<o>> \in Holders(i)
        BY <2>1, <2>4 DEF Holders, In, Places
      <3> QED
        BY <3>1
    <2> QED
      BY <2>2, <2>3, <2>4
  <1> QED
    BY <1>1, ImageInit, ImageStep, PTL DEF Spec
=============================================================================
