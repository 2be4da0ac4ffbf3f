------------------------- MODULE LayerQueuesProofs -------------------------
(***************************************************************************)
(* A queue of the device is never in two threads' driver calls at once, no *)
(* thread works on a swapchain that was freed, and the device with the     *)
(* layer in it implements DeviceContract: for every number of threads,     *)
(* swapchains and queues; the queues and the contract as long as the       *)
(* surface can be asked what presents to it.                               *)
(***************************************************************************)
EXTENDS LayerQueues, TLAPS

\* The places at which a thread of the application is in the driver.
InDriver == {"inQueue", "adapter", "inInline", "inDevice", "waitedQueue"}

Types ==
    /\ driver \in [Threads -> SUBSET (AllQueues \union {layerQueue})]
    /\ pc = [a \in Apps |-> pc[a]]
    /\ call \in [Apps -> Calls]
    /\ async \in [Swapchains -> {"yes", "cannot"}]

\* Who is in the driver with the layer's queue has its lock.
Owned == \A t \in Threads : layerQueue \in driver[t] => asyncOwner = t

\* The other queues are with the application's threads, each with those its
\* call is about; and no two calls are about the same one.
Lent == \A a \in Apps : driver[App(a)] \subseteq Uses(a) \union {layerQueue}
OwnOnly == \A s \in Swapchains :
    driver[Worker(s)] \subseteq {layerQueue} /\ driver[Presenter(s)] \subseteq {layerQueue}
Apart == \A a, b \in Apps : a # b => Uses(a) \intersect Uses(b) = {}

\* A call that is over, or has yet to go on, has the driver behind it.
Outside == \A a \in Apps : pc[a] \notin InDriver => driver[App(a)] = {}

\* Which call a thread is in at a place of the code, and that a frame is not
\* presented on the layer's queue, shared, unless that queue can.
CallOK(a) ==
    /\ call[a].kind \in {"queue", "present"} => call[a].queue \in AppQueues
    /\ call[a].kind = "present" =>
        /\ call[a].sc \in Swapchains
        /\ async[call[a].sc] = "cannot" => call[a].queue # layerQueue
    /\ pc[a] \in {"lockQueue", "enterQueue"} => call[a].kind = "queue"
    /\ pc[a] = "enterQueue" => call[a].queue # layerQueue
    /\ pc[a] \in {"find", "reserve", "adapter", "enqueue", "inline"} => call[a].kind = "present"
    /\ pc[a] \in {"drainWork", "drainJobs"} => call[a].kind \in {"present", "idle"}
    /\ pc[a] \in {"drainLock", "drainNext", "waitDevice"} => call[a].kind = "idle"
CallsOK == \A a \in Apps : CallOK(a)

UseInv == Types /\ Owned /\ Lent /\ OwnOnly /\ Apart /\ Outside /\ CallsOK

-----------------------------------------------------------------------------
(* The threads are different records. *)

LEMMA ThreadsApart ==
  /\ \A a \in Apps : App(a) \in Threads
  /\ \A s \in Swapchains : Worker(s) \in Threads /\ Presenter(s) \in Threads
  /\ \A a, b \in Apps : App(a) = App(b) => a = b
  /\ \A a \in Apps, s \in Swapchains : App(a) # Worker(s) /\ App(a) # Presenter(s)
  /\ \A t \in Threads : \/ \E a \in Apps : t = App(a)
                        \/ \E s \in Swapchains : t = Worker(s) \/ t = Presenter(s)
  BY DEF Threads, App, Worker, Presenter

\* The invariant is enough: two threads with one queue are two of the
\* application's, for the layer's queue is under its lock.
LEMMA UseExclusive == UseInv => QueueExclusive
  <1> SUFFICES ASSUME UseInv, NEW t \in Threads, NEW u \in Threads, t # u,
                      NEW q, q \in driver[t], q \in driver[u]
               PROVE  FALSE
    BY DEF QueueExclusive
  <1>1. CASE q = layerQueue
    BY <1>1 DEF UseInv, Owned
  <1>2. CASE q # layerQueue
    <2>1. PICK a \in Apps : t = App(a)
      BY <1>2, ThreadsApart DEF UseInv, OwnOnly
    <2>2. PICK b \in Apps : u = App(b)
      BY <1>2, ThreadsApart DEF UseInv, OwnOnly
    <2>3. q \in Uses(a) /\ q \in Uses(b) /\ a # b
      BY <1>2, <2>1, <2>2 DEF UseInv, Lent
    <2> QED
      BY <2>3 DEF UseInv, Apart
  <1> QED
    BY <1>1, <1>2

-----------------------------------------------------------------------------
(* A thread goes into the driver and comes back. *)

DriverOK == Owned /\ Lent /\ OwnOnly /\ Outside

\* In the driver with the layer's queue under its lock, with the call's other
\* queues without.
LEMMA AppEnters ==
  ASSUME UseInv, NEW a \in Apps, NEW Q \in SUBSET (AllQueues \union {layerQueue}),
         Enter(App(a), Q), Q \subseteq Uses(a) \union {layerQueue},
         \/ asyncOwner = None /\ asyncOwner' = App(a)
         \/ asyncOwner' = asyncOwner /\ layerQueue \notin Q,
         NEW label \in InDriver, Goto(a, label), UNCHANGED <<layerQueue, call, async>>,
         label = "adapter" => call[a].kind = "present"
  PROVE  UseInv'
  <1> USE ThreadsApart
  <1>1. \A t \in Threads : driver'[t] = IF t = App(a) THEN Q ELSE driver[t]
    BY DEF UseInv, Types, Enter
  <1>2. \A b \in Apps : pc'[b] = IF b = a THEN label ELSE pc[b]
    BY DEF UseInv, Types, Goto
  <1>3. Types'
    BY DEF UseInv, Types, Enter, Goto, AllQueues
  <1>4. Owned'
    BY <1>1, LockAssumption DEF UseInv, Owned
  <1>5. Lent' /\ OwnOnly' /\ Apart'
    BY <1>1 DEF UseInv, Lent, OwnOnly, Apart, Uses
  <1>6. Outside'
    BY <1>1, <1>2 DEF UseInv, Outside
  <1>7. CallsOK'
    BY <1>2 DEF UseInv, CallsOK, CallOK, InDriver
  <1> QED
    BY <1>3, <1>4, <1>5, <1>6, <1>7 DEF UseInv

\* Back from the driver, and the lock, if it was taken, is free; what the
\* thread goes on with is still the call, or the call is over.
LEMMA AppLeaves ==
  ASSUME UseInv, NEW a \in Apps, Leave(App(a)), Unlock(App(a)),
         NEW label, Goto(a, label), UNCHANGED <<layerQueue, async>>,
         \/ label = "idle" /\ call' = [call EXCEPT ![a] = NoCall]
         \/ label \in {"enqueue", "free"} /\ UNCHANGED call,
         label = "enqueue" => call[a].kind = "present"
  PROVE  UseInv'
  <1> USE ThreadsApart
  <1>1. \A t \in Threads : driver'[t] = IF t = App(a) THEN {} ELSE driver[t]
    BY DEF UseInv, Types, Leave
  <1>2. \A b \in Apps : pc'[b] = IF b = a THEN label ELSE pc[b]
    BY DEF UseInv, Types, Goto
  <1>11. call \in [Apps -> Calls] /\ NoCall \in Calls
    BY DEF UseInv, Types, Calls, NoCall
  <1>12. call' = call \/ call' = [call EXCEPT ![a] = NoCall]
    OBVIOUS
  <1>3. Types'
    BY <1>11, <1>12 DEF UseInv, Types, Leave, Goto, AllQueues
  <1>4. \A b \in Apps : call'[b] = call[b] \/ (b = a /\ call'[b] = NoCall)
    BY <1>11, <1>12
  <1>5. \A b \in Apps : Uses(b)' = Uses(b) \/ (b = a /\ Uses(b)' = {})
    <2> TAKE b \in Apps
    <2>1. CASE call'[b] = call[b]
      BY <2>1 DEF Uses
    <2>2. CASE b = a /\ call'[b] = NoCall
      BY <2>2 DEF Uses, NoCall
    <2> QED
      BY <1>4, <2>1, <2>2
  <1>6. Owned'
    BY <1>1 DEF UseInv, Owned, Unlock
  <1>7. Lent' /\ OwnOnly' /\ Apart'
    BY <1>1, <1>5 DEF UseInv, Lent, OwnOnly, Apart
  <1>8. Outside'
    BY <1>1, <1>2 DEF UseInv, Outside
  <1>9. CallsOK'
    BY <1>2, <1>4 DEF UseInv, CallsOK, CallOK, NoCall
  <1> QED
    BY <1>3, <1>6, <1>7, <1>8, <1>9 DEF UseInv

\* A thread of the layer's, under the lock.
LEMMA LayerEnters ==
  ASSUME UseInv, NEW t \in Threads, \A a \in Apps : t # App(a), Enter(t, {layerQueue}),
         asyncOwner = None, asyncOwner' = t, UNCHANGED <<layerQueue, apps, async>>
  PROVE  UseInv'
  <1> USE ThreadsApart
  <1>1. \A u \in Threads : driver'[u] = IF u = t THEN {layerQueue} ELSE driver[u]
    BY DEF UseInv, Types, Enter
  <1>2. Types' /\ Apart' /\ CallsOK'
    BY DEF UseInv, Types, Enter, AllQueues, Apart, Uses, CallsOK, CallOK, apps
  <1>3. Owned'
    BY <1>1, LockAssumption DEF UseInv, Owned
  <1>4. Lent' /\ OwnOnly' /\ Outside'
    BY <1>1 DEF UseInv, Lent, OwnOnly, Outside, Uses, apps
  <1> QED
    BY <1>2, <1>3, <1>4 DEF UseInv

LEMMA LayerLeaves ==
  ASSUME UseInv, NEW t \in Threads, \A a \in Apps : t # App(a), Leave(t), Unlock(t),
         UNCHANGED <<layerQueue, apps, async>>
  PROVE  UseInv'
  <1> USE ThreadsApart
  <1>1. \A u \in Threads : driver'[u] = IF u = t THEN {} ELSE driver[u]
    BY DEF UseInv, Types, Leave
  <1>2. Types' /\ Apart' /\ CallsOK'
    BY DEF UseInv, Types, Leave, AllQueues, Apart, Uses, CallsOK, CallOK, apps
  <1>3. Owned'
    BY <1>1 DEF UseInv, Owned, Unlock
  <1>4. Lent' /\ OwnOnly' /\ Outside'
    BY <1>1 DEF UseInv, Lent, OwnOnly, Outside, Uses, apps
  <1> QED
    BY <1>2, <1>3, <1>4 DEF UseInv

-----------------------------------------------------------------------------
(* Steps outside the driver. *)

\* A thread goes on in its call, or is done with it.
LEMMA AppGoesOn ==
  ASSUME UseInv, NEW a \in Apps, pc[a] \notin InDriver,
         NEW label, label \notin InDriver, Goto(a, label),
         UNCHANGED <<layerQueue, driver, asyncOwner, async>>,
         \/ UNCHANGED call /\ CallOK(a)'
         \/ call' = [call EXCEPT ![a] = NoCall] /\ label = "idle"
  PROVE  UseInv'
  <1> USE ThreadsApart
  <1>1. \A b \in Apps : pc'[b] = IF b = a THEN label ELSE pc[b]
    BY DEF UseInv, Types, Goto
  <1>11. call \in [Apps -> Calls] /\ NoCall \in Calls
    BY DEF UseInv, Types, Calls, NoCall
  <1>12. call' = call \/ call' = [call EXCEPT ![a] = NoCall]
    OBVIOUS
  <1>2. Types'
    BY <1>11, <1>12 DEF UseInv, Types, Goto, AllQueues
  <1>3. \A b \in Apps : call'[b] = call[b] \/ (b = a /\ call'[b] = NoCall)
    BY <1>11, <1>12
  <1>4. \A b \in Apps : Uses(b)' = Uses(b) \/ (b = a /\ Uses(b)' = {})
    <2> TAKE b \in Apps
    <2>1. CASE call'[b] = call[b]
      BY <2>1 DEF Uses
    <2>2. CASE b = a /\ call'[b] = NoCall
      BY <2>2 DEF Uses, NoCall
    <2> QED
      BY <1>3, <2>1, <2>2
  <1>5. driver[App(a)] = {}
    BY DEF UseInv, Outside
  <1>6. Owned' /\ OwnOnly' /\ Outside'
    BY <1>1, <1>5 DEF UseInv, Owned, OwnOnly, Outside
  <1>7. Lent' /\ Apart'
    BY <1>4, <1>5 DEF UseInv, Lent, Apart
  <1>8. CallsOK'
    <2>1. ASSUME NEW b \in Apps, b # a PROVE CallOK(b)'
      BY <1>1, <1>3, <2>1 DEF UseInv, CallsOK, CallOK
    <2>2. CallOK(a)'
      BY <1>1, <1>11 DEF UseInv, Types, CallOK, NoCall
    <2> QED
      BY <2>1, <2>2 DEF CallsOK
  <1> QED
    BY <1>2, <1>6, <1>7, <1>8 DEF UseInv

\* A call begins, with queues nobody's call is about.
LEMMA AppCallsIn ==
  ASSUME UseInv, NEW a \in Apps, pc[a] = "idle", NEW c \in Calls,
         call' = [call EXCEPT ![a] = c], NEW label, label \notin InDriver, Goto(a, label),
         \A b \in Apps : b # a => Uses(b) \intersect Uses(a)' = {},
         UNCHANGED <<layerQueue, driver, asyncOwner>>,
         async' \in [Swapchains -> {"yes", "cannot"}],
         \A b \in Apps : (b # a /\ call[b].kind = "present") =>
             async'[call[b].sc] = async[call[b].sc],
         CallOK(a)'
  PROVE  UseInv'
  <1> USE ThreadsApart
  <1>1. \A b \in Apps : pc'[b] = IF b = a THEN label ELSE pc[b]
    BY DEF UseInv, Types, Goto
  <1>2. \A b \in Apps : call'[b] = IF b = a THEN c ELSE call[b]
    BY DEF UseInv, Types
  <1>3. Types'
    BY DEF UseInv, Types, Goto, AllQueues
  <1>4. \A b \in Apps : b # a => Uses(b)' = Uses(b)
    BY <1>2 DEF Uses
  <1>5. driver[App(a)] = {}
    BY DEF UseInv, Outside, InDriver
  <1>6. Owned' /\ OwnOnly' /\ Outside'
    BY <1>1, <1>5 DEF UseInv, Owned, OwnOnly, Outside
  <1>7. Lent' /\ Apart'
    BY <1>4, <1>5 DEF UseInv, Lent, Apart
  <1>8. CallsOK'
    BY <1>1, <1>2 DEF UseInv, CallsOK, CallOK
  <1> QED
    BY <1>3, <1>6, <1>7, <1>8 DEF UseInv

LEMMA UseUnchanged ==
  ASSUME UseInv, UNCHANGED <<layerQueue, driver, asyncOwner, apps, async>>
  PROVE  UseInv'
  BY DEF UseInv, Types, AllQueues, Owned, Lent, OwnOnly, Apart, Uses, Outside, CallsOK, CallOK, apps

-----------------------------------------------------------------------------
(* Every step. *)

LEMMA UseInit == ~QueryMayFail /\ Init => UseInv
  <1> SUFFICES ASSUME Init PROVE UseInv
    OBVIOUS
  <1> USE ThreadsApart DEF Init
  <1>1. Types
    BY DEF Types, NoCall, Calls
  <1>2. Owned /\ Lent /\ OwnOnly /\ Outside
    BY DEF Owned, Lent, OwnOnly, Outside
  <1>3. Apart /\ CallsOK
    BY DEF Apart, Uses, CallsOK, CallOK, NoCall
  <1> QED
    BY <1>1, <1>2, <1>3 DEF UseInv

LEMMA UseAppCalls ==
  ASSUME ~QueryMayFail, UseInv, NEW a \in Apps, AppCalls(a)
  PROVE  UseInv'
  <1> USE DEF Begin, locks, swapchains, queues, threads
  <1>0. async \in [Swapchains -> {"yes", "cannot"}] /\ call \in [Apps -> Calls]
    BY DEF UseInv, Types
  <1>1. CASE \E q \in AppQueues : CallQueue(a, q)
    <2> PICK q \in AppQueues : CallQueue(a, q)
      BY <1>1
    <2> DEFINE c == [kind |-> "queue", queue |-> q, sc |-> None]
               label == IF SharedQueue(q) THEN "lockQueue" ELSE "enterQueue"
    <2>1. c \in Calls /\ call' = [call EXCEPT ![a] = c] /\ Goto(a, label) /\ pc[a] = "idle"
      BY DEF CallQueue, MayCall, Calls
    <2>2. call'[a] = c /\ Uses(a)' = {q}
      BY <1>0, <2>1 DEF Uses
    <2>3. CallOK(a)'
      BY <2>1, <2>2 DEF CallQueue, CallOK, UseInv, Types, Goto, SharedQueue, Shared
    <2> QED
      BY <1>0, <2>1, <2>2, <2>3, AppCallsIn DEF CallQueue, MayCall, InDriver
  <1>2. CASE \E q \in AppQueues, s \in Swapchains : CallPresent(a, q, s)
    <2> PICK q \in AppQueues, s \in Swapchains : CallPresent(a, q, s)
      BY <1>2
    <2> DEFINE c == [kind |-> "present", queue |-> q, sc |-> s]
    <2>1. c \in Calls /\ call' = [call EXCEPT ![a] = c] /\ Goto(a, "find") /\ pc[a] = "idle"
      BY DEF CallPresent, MayCall, Calls
    <2>2. call'[a] = c /\ Uses(a)' = {q}
      BY <1>0, <2>1 DEF Uses
    <2>3. CallOK(a)'
      BY <2>1, <2>2 DEF CallPresent, CallOK, UseInv, Types, Goto
    <2> QED
      BY <1>0, <2>1, <2>2, <2>3, AppCallsIn DEF CallPresent, MayCall, InDriver
  <1>3. CASE \E s \in Swapchains : CallCreate(a, s)
    <2> PICK s \in Swapchains : CallCreate(a, s)
      BY <1>3
    <2> DEFINE c == [kind |-> "create", queue |-> None, sc |-> s]
    <2>1. c \in Calls /\ call' = [call EXCEPT ![a] = c] /\ Goto(a, "link") /\ pc[a] = "idle"
      BY DEF CallCreate, Calls
    <2>2. call'[a] = c /\ Uses(a)' = {}
      BY <1>0, <2>1 DEF Uses
    <2>3. CallOK(a)'
      BY <2>1, <2>2 DEF CallCreate, CallOK, UseInv, Types, Goto
    <2>4. PICK answer \in {"yes", "cannot"} : async' = [async EXCEPT ![s] = answer]
      BY DEF CallCreate, Answers
    <2>5. \A b \in Apps : call[b].sc # s
      BY DEF CallCreate
    <2>6. /\ async' \in [Swapchains -> {"yes", "cannot"}]
          /\ \A x \in Swapchains : x # s => async'[x] = async[x]
      BY <1>0, <2>4
    <2>7. \A b \in Apps : call[b].kind = "present" => async'[call[b].sc] = async[call[b].sc]
      BY <2>5, <2>6 DEF UseInv, CallsOK, CallOK
    <2> QED
      BY <2>1, <2>2, <2>3, <2>6, <2>7, AppCallsIn DEF CallCreate, InDriver
  <1>4. CASE \E s \in Swapchains : CallDestroy(a, s)
    <2> PICK s \in Swapchains : CallDestroy(a, s)
      BY <1>4
    <2> DEFINE c == [kind |-> "destroy", queue |-> None, sc |-> s]
    <2>1. c \in Calls /\ call' = [call EXCEPT ![a] = c] /\ Goto(a, "unlink") /\ pc[a] = "idle"
      BY DEF CallDestroy, MayCall, Calls
    <2>2. call'[a] = c /\ Uses(a)' = {}
      BY <1>0, <2>1 DEF Uses
    <2>3. CallOK(a)'
      BY <2>1, <2>2 DEF CallDestroy, CallOK, UseInv, Types, Goto
    <2> QED
      BY <1>0, <2>1, <2>2, <2>3, AppCallsIn DEF CallDestroy, MayCall, InDriver
  <1>5. CASE CallIdle(a)
    <2> DEFINE c == [kind |-> "idle", queue |-> None, sc |-> None]
    <2>1. c \in Calls /\ call' = [call EXCEPT ![a] = c] /\ Goto(a, "drainLock") /\ pc[a] = "idle"
      BY <1>5 DEF CallIdle, MayCall, Calls
    <2>2. call'[a] = c /\ Uses(a)' = AppQueues
      BY <1>0, <2>1 DEF Uses
    <2>3. CallOK(a)'
      BY <1>5, <2>1, <2>2 DEF CallIdle, CallOK, UseInv, Types, Goto
    <2> QED
      BY <1>0, <1>5, <2>1, <2>2, <2>3, AppCallsIn DEF CallIdle, MayCall, InDriver
  <1>6. CASE CallEnd(a)
    <2> DEFINE c == [kind |-> "end", queue |-> None, sc |-> None]
    <2>1. c \in Calls /\ call' = [call EXCEPT ![a] = c] /\ Goto(a, "forget") /\ pc[a] = "idle"
      BY <1>6 DEF CallEnd, MayCall, Calls
    <2>2. call'[a] = c /\ Uses(a)' = AppQueues
      BY <1>0, <2>1 DEF Uses
    <2>3. CallOK(a)'
      BY <1>6, <2>1, <2>2 DEF CallEnd, CallOK, UseInv, Types, Goto
    <2> QED
      BY <1>0, <1>6, <2>1, <2>2, <2>3, AppCallsIn DEF CallEnd, MayCall, InDriver
  <1> QED
    BY <1>1, <1>2, <1>3, <1>4, <1>5, <1>6 DEF AppCalls

LEMMA UseAppStep ==
  ASSUME UseInv, NEW a \in Apps, AppStep(a)
  PROVE  UseInv'
  <1> USE DEF locks, swapchains, queues, threads, apps, InDriver
  <1>0. /\ CallOK(a)
        /\ \A label : Goto(a, label) => pc'[a] = label
    BY DEF UseInv, CallsOK, Types, Goto
  <1>1. CASE EnterQueue(a)
    <2>1. {call[a].queue} \in SUBSET (AllQueues \union {layerQueue}) /\ {call[a].queue} \subseteq Uses(a) \union {layerQueue}
      BY <1>0, <1>1 DEF EnterQueue, CallOK, Uses, AllQueues
    <2> QED
      BY <1>0, <1>1, <2>1, AppEnters DEF EnterQueue, CallOK
  <1>2. CASE QueueReturns(a)
    BY <1>2, AppLeaves DEF QueueReturns, Return
  <1>3. CASE Find(a)
    BY <1>0, <1>3, AppGoesOn DEF Find, CallOK
  <1>4. CASE Adapter(a)
    <2>1. {layerQueue} \in SUBSET (AllQueues \union {layerQueue}) /\ {layerQueue} \subseteq Uses(a) \union {layerQueue}
      BY <1>0, <1>4 DEF Adapter, CallOK, Uses, AllQueues
    <2> QED
      BY <1>0, <1>4, <2>1, AppEnters DEF Adapter, CallOK
  <1>5. CASE AdapterReturns(a)
    BY <1>0, <1>5, AppLeaves DEF AdapterReturns, CallOK
  <1>6. CASE Enqueue(a)
    BY <1>6, AppGoesOn DEF Enqueue
  <1>7. CASE Inline(a)
    <2>1. call[a].kind = "present" /\ call[a].queue \in AppQueues /\ Uses(a) = {call[a].queue}
      BY <1>0, <1>7 DEF Inline, CallOK, Uses
    <2>2. CASE async[call[a].sc] = "yes"
      BY <1>0, <1>7, <2>1, <2>2, AppEnters DEF Inline
    <2>3. CASE async[call[a].sc] # "yes"
      <3>1. call[a].queue # layerQueue
        BY <1>0, <2>1, <2>3 DEF CallOK, UseInv, Types
      <3> QED
        BY <1>0, <1>7, <2>1, <2>3, <3>1, AppEnters DEF Inline, AllQueues
    <2> QED
      BY <2>2, <2>3
  <1>8. CASE InlineReturns(a)
    BY <1>8, AppLeaves DEF InlineReturns, Return
  <1>9. CASE DrainWork(a)
    BY <1>0, <1>9, AppGoesOn DEF DrainWork, CallOK
  <1>10. CASE DrainJobs(a)
    BY <1>0, <1>10, AppGoesOn DEF DrainJobs, CallOK
  <1>11. CASE DrainLock(a)
    BY <1>0, <1>11, AppGoesOn DEF DrainLock, CallOK
  <1>12. CASE DrainNext(a)
    BY <1>0, <1>12, AppGoesOn DEF DrainNext, CallOK
  <1>13. CASE WaitDevice(a)
    <2>1. Uses(a) = AppQueues /\ AllQueues \subseteq AppQueues \union {layerQueue}
      BY <1>0, <1>13 DEF WaitDevice, CallOK, Uses, AllQueues
    <2>2. layerQueue = None => layerQueue \notin AllQueues
      BY QueuesAssumption DEF AllQueues
    <2> QED
      BY <1>0, <1>13, <2>1, <2>2, AppEnters DEF WaitDevice
  <1>14. CASE DeviceReturns(a)
    BY <1>14, AppLeaves DEF DeviceReturns, Return
  <1>15. CASE Link(a)
    BY <1>15, AppGoesOn DEF Link
  <1>16. CASE Unlink(a)
    BY <1>0, <1>16, AppGoesOn DEF Unlink, CallOK
  <1>17. CASE Forget(a)
    BY <1>0, <1>17, AppGoesOn DEF Forget, CallOK
  <1>18. CASE StopWorker(a)
    BY <1>0, <1>18, AppGoesOn DEF StopWorker, CallOK
  <1>19. CASE StopPresenter(a)
    BY <1>0, <1>19, AppGoesOn DEF StopPresenter, CallOK
  <1>20. CASE WaitQueue(a)
    <2>1. {layerQueue} \in SUBSET (AllQueues \union {layerQueue}) /\ {layerQueue} \subseteq Uses(a) \union {layerQueue}
      BY <1>0, <1>20 DEF WaitQueue, CallOK, Uses, AllQueues
    <2> QED
      BY <1>0, <1>20, <2>1, AppEnters DEF WaitQueue, CallOK
  <1>21. CASE WaitQueueReturns(a)
    BY <1>0, <1>21, AppLeaves DEF WaitQueueReturns, CallOK
  <1>22. CASE Free(a)
    <2>1. CASE call[a].kind = "destroy"
      BY <1>22, <2>1, AppGoesOn DEF Free
    <2>2. CASE call[a].kind # "destroy"
      BY <1>0, <1>22, <2>2, AppGoesOn DEF Free, CallOK
    <2> QED
      BY <2>1, <2>2
  <1>23. CASE DestroyDevice(a)
    BY <1>0, <1>23, AppGoesOn DEF DestroyDevice, CallOK
  <1> QED
    BY <1>1, <1>2, <1>3, <1>4, <1>5, <1>6, <1>7, <1>8, <1>9, <1>10, <1>11, <1>12, <1>13, <1>14, <1>15, <1>16, <1>17, <1>18, <1>19, <1>20, <1>21, <1>22, <1>23 DEF AppStep

LEMMA UseLayerStep ==
  ASSUME UseInv, NEW s \in Swapchains, WorkerStep(s) \/ PresenterStep(s)
  PROVE  UseInv'
  <1> USE ThreadsApart DEF locks, swapchains, queues, threads
  <1>1. CASE Submit(s)
    BY <1>1, LayerEnters DEF Submit
  <1>2. CASE SubmitReturns(s)
    BY <1>2, LayerLeaves DEF SubmitReturns
  <1>3. CASE Present(s)
    BY <1>3, LayerEnters DEF Present
  <1>4. CASE PresentReturns(s)
    BY <1>4, LayerLeaves DEF PresentReturns
  <1>5. CASE Handoff(s) \/ Pop(s) \/ Finish(s)
    <2>1. UNCHANGED <<layerQueue, driver, asyncOwner, apps, async>>
      BY <1>5 DEF Handoff, Pop, Finish
    <2> QED
      BY <2>1, UseUnchanged
  <1> QED
    BY <1>1, <1>2, <1>3, <1>4, <1>5 DEF WorkerStep, PresenterStep

THEOREM UseInductive == ~QueryMayFail /\ UseInv /\ [Next]_vars => UseInv'
  <1> SUFFICES ASSUME ~QueryMayFail, UseInv, [Next]_vars PROVE UseInv'
    OBVIOUS
  <1>1. CASE Next
    BY <1>1, UseAppCalls, UseAppStep, UseLayerStep DEF Next
  <1>2. CASE UNCHANGED vars
    BY <1>2, UseUnchanged DEF vars, locks, swapchains
  <1> QED
    BY <1>1, <1>2

\* No queue is ever in two threads' driver calls at once (layer.h:136-141):
\* layer_queue_lock and the hook's lock are enough, whatever the application
\* does with its own queues, if no surface fails to say whether the layer's
\* queue can present to it.
THEOREM QueuesAreExclusive == ~QueryMayFail => (Spec => []QueueExclusive)
  <1> SUFFICES ASSUME ~QueryMayFail PROVE Spec => []QueueExclusive
    OBVIOUS
  <1>1. Init => UseInv
    BY UseInit
  <1>2. UseInv /\ [Next]_vars => UseInv'
    BY UseInductive
  <1> QED
    BY <1>1, <1>2, UseExclusive, PTL DEF Spec

-----------------------------------------------------------------------------
(* Swapchains and the calls about them.                                    *)

Drains == {"drainNext", "drainWork", "drainJobs"}
Stops == {"stopWorker", "stopPresenter", "waitQueue", "waitedQueue", "free"}

\* A swapchain whose threads have nothing to do and nothing to come.
WorkerQuiet(s) == wpc[s] = "next" /\ work[s] = 0
Quiet(s) == WorkerQuiet(s) /\ ppc[s] = "next" /\ jobs[s] = 0

LifeTypes ==
    /\ driver = [t \in Threads |-> driver[t]]
    /\ pc = [a \in Apps |-> pc[a]]
    /\ call \in [Apps -> Calls]
    /\ todo \in [Apps -> Seq(Swapchains)]
    /\ list \in Seq(Swapchains)
    /\ life \in [Swapchains -> {"none", "listed", "unlisted", "freed"}]
    /\ work \in [Swapchains -> Nat] /\ jobs \in [Swapchains -> Nat]
    /\ wpc \in [Swapchains -> {"next", "submit", "handoff", "pop"}]
    /\ ppc \in [Swapchains -> {"next", "companion", "hold", "real", "finish"}]

\* The list holds the listed swapchains, each once.
ListOK ==
    /\ \A s \in Swapchains : life[s] = "listed" <=> \E n \in 1 .. Len(list) : list[n] = s
    /\ \A m, n \in 1 .. Len(list) : list[m] = list[n] => m = n

\* No two calls are about the same swapchain, a wait for the device meets no
\* present, and the device's end nothing at all.
CallsApart ==
    \A a, b \in Apps : a # b =>
        /\ call[a].sc = None \/ call[a].sc # call[b].sc
        /\ call[a].kind = "idle" => call[b].kind # "present"
        /\ call[a].kind = "end" => call[b].kind = "none"

\* Where a call can be.
Place(a) ==
    /\ call[a].kind = "none" => pc[a] = "idle" /\ call[a].sc = None
    /\ call[a].kind = "queue" => pc[a] \in {"lockQueue", "enterQueue", "inQueue"}
                                 /\ call[a].sc = None
    /\ call[a].kind = "present" =>
        /\ pc[a] \in {"find", "reserve", "adapter", "enqueue", "drainWork", "drainJobs",
                      "inline", "inInline"}
        /\ call[a].sc \in Swapchains /\ call[a].queue \in AppQueues
    /\ call[a].kind = "idle" =>
        pc[a] \in Drains \union {"drainLock", "waitDevice", "inDevice"} /\ call[a].sc = None
    /\ call[a].kind = "create" => pc[a] = "link" /\ call[a].sc \in Swapchains
    /\ call[a].kind = "destroy" => pc[a] \in Stops \union {"unlink"} /\ call[a].sc \in Swapchains
    /\ call[a].kind = "end" =>
        pc[a] \in Stops \union {"forget", "destroyDevice", "gone"} /\ call[a].sc = None

\* How far the life of the call's swapchain is.
About(a) ==
    /\ call[a].kind = "present" => life[call[a].sc] = "listed"
    /\ call[a].kind = "create" => life[call[a].sc] = "none"
    /\ call[a].kind = "destroy" => life[call[a].sc] = IF pc[a] = "unlink" THEN "listed" ELSE "unlisted"

\* A drain holds the lock, so what it has yet to wait for stays listed.
DrainOK(a) ==
    call[a].kind = "idle" /\ pc[a] \in Drains =>
        /\ devOwner = App(a)
        /\ \A n \in 1 .. Len(todo[a]) : life[todo[a][n]] = "listed"
        /\ pc[a] # "drainNext" => todo[a] # <<>>

\* What it has waited for, or was created since, owes no frame.
Drained(a) ==
    call[a].kind = "idle" /\ pc[a] \in Drains \union {"waitDevice"} =>
        /\ \A s \in Swapchains : life[s] = "listed" =>
               \/ pc[a] # "waitDevice" /\ \E n \in 1 .. Len(todo[a]) : todo[a][n] = s
               \/ work[s] = 0 /\ jobs[s] = 0
        /\ pc[a] = "drainJobs" => work[Head(todo[a])] = 0

\* What is taken down: the call's swapchain, or at the device's end all of them.
StopOK(a) ==
    /\ pc[a] \in Stops =>
        /\ call[a].kind = "destroy" => todo[a] = <<call[a].sc>>
        /\ todo[a] # <<>>
        /\ \A m, n \in 1 .. Len(todo[a]) : todo[a][m] = todo[a][n] => m = n
        /\ \A n \in 1 .. Len(todo[a]) : life[todo[a][n]] = "unlisted"
        /\ pc[a] # "stopWorker" => WorkerQuiet(Head(todo[a]))
        /\ pc[a] \in {"waitQueue", "waitedQueue", "free"} => Quiet(Head(todo[a]))
    /\ call[a].kind = "end" /\ pc[a] # "forget" => list = <<>>
    /\ pc[a] \in {"destroyDevice", "gone"} => \A s \in Swapchains : life[s] # "unlisted"

\* A swapchain off the list is being taken down.
Unlisted ==
    \A s \in Swapchains : life[s] = "unlisted" =>
        \E a \in Apps : pc[a] \in Stops /\ \E n \in 1 .. Len(todo[a]) : todo[a][n] = s

\* A thread has the frame it works on in its queue; frames are of living swapchains.
FramesOK ==
    \A s \in Swapchains :
        /\ wpc[s] # "next" => work[s] > 0
        /\ ppc[s] # "next" => jobs[s] > 0
        /\ ~Quiet(s) => life[s] \in {"listed", "unlisted"}

\* A lock is held at the places of the code it is taken for, and nobody is in
\* the driver elsewhere.
Held ==
    /\ devOwner # None =>
          \E a \in Apps : devOwner = App(a) /\ call[a].kind = "idle" /\ pc[a] \in Drains
    /\ asyncOwner # None =>
          \/ \E a \in Apps : asyncOwner = App(a) /\ pc[a] \in InDriver
          \/ \E s \in Swapchains : asyncOwner = Worker(s) /\ wpc[s] = "submit"
          \/ \E s \in Swapchains : asyncOwner = Presenter(s) /\ ppc[s] \in {"companion", "real"}
    /\ \A a \in Apps : pc[a] \notin InDriver => driver[App(a)] = {}
    /\ \A s \in Swapchains :
          /\ wpc[s] # "submit" => driver[Worker(s)] = {}
          /\ ppc[s] \notin {"companion", "real"} => driver[Presenter(s)] = {}

CallInv(a) == Place(a) /\ About(a) /\ DrainOK(a) /\ Drained(a) /\ StopOK(a)
LifeInv == LifeTypes /\ ListOK /\ CallsApart /\ (\A a \in Apps : CallInv(a)) /\ Unlisted /\ FramesOK /\ Held

-----------------------------------------------------------------------------
(* Steps of one thread of the application. *)

\* The first of a sequence, and what is left without it.
LEMMA FirstAndRest ==
  ASSUME NEW q \in Seq(Swapchains), q # <<>>
  PROVE  /\ Head(q) = q[1] /\ q[1] \in Swapchains /\ 1 \in 1 .. Len(q)
         /\ Tail(q) \in Seq(Swapchains) /\ Len(Tail(q)) = Len(q) - 1
         /\ \A n \in 1 .. Len(Tail(q)) : n + 1 \in 1 .. Len(q) /\ Tail(q)[n] = q[n + 1]
         /\ \A n \in 1 .. Len(q) : n # 1 => n - 1 \in 1 .. Len(Tail(q)) /\ Tail(q)[n - 1] = q[n]
  OBVIOUS

\* A step that moves thread a and leaves the swapchains alone.
LEMMA Moves ==
  ASSUME LifeInv, NEW a \in Apps, NEW label, Goto(a, label),
         UNCHANGED <<list, life, work, jobs, wpc, ppc>>,
         devOwner' = devOwner \/ devOwner \in {None, App(a)},
         driver' = [t \in Threads |-> driver'[t]],
         call' \in [Apps -> Calls], \A b \in Apps : b # a => call'[b] = call[b],
         todo' \in [Apps -> Seq(Swapchains)], \A b \in Apps : b # a => todo'[b] = todo[b],
         pc[a] \in Stops => label \in Stops /\ todo'[a] = todo[a],
         CallsApart', CallInv(a)', Held'
  PROVE  LifeInv'
  <1>1. \A b \in Apps : pc'[b] = IF b = a THEN label ELSE pc[b]
    BY DEF LifeInv, LifeTypes, Goto
  <1>2. LifeTypes'
    BY DEF LifeInv, LifeTypes, Goto
  <1>3. ListOK' /\ FramesOK'
    BY DEF LifeInv, ListOK, FramesOK, Quiet, WorkerQuiet
  <1>4. ASSUME NEW b \in Apps, b # a PROVE CallInv(b)'
    <2>1. pc'[b] = pc[b] /\ call'[b] = call[b] /\ todo'[b] = todo[b] /\ CallInv(b)
      BY <1>1, <1>4 DEF LifeInv
    <2>2. Place(b)' /\ About(b)' /\ Drained(b)' /\ StopOK(b)'
      BY <2>1 DEF CallInv, Place, About, Drained, StopOK, Quiet, WorkerQuiet
    <2>3. DrainOK(b)'
      <3>1. App(a) # App(b) /\ App(b) # None
        BY <1>4, ThreadsApart, LockAssumption
      <3> QED
        BY <2>1, <3>1 DEF CallInv, DrainOK
    <2> QED
      BY <2>2, <2>3 DEF CallInv
  <1>5. Unlisted'
    BY <1>1, SMTT(30) DEF LifeInv, Unlisted
  <1> QED
    BY <1>2, <1>3, <1>4, <1>5 DEF LifeInv

LEMMA NoCallIn == NoCall \in Calls
  BY DEF NoCall, Calls

\* The call goes on, or it is over.
Goes(a) == call' = call \/ call' = [call EXCEPT ![a] = NoCall]

LEMMA GoesOn ==
  ASSUME LifeInv, NEW a \in Apps, Goes(a)
  PROVE  /\ call' \in [Apps -> Calls]
         /\ \A b \in Apps : call'[b] = call[b] \/ (b = a /\ call'[b] = NoCall)
         /\ CallsApart'
  <1>1. call \in [Apps -> Calls]
    BY DEF LifeInv, LifeTypes
  <1>2. \A b \in Apps : call'[b] = call[b] \/ (b = a /\ call'[b] = NoCall)
    BY <1>1 DEF Goes
  <1>3. call' \in [Apps -> Calls]
    BY <1>1, NoCallIn DEF Goes
  <1> QED
    BY <1>2, <1>3 DEF LifeInv, CallsApart, NoCall

LEMMA HeldGoes ==
  ASSUME LifeInv, NEW a \in Apps, NEW label, Goto(a, label), Goes(a),
         UNCHANGED <<driver, locks, wpc, ppc>>,
         pc[a] \notin InDriver, label \notin InDriver,
         call[a].kind = "idle" /\ pc[a] \in Drains => label \in Drains /\ call' = call
  PROVE  Held'
  <1>1. \A b \in Apps : pc'[b] = IF b = a THEN label ELSE pc[b]
    BY DEF LifeInv, LifeTypes, Goto
  <1>2. \A b \in Apps : call'[b] = call[b] \/ (b = a /\ call'[b] = NoCall)
    BY GoesOn
  <1> QED
    BY <1>1, <1>2, ThreadsApart DEF LifeInv, Held, locks

LEMMA HeldEnters ==
  ASSUME LifeInv, NEW a \in Apps, NEW label \in InDriver, Goto(a, label), UNCHANGED call,
         NEW Q, Enter(App(a), Q), asyncOwner' \in {asyncOwner, App(a)},
         UNCHANGED <<devOwner, wpc, ppc>>, pc[a] \notin Drains
  PROVE  Held' /\ driver' = [t \in Threads |-> driver'[t]]
  <1>1. \A b \in Apps : pc'[b] = IF b = a THEN label ELSE pc[b]
    BY DEF LifeInv, LifeTypes, Goto
  <1>2. \A t \in Threads : driver'[t] = IF t = App(a) THEN Q ELSE driver[t]
    BY DEF LifeInv, LifeTypes, Enter
  <1>3. driver' = [t \in Threads |-> driver'[t]]
    BY DEF LifeInv, LifeTypes, Enter
  <1>4. devOwner' # None => \E b \in Apps : devOwner' = App(b) /\ call'[b].kind = "idle" /\ pc'[b] \in Drains
    BY <1>1 DEF LifeInv, Held
  <1>5. asyncOwner' # None =>
          \/ \E b \in Apps : asyncOwner' = App(b) /\ pc'[b] \in InDriver
          \/ \E s \in Swapchains : asyncOwner' = Worker(s) /\ wpc'[s] = "submit"
          \/ \E s \in Swapchains : asyncOwner' = Presenter(s) /\ ppc'[s] \in {"companion", "real"}
    BY <1>1 DEF LifeInv, Held
  <1> QED
    BY <1>1, <1>2, <1>3, <1>4, <1>5, ThreadsApart DEF LifeInv, Held

LEMMA HeldLeaves ==
  ASSUME LifeInv, NEW a \in Apps, NEW label, Goto(a, label), Goes(a),
         Leave(App(a)), Unlock(App(a)), UNCHANGED <<devOwner, wpc, ppc>>, pc[a] \in InDriver
  PROVE  Held' /\ driver' = [t \in Threads |-> driver'[t]]
  <1>1. \A b \in Apps : pc'[b] = IF b = a THEN label ELSE pc[b]
    BY DEF LifeInv, LifeTypes, Goto
  <1>2. \A t \in Threads : driver'[t] = IF t = App(a) THEN {} ELSE driver[t]
    BY DEF LifeInv, LifeTypes, Leave
  <1>3. driver' = [t \in Threads |-> driver'[t]]
    BY DEF LifeInv, LifeTypes, Leave
  <1>4. \A b \in Apps : call'[b] = call[b] \/ (b = a /\ call'[b] = NoCall)
    BY GoesOn
  <1>5. devOwner' # None => \E b \in Apps : devOwner' = App(b) /\ call'[b].kind = "idle" /\ pc'[b] \in Drains
    <2>1. pc[a] \notin Drains
      BY DEF Drains, InDriver
    <2> QED
      BY <1>1, <1>4, <2>1 DEF LifeInv, Held
  <1>6. asyncOwner' # None =>
          \/ \E b \in Apps : asyncOwner' = App(b) /\ pc'[b] \in InDriver
          \/ \E s \in Swapchains : asyncOwner' = Worker(s) /\ wpc'[s] = "submit"
          \/ \E s \in Swapchains : asyncOwner' = Presenter(s) /\ ppc'[s] \in {"companion", "real"}
    <2>1. asyncOwner' # None => asyncOwner' = asyncOwner /\ asyncOwner # App(a)
      BY DEF Unlock
    <2> QED
      BY <1>1, <2>1 DEF LifeInv, Held
  <1> QED
    BY <1>1, <1>2, <1>3, <1>5, <1>6, ThreadsApart DEF LifeInv, Held

\* A call begins.
LEMMA HeldBegins ==
  ASSUME LifeInv, NEW a \in Apps, pc[a] = "idle", NEW label, label \notin InDriver, Goto(a, label),
         \A b \in Apps : b # a => call'[b] = call[b], UNCHANGED <<driver, locks, wpc, ppc>>
  PROVE  Held'
  <1>1. \A b \in Apps : pc'[b] = IF b = a THEN label ELSE pc[b]
    BY DEF LifeInv, LifeTypes, Goto
  <1>2. pc[a] \notin Drains /\ pc[a] \notin InDriver
    BY DEF Drains, InDriver
  <1> QED
    BY <1>1, <1>2, ThreadsApart DEF LifeInv, Held, locks

LEMMA CallBegins ==
  ASSUME LifeInv, NEW a \in Apps, pc[a] = "idle", NEW c \in Calls,
         call' = [call EXCEPT ![a] = c], NEW label, label \notin InDriver, Goto(a, label),
         UNCHANGED <<driver, locks, todo, list, life, work, jobs, wpc, ppc>>,
         \A b \in Apps : b # a =>
            /\ c.sc = None \/ c.sc # call[b].sc
            /\ c.kind = "present" => call[b].kind # "idle"
            /\ c.kind = "idle" => call[b].kind # "present"
            /\ call[b].kind # "end"
            /\ c.kind = "end" => call[b].kind = "none",
         CallInv(a)'
  PROVE  LifeInv'
  <1>1. call \in [Apps -> Calls] /\ todo \in [Apps -> Seq(Swapchains)]
    BY DEF LifeInv, LifeTypes
  <1>2. call' \in [Apps -> Calls] /\ \A b \in Apps : call'[b] = IF b = a THEN c ELSE call[b]
    BY <1>1
  <1>3. CallsApart'
    BY <1>2 DEF LifeInv, CallsApart
  <1>4. Held'
    BY <1>2, HeldBegins
  <1>5. driver' = [t \in Threads |-> driver'[t]]
    BY DEF LifeInv, LifeTypes
  <1>6. pc[a] \notin Stops /\ devOwner' = devOwner
    BY DEF Stops, locks
  <1> QED
    BY <1>1, <1>2, <1>3, <1>4, <1>5, <1>6, Moves

\* A thread at rest is in no call.
LEMMA Resting ==
  ASSUME LifeInv, NEW a \in Apps, pc[a] = "idle"
  PROVE  call[a].kind = "none" /\ call[a].sc = None
  BY DEF LifeInv, LifeTypes, CallInv, Place, Calls, Drains, Stops

LEMMA LifeAppCalls ==
  ASSUME LifeInv, NEW a \in Apps, AppCalls(a)
  PROVE  LifeInv'
  <1> USE DEF Begin, locks, swapchains, queues, threads
  <1>0. /\ call \in [Apps -> Calls]
        /\ \A label : Goto(a, label) => pc'[a] = label
        /\ \A b \in Apps : Place(b)
    BY DEF LifeInv, LifeTypes, Goto, CallInv
  <1>1. CASE \E q \in AppQueues : CallQueue(a, q)
    <2> PICK q \in AppQueues : CallQueue(a, q)
      BY <1>1
    <2> DEFINE c == [kind |-> "queue", queue |-> q, sc |-> None]
               label == IF SharedQueue(q) THEN "lockQueue" ELSE "enterQueue"
    <2>1. c \in Calls /\ call' = [call EXCEPT ![a] = c] /\ Goto(a, label) /\ pc[a] = "idle"
      BY DEF CallQueue, MayCall, Calls
    <2>2. call'[a] = c /\ pc'[a] = label /\ label \in {"lockQueue", "enterQueue"}
      BY <1>0, <2>1
    <2>3. CallInv(a)'
      BY <2>2 DEF CallInv, Place, About, DrainOK, Drained, StopOK, Stops
    <2>4. label \notin InDriver
      BY DEF InDriver
    <2>5. c.sc = None /\ c.kind = "queue" /\ \A b \in Apps : call[b].kind # "end"
      BY DEF CallQueue, MayCall
    <2> QED
      BY <2>1, <2>3, <2>4, <2>5, CallBegins DEF CallQueue
  <1>2. CASE \E q \in AppQueues, s \in Swapchains : CallPresent(a, q, s)
    <2> PICK q \in AppQueues, s \in Swapchains : CallPresent(a, q, s)
      BY <1>2
    <2> DEFINE c == [kind |-> "present", queue |-> q, sc |-> s]
    <2>1. c \in Calls /\ call' = [call EXCEPT ![a] = c] /\ Goto(a, "find") /\ pc[a] = "idle"
      BY DEF CallPresent, MayCall, Calls
    <2>2. call'[a] = c /\ pc'[a] = "find" /\ life'[s] = "listed"
      BY <1>0, <2>1 DEF CallPresent
    <2>3. CallInv(a)'
      BY <2>2 DEF CallInv, Place, About, DrainOK, Drained, StopOK, Stops
    <2>4. "find" \notin InDriver
      BY DEF InDriver
    <2>5. \A b \in Apps : call[b].sc # s /\ call[b].kind # "end" /\ call[b].kind # "idle"
      BY DEF CallPresent, MayCall, Uses
    <2> QED
      BY <2>1, <2>3, <2>4, <2>5, CallBegins DEF CallPresent
  <1>3. CASE \E s \in Swapchains : CallCreate(a, s)
    <2> PICK s \in Swapchains : CallCreate(a, s)
      BY <1>3
    <2> DEFINE c == [kind |-> "create", queue |-> None, sc |-> s]
    <2>1. c \in Calls /\ call' = [call EXCEPT ![a] = c] /\ Goto(a, "link") /\ pc[a] = "idle"
      BY DEF CallCreate, Calls
    <2>2. call'[a] = c /\ pc'[a] = "link" /\ life'[s] = "none"
      BY <1>0, <2>1 DEF CallCreate
    <2>3. CallInv(a)'
      BY <2>2 DEF CallInv, Place, About, DrainOK, Drained, StopOK, Stops
    <2>4. "link" \notin InDriver
      BY DEF InDriver
    <2>5. c.sc = s /\ c.kind = "create" /\ \A b \in Apps : call[b].kind # "end" /\ call[b].sc # s
      BY DEF CallCreate
    <2> QED
      BY <2>1, <2>3, <2>4, <2>5, CallBegins DEF CallCreate
  <1>4. CASE \E s \in Swapchains : CallDestroy(a, s)
    <2> PICK s \in Swapchains : CallDestroy(a, s)
      BY <1>4
    <2> DEFINE c == [kind |-> "destroy", queue |-> None, sc |-> s]
    <2>1. c \in Calls /\ call' = [call EXCEPT ![a] = c] /\ Goto(a, "unlink") /\ pc[a] = "idle"
      BY DEF CallDestroy, MayCall, Calls
    <2>2. call'[a] = c /\ pc'[a] = "unlink" /\ life'[s] = "listed"
      BY <1>0, <2>1 DEF CallDestroy
    <2>3. CallInv(a)'
      BY <2>2 DEF CallInv, Place, About, DrainOK, Drained, StopOK, Stops
    <2>4. "unlink" \notin InDriver
      BY DEF InDriver
    <2>5. c.sc = s /\ c.kind = "destroy" /\ \A b \in Apps : call[b].kind # "end" /\ call[b].sc # s
      BY DEF CallDestroy, MayCall
    <2> QED
      BY <2>1, <2>3, <2>4, <2>5, CallBegins DEF CallDestroy
  <1>5. CASE CallIdle(a)
    <2> DEFINE c == [kind |-> "idle", queue |-> None, sc |-> None]
    <2>1. c \in Calls /\ call' = [call EXCEPT ![a] = c] /\ Goto(a, "drainLock") /\ pc[a] = "idle"
      BY <1>5 DEF CallIdle, MayCall, Calls
    <2>2. call'[a] = c /\ pc'[a] = "drainLock"
      BY <1>0, <2>1
    <2>3. CallInv(a)'
      BY <2>2 DEF CallInv, Place, About, DrainOK, Drained, StopOK, Stops, Drains
    <2>4. "drainLock" \notin InDriver
      BY DEF InDriver
    <2>5. \A b \in Apps : call[b].kind # "end" /\ call[b].kind # "present"
      BY <1>0, <1>5 DEF CallIdle, MayCall, Uses, Place
    <2> QED
      BY <1>5, <2>1, <2>3, <2>4, <2>5, CallBegins DEF CallIdle
  <1>6. CASE CallEnd(a)
    <2> DEFINE c == [kind |-> "end", queue |-> None, sc |-> None]
    <2>1. c \in Calls /\ call' = [call EXCEPT ![a] = c] /\ Goto(a, "forget") /\ pc[a] = "idle"
      BY <1>6 DEF CallEnd, MayCall, Calls
    <2>2. call'[a] = c /\ pc'[a] = "forget"
      BY <1>0, <2>1
    <2>3. CallInv(a)'
      BY <2>2 DEF CallInv, Place, About, DrainOK, Drained, StopOK, Stops
    <2>4. "forget" \notin InDriver
      BY DEF InDriver
    <2>5. \A b \in Apps : call[b].kind = "none"
      BY <1>6, Resting DEF CallEnd
    <2> QED
      BY <1>6, <2>1, <2>3, <2>4, <2>5, CallBegins DEF CallEnd
  <1> QED
    BY <1>1, <1>2, <1>3, <1>4, <1>5, <1>6 DEF AppCalls

-----------------------------------------------------------------------------
(* The steps of a call. *)

\* dev->lock is taken for a drain, or given back after it.
LEMMA HeldLocks ==
  ASSUME LifeInv, NEW a \in Apps, NEW label, Goto(a, label), call[a].kind = "idle",
         UNCHANGED <<driver, asyncOwner, call, wpc, ppc>>,
         pc[a] \notin InDriver, label \notin InDriver,
         (devOwner' = App(a) /\ label \in Drains) \/ devOwner' = None
  PROVE  Held'
  <1>1. \A b \in Apps : pc'[b] = IF b = a THEN label ELSE pc[b]
    BY DEF LifeInv, LifeTypes, Goto
  <1> QED
    BY <1>1, ThreadsApart DEF LifeInv, Held

\* Everything about a thread that its place and its call decide.
LEMMA At ==
  ASSUME LifeInv, NEW a \in Apps
  PROVE  /\ \A label : Goto(a, label) => pc'[a] = label
         /\ call \in [Apps -> Calls] /\ todo \in [Apps -> Seq(Swapchains)]
         /\ todo[a] \in Seq(Swapchains)
         /\ call[a].kind \in {"none", "queue", "present", "idle", "create", "destroy", "end"}
         /\ Place(a) /\ About(a) /\ DrainOK(a) /\ Drained(a) /\ StopOK(a)
         /\ driver = [t \in Threads |-> driver[t]]
  BY DEF LifeInv, LifeTypes, Goto, CallInv, Calls

\* A thread goes on outside the driver with nothing but its place changed.
LEMMA Walks ==
  ASSUME LifeInv, NEW a \in Apps, NEW label, Goto(a, label), label \notin InDriver,
         pc[a] \notin InDriver, UNCHANGED <<driver, locks, call, todo, list, life, queues, threads>>,
         pc[a] \in Stops => label \in Stops,
         call[a].kind = "idle" /\ pc[a] \in Drains => label \in Drains,
         CallInv(a)'
  PROVE  LifeInv'
  <1>1. CallsApart'
    BY DEF LifeInv, CallsApart
  <1>2. Held'
    BY HeldGoes DEF Goes, threads
  <1> QED
    BY <1>1, <1>2, Moves, At DEF locks, queues, threads

\* A thread goes into the driver.
LEMMA WalksIn ==
  ASSUME LifeInv, NEW a \in Apps, NEW label \in InDriver, Goto(a, label), NEW Q,
         Enter(App(a), Q), asyncOwner' \in {asyncOwner, App(a)},
         UNCHANGED <<devOwner, call, todo, list, life, queues, threads>>,
         pc[a] \notin Drains, pc[a] \in Stops => label \in Stops, CallInv(a)'
  PROVE  LifeInv'
  <1>1. CallsApart'
    BY DEF LifeInv, CallsApart
  <1>2. Held' /\ driver' = [t \in Threads |-> driver'[t]]
    BY HeldEnters DEF threads
  <1> QED
    BY <1>1, <1>2, Moves, At DEF queues, threads

\* A thread comes back, to go on or for good.
LEMMA WalksOut ==
  ASSUME LifeInv, NEW a \in Apps, pc[a] \in InDriver, NEW label, Goto(a, label), Goes(a),
         Leave(App(a)), Unlock(App(a)),
         UNCHANGED <<devOwner, todo, list, life, queues, threads>>,
         pc[a] \in Stops => label \in Stops, CallInv(a)'
  PROVE  LifeInv'
  <1>1. CallsApart' /\ call' \in [Apps -> Calls] /\ \A b \in Apps : b # a => call'[b] = call[b]
    BY GoesOn
  <1>2. Held' /\ driver' = [t \in Threads |-> driver'[t]]
    BY HeldLeaves DEF threads
  <1> QED
    BY <1>1, <1>2, Moves, At DEF queues, threads

LEMMA Returns ==
  ASSUME LifeInv, NEW a \in Apps, NEW label \in InDriver \ {"waitedQueue"}, Return(a, label)
  PROVE  LifeInv'
  <1>1. pc'[a] = "idle" /\ call'[a] = NoCall /\ pc[a] \in InDriver
    BY At DEF Return
  <1>2. CallInv(a)'
    BY <1>1 DEF CallInv, Place, About, DrainOK, Drained, StopOK, Stops, Drains, NoCall
  <1>3. pc[a] \notin Stops
    BY DEF Return, InDriver, Stops
  <1> QED
    BY <1>1, <1>2, <1>3, WalksOut DEF Return, Goes, swapchains

LEMMA LifeQueueStep ==
  ASSUME LifeInv, NEW a \in Apps,
         EnterQueue(a) \/ QueueReturns(a) \/ InlineReturns(a) \/ DeviceReturns(a)
  PROVE  LifeInv'
  <1>1. CASE EnterQueue(a)
    <2>1. Goto(a, "inQueue") /\ pc'[a] = "inQueue" /\ call' = call /\ pc[a] \in {"enterQueue", "lockQueue"}
      BY <1>1, At DEF EnterQueue
    <2>2. call[a].kind = "queue" /\ call[a].sc = None
      BY <2>1, At DEF Place, Drains, Stops
    <2>3. CallInv(a)'
      BY <2>1, <2>2 DEF CallInv, Place, About, DrainOK, Drained, StopOK, Stops
    <2> QED
      BY <1>1, <2>1, <2>3, WalksIn DEF EnterQueue, InDriver, Drains, Stops, swapchains
  <1>2. CASE QueueReturns(a)
    BY <1>2, Returns DEF QueueReturns, InDriver
  <1>3. CASE InlineReturns(a)
    BY <1>3, Returns DEF InlineReturns, InDriver
  <1>4. CASE DeviceReturns(a)
    BY <1>4, Returns DEF DeviceReturns, InDriver
  <1> QED
    BY <1>1, <1>2, <1>3, <1>4

\* The hook, until the frame is handed over or presented.
LEMMA LifePresentStep ==
  ASSUME LifeInv, NEW a \in Apps, Find(a) \/ Adapter(a) \/ AdapterReturns(a) \/ Inline(a)
  PROVE  LifeInv'
  <1> USE DEF swapchains, locks
  <1>1. call[a].kind = "present" /\ life[call[a].sc] = "listed"
        /\ call[a].sc \in Swapchains /\ call[a].queue \in AppQueues
    <2>1. pc[a] \in {"find", "reserve", "adapter", "inline"}
      BY DEF Find, Adapter, AdapterReturns, Inline
    <2> QED
      BY <2>1, At DEF Place, About, Drains, Stops
  <1>2. ASSUME NEW label \in {"reserve", "drainWork", "inline", "adapter", "enqueue", "inInline"},
               Goto(a, label), call' = call, life' = life
        PROVE  CallInv(a)'
    <2>1. pc'[a] = label
      BY <1>2, At
    <2> QED
      BY <1>1, <1>2, <2>1 DEF CallInv, Place, About, DrainOK, Drained, StopOK, Stops
  <1>3. CASE Find(a)
    <2> PICK label \in {"reserve", "drainWork", "inline"} : Goto(a, label)
      BY <1>3 DEF Find
    <2> QED
      BY <1>1, <1>2, <1>3, Walks DEF Find, InDriver, Stops
  <1>4. CASE Adapter(a)
    BY <1>1, <1>2, <1>4, WalksIn DEF Adapter, InDriver, Drains, Stops
  <1>5. CASE AdapterReturns(a)
    BY <1>1, <1>2, <1>5, WalksOut DEF AdapterReturns, InDriver, Stops, Goes
  <1>6. CASE Inline(a)
    <2> PICK Q : Enter(App(a), Q) /\ asyncOwner' \in {asyncOwner, App(a)}
      BY <1>6 DEF Inline
    <2> QED
      BY <1>1, <1>2, <1>6, WalksIn DEF Inline, InDriver, Drains, Stops
  <1> QED
    BY <1>3, <1>4, <1>5, <1>6

\* The waits for a swapchain's threads: a present's, and a device's one
\* swapchain after the other.
LEMMA LifeDrainStep ==
  ASSUME LifeInv, NEW a \in Apps,
         DrainWork(a) \/ DrainJobs(a) \/ DrainLock(a) \/ DrainNext(a) \/ WaitDevice(a)
  PROVE  LifeInv'
  <1> USE DEF swapchains, locks, queues, threads
  <1> DEFINE label == pc'[a]
  <1>0. pc[a] \in {"drainWork", "drainJobs", "drainLock", "drainNext", "waitDevice"}
        /\ UNCHANGED <<call, list, life, work, jobs, wpc, ppc>>
    BY DEF DrainWork, DrainJobs, DrainLock, DrainNext, WaitDevice
  <1>1. \/ /\ call[a].kind = "present" /\ life[call[a].sc] = "listed"
           /\ call[a].sc \in Swapchains /\ call[a].queue \in AppQueues
           /\ pc[a] \in {"drainWork", "drainJobs"}
        \/ call[a].kind = "idle" /\ call[a].sc = None
    BY <1>0, At DEF Place, About, Drains, Stops
  <1>2. ASSUME call[a].kind = "present", pc'[a] \in {"drainJobs", "inline"} PROVE CallInv(a)'
    BY <1>0, <1>1, <1>2 DEF CallInv, Place, About, DrainOK, Drained, StopOK, Stops
  <1>3. CallsApart'
    BY <1>0 DEF LifeInv, CallsApart
  <1>4. CASE DrainWork(a)
    <2>1. Goto(a, "drainJobs") /\ pc'[a] = "drainJobs" /\ pc[a] = "drainWork" /\ work[Draining(a)] = 0
      BY <1>4, At DEF DrainWork
    <2>2. ASSUME call[a].kind = "idle" PROVE CallInv(a)'
      <3>1. work[Head(todo[a])] = 0 /\ UNCHANGED <<todo, devOwner>>
        BY <1>4, <2>1, <2>2 DEF Draining, DrainWork
      <3> QED
        BY <1>0, <1>1, <2>1, <2>2, <3>1, At DEF CallInv, Place, About, DrainOK, Drained, StopOK, Stops, Drains
    <2> QED
      BY <1>1, <1>2, <1>4, <2>1, <2>2, Walks DEF DrainWork, InDriver, Stops, Drains
  <1>5. CASE DrainJobs(a)
    <2>1. CASE call[a].kind = "present"
      <3>1. Goto(a, "inline") /\ pc'[a] = "inline" /\ UNCHANGED todo
        BY <1>5, <2>1, At DEF DrainJobs
      <3> QED
        BY <1>2, <1>5, <2>1, <3>1, Walks DEF DrainJobs, InDriver, Stops, Drains
    <2>2. CASE call[a].kind = "idle"
      <3>1. /\ Goto(a, "drainNext") /\ pc'[a] = "drainNext" /\ pc[a] = "drainJobs"
            /\ todo' = [todo EXCEPT ![a] = Tail(@)] /\ jobs[Head(todo[a])] = 0
        BY <1>5, <2>2, At DEF DrainJobs, Draining
      <3>2. /\ todo[a] # <<>> /\ devOwner = App(a) /\ todo'[a] = Tail(todo[a])
            /\ work[Head(todo[a])] = 0
        BY <2>2, <3>1, At DEF DrainOK, Drained, Drains
      <3>3. DrainOK(a)'
        <4>1. \A n \in 1 .. Len(todo'[a]) : life[todo'[a][n]] = "listed"
          BY <2>2, <3>1, <3>2, FirstAndRest, At DEF DrainOK, Drains
        <4> QED
          BY <1>0, <1>5, <3>1, <3>2, <4>1 DEF DrainOK, DrainJobs
      <3>4. Drained(a)'
        <4> SUFFICES ASSUME NEW s \in Swapchains, life[s] = "listed"
                     PROVE  \/ \E n \in 1 .. Len(todo'[a]) : todo'[a][n] = s
                            \/ work[s] = 0 /\ jobs[s] = 0
          BY <1>0, <3>1 DEF Drained
        <4>1. (\E n \in 1 .. Len(todo[a]) : todo[a][n] = s) \/ (work[s] = 0 /\ jobs[s] = 0)
          BY <2>2, <3>1, At DEF Drained, Drains
        <4>2. ASSUME NEW n \in 1 .. Len(todo[a]), todo[a][n] = s, n # 1
              PROVE  \E m \in 1 .. Len(todo'[a]) : todo'[a][m] = s
          BY <3>2, <4>2, FirstAndRest, At
        <4>3. ASSUME NEW n \in 1 .. Len(todo[a]), todo[a][n] = s, n = 1
              PROVE  work[s] = 0 /\ jobs[s] = 0
          BY <3>1, <3>2, <4>3, FirstAndRest, At
        <4> QED
          BY <4>1, <4>2, <4>3
      <3>5. CallInv(a)'
        BY <1>0, <1>1, <2>2, <3>1, <3>3, <3>4 DEF CallInv, Place, About, StopOK, Stops, Drains
      <3>6. Held'
        BY <1>0, <1>5, <3>1, HeldGoes DEF Goes, DrainJobs, InDriver, Drains
      <3>7. todo' \in [Apps -> Seq(Swapchains)] /\ \A b \in Apps : b # a => todo'[b] = todo[b]
        BY <3>1, <3>2, FirstAndRest, At
      <3> QED
        BY <1>0, <1>3, <1>5, <3>1, <3>5, <3>6, <3>7, Moves, At DEF DrainJobs, Stops
    <2> QED
      BY <1>1, <2>1, <2>2
  <1>6. CASE DrainLock(a)
    <2>1. /\ Goto(a, "drainNext") /\ pc'[a] = "drainNext" /\ pc[a] = "drainLock" /\ devOwner = None
          /\ devOwner' = App(a) /\ todo' = [todo EXCEPT ![a] = list] /\ call[a].kind = "idle"
      BY <1>1, <1>6, At DEF DrainLock, DrainHolder, ToDrain
    <2>2. todo'[a] = list /\ list \in Seq(Swapchains) /\ ListOK
      BY <2>1, At DEF LifeInv, LifeTypes
    <2>3. DrainOK(a)' /\ Drained(a)'
      BY <1>0, <2>1, <2>2 DEF DrainOK, Drained, ListOK
    <2>4. CallInv(a)'
      BY <1>0, <1>1, <2>1, <2>3 DEF CallInv, Place, About, StopOK, Stops, Drains
    <2>5. Held'
      BY <1>0, <1>6, <2>1, HeldLocks DEF DrainLock, InDriver, Drains
    <2>6. todo' \in [Apps -> Seq(Swapchains)] /\ \A b \in Apps : b # a => todo'[b] = todo[b]
      BY <2>1, <2>2, At
    <2> QED
      BY <1>0, <1>3, <1>6, <2>1, <2>4, <2>5, <2>6, Moves, At DEF DrainLock, Stops
  <1>7. CASE DrainNext(a)
    <2>1. /\ pc[a] = "drainNext" /\ call[a].kind = "idle" /\ UNCHANGED <<driver, asyncOwner, todo>>
          /\ devOwner = App(a)
      BY <1>1, <1>7, At DEF DrainNext, DrainOK, Drains
    <2>2. CASE todo[a] # <<>>
      <3>1. Goto(a, "drainWork") /\ pc'[a] = "drainWork" /\ UNCHANGED devOwner
        BY <1>7, <2>2, At DEF DrainNext
      <3>2. CallInv(a)'
        BY <1>0, <1>1, <2>1, <2>2, <3>1, At DEF CallInv, Place, About, DrainOK, Drained, StopOK, Stops, Drains
      <3> QED
        BY <1>7, <2>1, <3>1, <3>2, Walks DEF DrainNext, InDriver, Stops, Drains
    <2>3. CASE todo[a] = <<>>
      <3>1. Goto(a, "waitDevice") /\ pc'[a] = "waitDevice" /\ devOwner' = None
        BY <1>7, <2>3, At DEF DrainNext
      <3>2. CallInv(a)'
        BY <1>0, <1>1, <2>1, <2>3, <3>1, At DEF CallInv, Place, About, DrainOK, Drained, StopOK, Stops, Drains
      <3>3. Held'
        BY <1>0, <2>1, <3>1, HeldLocks DEF InDriver
      <3> QED
        BY <1>0, <1>3, <2>1, <3>1, <3>2, <3>3, Moves, At DEF Stops
    <2> QED
      BY <2>2, <2>3
  <1>8. CASE WaitDevice(a)
    <2>1. /\ Goto(a, "inDevice") /\ pc'[a] = "inDevice" /\ Enter(App(a), AllQueues)
          /\ asyncOwner' \in {asyncOwner, App(a)} /\ UNCHANGED <<devOwner, todo>> /\ pc[a] = "waitDevice"
      BY <1>8, At DEF WaitDevice
    <2>2. CallInv(a)'
      BY <1>0, <1>1, <2>1 DEF CallInv, Place, About, DrainOK, Drained, StopOK, Stops, Drains
    <2> QED
      BY <1>0, <2>1, <2>2, WalksIn DEF InDriver, Stops, Drains
  <1> QED
    BY <1>4, <1>5, <1>6, <1>7, <1>8

\* A swapchain's threads are stopped and the layer's queue is waited for.
LEMMA LifeStopStep ==
  ASSUME LifeInv, NEW a \in Apps,
         \/ StopWorker(a) \/ StopPresenter(a) \/ WaitQueue(a) \/ WaitQueueReturns(a)
         \/ DestroyDevice(a)
  PROVE  LifeInv'
  <1> USE DEF swapchains, locks, queues, threads
  <1>0. pc[a] \in {"stopWorker", "stopPresenter", "waitQueue", "waitedQueue", "destroyDevice"}
        /\ UNCHANGED <<call, todo, list, life, work, jobs, wpc, ppc, devOwner>>
    BY DEF StopWorker, StopPresenter, WaitQueue, WaitQueueReturns, DestroyDevice
  <1>1. call[a].kind \in {"destroy", "end"}
    BY <1>0, At DEF Place, Drains
  <1>2. CASE StopWorker(a)
    <2>1. Goto(a, "stopPresenter") /\ pc'[a] = "stopPresenter" /\ pc[a] = "stopWorker"
          /\ WorkerQuiet(Head(todo[a]))
      BY <1>2, At DEF StopWorker, WorkerDone, WorkerQuiet
    <2>2. CallInv(a)'
      BY <1>0, <1>1, <2>1, At DEF CallInv, Place, About, DrainOK, Drained, StopOK, Stops, WorkerQuiet
    <2> QED
      BY <1>2, <2>1, <2>2, Walks DEF StopWorker, InDriver, Stops, Drains
  <1>3. CASE StopPresenter(a)
    <2> PICK label \in {"waitQueue", "free"} : Goto(a, label)
      BY <1>3 DEF StopPresenter
    <2>1. pc'[a] = label /\ pc[a] = "stopPresenter" /\ Quiet(Head(todo[a]))
      BY <1>3, At DEF StopPresenter, PresenterDone, Quiet, StopOK, Stops
    <2>2. CallInv(a)'
      BY <1>0, <1>1, <2>1, At DEF CallInv, Place, About, DrainOK, Drained, StopOK, Stops, WorkerQuiet, Quiet
    <2> QED
      BY <1>3, <2>1, <2>2, Walks DEF StopPresenter, InDriver, Stops, Drains
  <1>4. CASE WaitQueue(a)
    <2>1. Goto(a, "waitedQueue") /\ pc'[a] = "waitedQueue" /\ pc[a] = "waitQueue"
      BY <1>4, At DEF WaitQueue
    <2>2. CallInv(a)'
      BY <1>0, <1>1, <2>1, At DEF CallInv, Place, About, DrainOK, Drained, StopOK, Stops, WorkerQuiet, Quiet
    <2> QED
      BY <1>0, <1>4, <2>1, <2>2, WalksIn DEF WaitQueue, InDriver, Stops, Drains
  <1>5. CASE WaitQueueReturns(a)
    <2>1. Goto(a, "free") /\ pc'[a] = "free" /\ pc[a] = "waitedQueue"
      BY <1>5, At DEF WaitQueueReturns
    <2>2. CallInv(a)'
      BY <1>0, <1>1, <2>1, At DEF CallInv, Place, About, DrainOK, Drained, StopOK, Stops, WorkerQuiet, Quiet
    <2> QED
      BY <1>0, <1>5, <2>1, <2>2, WalksOut DEF WaitQueueReturns, InDriver, Stops, Goes
  <1>6. CASE DestroyDevice(a)
    <2>1. Goto(a, "gone") /\ pc'[a] = "gone" /\ pc[a] = "destroyDevice"
      BY <1>6, At DEF DestroyDevice
    <2>2. CallInv(a)'
      BY <1>0, <1>1, <2>1, At DEF CallInv, Place, About, DrainOK, Drained, StopOK, Stops, Drains
    <2> QED
      BY <1>6, <2>1, <2>2, Walks DEF DestroyDevice, InDriver, Stops, Drains
  <1> QED
    BY <1>2, <1>3, <1>4, <1>5, <1>6

\* A frame is handed to the threads: its swapchain is listed, and nobody is
\* waiting for the device.
LEMMA LifeEnqueue ==
  ASSUME LifeInv, NEW a \in Apps, Enqueue(a)
  PROVE  LifeInv'
  <1> USE DEF swapchains, locks, queues, threads
  <1> DEFINE s == call[a].sc
  <1>1. /\ pc[a] = "enqueue" /\ Goto(a, "idle") /\ pc'[a] = "idle" /\ Goes(a) /\ call'[a] = NoCall
        /\ call[a].kind = "present" /\ s \in Swapchains /\ life[s] = "listed"
    <2>1. pc[a] = "enqueue" /\ Goto(a, "idle") /\ call' = [call EXCEPT ![a] = NoCall]
      BY DEF Enqueue
    <2>2. pc'[a] = "idle" /\ call'[a] = NoCall /\ Goes(a)
      BY <2>1, At DEF Goes
    <2>3. call[a].kind = "present"
      BY <2>1, At DEF Place, Drains, Stops
    <2> QED
      BY <2>1, <2>2, <2>3, At DEF Place, About
  <1>2. /\ work' \in [Swapchains -> Nat] /\ work'[s] = work[s] + 1
        /\ \A x \in Swapchains : x # s => work'[x] = work[x]
        /\ UNCHANGED <<driver, asyncOwner, devOwner, todo, list, life, jobs, wpc, ppc>>
    BY <1>1 DEF Enqueue, LifeInv, LifeTypes
  <1>3. \A b \in Apps : pc'[b] = IF b = a THEN "idle" ELSE pc[b]
    BY <1>1 DEF LifeInv, LifeTypes, Goto
  <1>4. CallsApart' /\ call' \in [Apps -> Calls] /\ \A b \in Apps : b # a => call'[b] = call[b]
    BY <1>1, GoesOn
  <1>5. LifeTypes' /\ ListOK'
    <2>1. LifeTypes'
      BY <1>1, <1>2, <1>4 DEF LifeInv, LifeTypes, Goto
    <2>2. ListOK'
      BY <1>2 DEF LifeInv, ListOK
    <2> QED
      BY <2>1, <2>2
  <1>6. Held'
    BY <1>1, <1>2, HeldGoes DEF InDriver, Drains
  <1>7. FramesOK'
    BY <1>1, <1>2 DEF LifeInv, LifeTypes, FramesOK, Quiet, WorkerQuiet
  <1>8. Unlisted'
    BY <1>1, <1>2, <1>3 DEF LifeInv, Unlisted, Stops
  <1>9. ASSUME NEW b \in Apps, b # a PROVE CallInv(b)'
    <2>1. /\ pc'[b] = pc[b] /\ call'[b] = call[b] /\ todo'[b] = todo[b] /\ call[b].kind # "idle"
      BY <1>1, <1>2, <1>3, <1>4, <1>9 DEF LifeInv, CallsApart
    <2>2. Place(b)' /\ About(b)' /\ DrainOK(b)' /\ Drained(b)'
      BY <1>2, <2>1, At DEF Place, About, DrainOK, Drained
    <2>3. StopOK(b)'
      <3>1. CASE pc[b] \in Stops
        <4>1. todo[b] # <<>> /\ life[Head(todo[b])] = "unlisted" /\ Head(todo[b]) \in Swapchains
          <5>1. todo[b] # <<>> /\ todo[b] \in Seq(Swapchains) /\ \A n \in 1 .. Len(todo[b]) : life[todo[b][n]] = "unlisted"
            BY <3>1, At DEF StopOK
          <5> QED
            BY <5>1, FirstAndRest
        <4>2. work'[Head(todo[b])] = work[Head(todo[b])]
          BY <1>1, <1>2, <4>1
        <4> QED
          BY <1>2, <2>1, <4>2, At DEF StopOK, Quiet, WorkerQuiet
      <3>2. CASE pc[b] \notin Stops
        BY <1>2, <2>1, <3>2, At DEF StopOK
      <3> QED
        BY <3>1, <3>2
    <2> QED
      BY <2>2, <2>3 DEF CallInv
  <1>10. CallInv(a)'
    BY <1>1 DEF CallInv, Place, About, DrainOK, Drained, StopOK, Stops, Drains, NoCall
  <1> QED
    BY <1>4, <1>5, <1>6, <1>7, <1>8, <1>9, <1>10 DEF LifeInv

\* A swapchain enters the list, with no frame and nobody draining it.
LEMMA LifeLink ==
  ASSUME LifeInv, NEW a \in Apps, Link(a)
  PROVE  LifeInv'
  <1> USE DEF swapchains, locks, queues, threads
  <1> DEFINE s == call[a].sc
  <1>1. /\ pc[a] = "link" /\ devOwner = None /\ Goto(a, "idle") /\ pc'[a] = "idle" /\ Goes(a)
        /\ call'[a] = NoCall /\ call[a].kind = "create" /\ s \in Swapchains /\ life[s] = "none"
        /\ UNCHANGED <<driver, asyncOwner, devOwner, todo, work, jobs, wpc, ppc>>
    <2>1. /\ pc[a] = "link" /\ devOwner = None /\ Goto(a, "idle") /\ call' = [call EXCEPT ![a] = NoCall]
          /\ UNCHANGED <<driver, asyncOwner, devOwner, todo, work, jobs, wpc, ppc>>
      BY DEF Link
    <2>2. pc'[a] = "idle" /\ call'[a] = NoCall /\ Goes(a)
      BY <2>1, At DEF Goes
    <2>3. call[a].kind = "create"
      BY <2>1, At DEF Place, Drains, Stops
    <2> QED
      BY <2>1, <2>2, <2>3, At DEF Place, About
  <1>2. /\ life' = [life EXCEPT ![s] = "listed"] /\ list' = <<s>> \o list /\ list \in Seq(Swapchains)
        /\ life \in [Swapchains -> {"none", "listed", "unlisted", "freed"}]
    BY DEF Link, LifeInv, LifeTypes
  <1>3. \A b \in Apps : pc'[b] = IF b = a THEN "idle" ELSE pc[b]
    BY <1>1 DEF LifeInv, LifeTypes, Goto
  <1>4. CallsApart' /\ call' \in [Apps -> Calls] /\ \A b \in Apps : b # a => call'[b] = call[b]
    BY <1>1, GoesOn
  <1>5. \A x \in Swapchains : life'[x] = IF x = s THEN "listed" ELSE life[x]
    BY <1>2
  <1>6. /\ list' \in Seq(Swapchains) /\ Len(list') = Len(list) + 1 /\ list'[1] = s
        /\ \A n \in 1 .. Len(list) : n + 1 \in 1 .. Len(list') /\ list'[n + 1] = list[n]
        /\ \A n \in 1 .. Len(list') : n # 1 => n - 1 \in 1 .. Len(list) /\ list'[n] = list[n - 1]
    BY <1>1, <1>2
  <1>7. LifeTypes'
    BY <1>1, <1>2, <1>4, <1>6 DEF LifeInv, LifeTypes, Goto
  <1>8. ListOK'
    <2>1. \A n \in 1 .. Len(list) : list[n] # s
      BY <1>1 DEF LifeInv, ListOK
    <2>2. ASSUME NEW x \in Swapchains
          PROVE  life'[x] = "listed" <=> \E n \in 1 .. Len(list') : list'[n] = x
      <3>1. CASE x = s
        BY <1>2, <1>5, <1>6, <3>1
      <3>2. CASE x # s
        BY <1>2, <1>5, <1>6, <3>2 DEF LifeInv, ListOK
      <3> QED
        BY <3>1, <3>2
    <2>3. ASSUME NEW m \in 1 .. Len(list'), NEW n \in 1 .. Len(list'), list'[m] = list'[n]
          PROVE  m = n
      <3>1. CASE m = 1 /\ n # 1
        BY <1>6, <2>1, <2>3, <3>1
      <3>2. CASE m # 1 /\ n = 1
        BY <1>6, <2>1, <2>3, <3>2
      <3>3. CASE m # 1 /\ n # 1
        <4>1. list[m - 1] = list[n - 1] /\ m - 1 \in 1 .. Len(list) /\ n - 1 \in 1 .. Len(list)
          BY <1>6, <2>3, <3>3
        <4>2. m - 1 = n - 1
          BY <4>1 DEF LifeInv, ListOK
        <4> QED
          BY <4>2
      <3> QED
        BY <3>1, <3>2, <3>3
    <2> QED
      BY <2>2, <2>3 DEF ListOK
  <1>9. Held'
    BY <1>1, HeldGoes DEF InDriver, Drains
  <1>10. FramesOK'
    BY <1>1, <1>5 DEF LifeInv, FramesOK, Quiet, WorkerQuiet
  <1>11. Unlisted'
    BY <1>1, <1>3, <1>5 DEF LifeInv, Unlisted, Stops
  <1>12. ASSUME NEW b \in Apps, b # a PROVE CallInv(b)'
    <2>1. /\ pc'[b] = pc[b] /\ call'[b] = call[b] /\ todo'[b] = todo[b] /\ call[b].sc # s
          /\ call[b].kind # "end"
      BY <1>1, <1>3, <1>4, <1>12, LockAssumption DEF LifeInv, CallsApart
    <2>2. Place(b)' /\ About(b)'
      <3>1. Place(b) /\ About(b)
        BY At
      <3>2. Place(b)'
        BY <2>1, <3>1 DEF Place
      <3> QED
        BY <1>5, <2>1, <3>1, <3>2 DEF Place, About
    <2>3. ~(call[b].kind = "idle" /\ pc[b] \in Drains)
      BY <1>1, ThreadsApart, LockAssumption, At DEF DrainOK
    <2>4. work[s] = 0 /\ jobs[s] = 0
      BY <1>1 DEF LifeInv, FramesOK, Quiet, WorkerQuiet
    <2>5. DrainOK(b)' /\ Drained(b)'
      BY <1>1, <1>5, <2>1, <2>3, <2>4, At, SMTT(30) DEF DrainOK, Drained
    <2>6. StopOK(b)'
      <3>1. CASE pc[b] \in Stops
        <4>1. \A n \in 1 .. Len(todo[b]) : todo[b][n] \in Swapchains /\ life'[todo[b][n]] = "unlisted"
          BY <1>1, <1>5, <3>1, At, SMTT(30) DEF StopOK
        <4> QED
          BY <1>1, <2>1, <3>1, <4>1, At DEF StopOK, Quiet, WorkerQuiet, Stops
      <3>2. CASE pc[b] \notin Stops
        <4>1. pc[b] \notin {"destroyDevice", "gone"}
          BY <2>1, At DEF Place, Drains, Stops
        <4> QED
          BY <2>1, <3>2, <4>1, At DEF StopOK
      <3> QED
        BY <3>1, <3>2
    <2> QED
      BY <2>2, <2>5, <2>6 DEF CallInv
  <1>13. CallInv(a)'
    BY <1>1 DEF CallInv, Place, About, DrainOK, Drained, StopOK, Stops, Drains, NoCall
  <1> QED
    BY <1>4, <1>7, <1>8, <1>9, <1>10, <1>11, <1>12, <1>13 DEF LifeInv

\* The list without one of its swapchains.
LEMMA UnlinkedList ==
  ASSUME LifeInv, NEW s \in Swapchains, life[s] = "listed"
  PROVE  /\ Unlinked(s) \in Seq(Swapchains)
         /\ \A x \in Swapchains : (\E n \in 1 .. Len(Unlinked(s)) : Unlinked(s)[n] = x)
                                  <=> (x # s /\ \E n \in 1 .. Len(list) : list[n] = x)
         /\ \A m, n \in 1 .. Len(Unlinked(s)) : Unlinked(s)[m] = Unlinked(s)[n] => m = n
  <1> DEFINE k == CHOOSE n \in DOMAIN list : list[n] = s
             U == [m \in 1 .. Len(list) - 1 |-> IF m < k THEN list[m] ELSE list[m + 1]]
  <1>1. list \in Seq(Swapchains) /\ DOMAIN list = 1 .. Len(list) /\ Len(list) \in Nat
    BY DEF LifeInv, LifeTypes
  <1>2. k \in 1 .. Len(list) /\ list[k] = s
    <2>1. \E n \in DOMAIN list : list[n] = s
      BY <1>1 DEF LifeInv, ListOK
    <2> QED
      BY <1>1, <2>1
  <1>3. Unlinked(s) = U
    BY DEF Unlinked
  <1> HIDE DEF k
  <1>4. \A m, n \in 1 .. Len(list) : list[m] = list[n] => m = n
    BY DEF LifeInv, ListOK
  <1>5. U \in Seq(Swapchains) /\ Len(U) = Len(list) - 1
    BY <1>1, <1>2
  <1>6. \A m \in 1 .. Len(U) : U[m] = IF m < k THEN list[m] ELSE list[m + 1]
    BY <1>5
  <1> HIDE DEF U
  <1>7. \A m \in 1 .. Len(U) : U[m] # s
    BY <1>1, <1>2, <1>4, <1>5, <1>6
  <1>8. \A x \in Swapchains : (\E n \in 1 .. Len(U) : U[n] = x) => (x # s /\ \E n \in 1 .. Len(list) : list[n] = x)
    BY <1>1, <1>2, <1>5, <1>6, <1>7
  <1>9. ASSUME NEW x \in Swapchains, x # s, NEW n \in 1 .. Len(list), list[n] = x
        PROVE  \E m \in 1 .. Len(U) : U[m] = x
    <2>1. CASE n < k
      BY <1>1, <1>2, <1>5, <1>6, <1>9, <2>1
    <2>2. CASE n > k
      <3>1. n - 1 \in 1 .. Len(U) /\ U[n - 1] = list[n - 1 + 1] /\ n - 1 + 1 = n
        BY <1>1, <1>2, <1>5, <1>6, <2>2
      <3> QED
        BY <1>9, <3>1
    <2> QED
      BY <1>1, <1>2, <1>9, <2>1, <2>2
  <1>10. ASSUME NEW m \in 1 .. Len(U), NEW n \in 1 .. Len(U), U[m] = U[n] PROVE m = n
    BY <1>1, <1>2, <1>4, <1>5, <1>6, <1>10
  <1> QED
    BY <1>3, <1>5, <1>8, <1>9, <1>10

\* A swapchain leaves the list to be taken down.
LEMMA LifeUnlink ==
  ASSUME LifeInv, NEW a \in Apps, Unlink(a)
  PROVE  LifeInv'
  <1> USE DEF swapchains, locks, queues, threads
  <1> DEFINE s == call[a].sc
  <1>1. /\ pc[a] = "unlink" /\ devOwner = None /\ Goto(a, "stopWorker") /\ pc'[a] = "stopWorker"
        /\ call[a].kind = "destroy" /\ s \in Swapchains /\ life[s] = "listed"
        /\ UNCHANGED <<driver, asyncOwner, devOwner, call, work, jobs, wpc, ppc>>
    BY At DEF Unlink, Place, About, Drains, Stops
  <1>2. /\ life' = [life EXCEPT ![s] = "unlisted"] /\ list' = Unlinked(s)
        /\ todo' = [todo EXCEPT ![a] = <<s>>]
    BY DEF Unlink
  <1>3. \A b \in Apps : pc'[b] = IF b = a THEN "stopWorker" ELSE pc[b]
    BY <1>1 DEF LifeInv, LifeTypes, Goto
  <1>4. CallsApart'
    BY <1>1 DEF LifeInv, CallsApart
  <1>5. \A x \in Swapchains : life'[x] = IF x = s THEN "unlisted" ELSE life[x]
    BY <1>2 DEF LifeInv, LifeTypes
  <1>6. /\ todo' \in [Apps -> Seq(Swapchains)] /\ \A b \in Apps : b # a => todo'[b] = todo[b]
        /\ todo'[a] = <<s>> /\ Len(todo'[a]) = 1 /\ todo'[a] # <<>> /\ todo'[a][1] = s
    BY <1>1, <1>2, At
  <1>7. LifeTypes'
    BY <1>1, <1>2, <1>6, UnlinkedList DEF LifeInv, LifeTypes, Goto
  <1>8. ListOK'
    <2>1. /\ \A x \in Swapchains : (\E n \in 1 .. Len(list') : list'[n] = x)
                                  <=> (x # s /\ \E n \in 1 .. Len(list) : list[n] = x)
          /\ \A m, n \in 1 .. Len(list') : list'[m] = list'[n] => m = n
      <3> DEFINE U == Unlinked(s)
      <3>1. /\ \A x \in Swapchains : (\E n \in 1 .. Len(U) : U[n] = x)
                                    <=> (x # s /\ \E n \in 1 .. Len(list) : list[n] = x)
            /\ \A m, n \in 1 .. Len(U) : U[m] = U[n] => m = n
        BY <1>1, UnlinkedList
      <3>2. list' = U
        BY <1>2
      <3> HIDE DEF U, s
      <3> QED
        BY <3>1, <3>2
    <2>2. \A x \in Swapchains : life'[x] = "listed" <=> x # s /\ life[x] = "listed"
      BY <1>5
    <2> HIDE DEF s
    <2>3. \A x \in Swapchains : life[x] = "listed" <=> \E n \in 1 .. Len(list) : list[n] = x
      BY DEF LifeInv, ListOK
    <2> QED
      BY <2>1, <2>2, <2>3, Zenon DEF ListOK
  <1>9. Held'
    BY <1>1, HeldGoes DEF InDriver, Drains, Goes
  <1>10. FramesOK'
    BY <1>1, <1>5 DEF LifeInv, FramesOK, Quiet, WorkerQuiet
  <1>11. Unlisted'
    <2> SUFFICES ASSUME NEW x \in Swapchains, life'[x] = "unlisted"
                 PROVE  \E b \in Apps : pc'[b] \in Stops /\ \E n \in 1 .. Len(todo'[b]) : todo'[b][n] = x
      BY DEF Unlisted
    <2>1. CASE x = s
      <3>1. pc'[a] \in Stops /\ 1 \in 1 .. Len(todo'[a]) /\ todo'[a][1] = x
        BY <1>1, <1>6, <2>1 DEF Stops
      <3> QED
        BY <3>1
    <2>2. CASE x # s
      <3>1. PICK b \in Apps : pc[b] \in Stops /\ \E n \in 1 .. Len(todo[b]) : todo[b][n] = x
        BY <1>5, <2>2 DEF LifeInv, Unlisted
      <3>2. b # a
        BY <1>1, <3>1 DEF Stops
      <3> QED
        BY <1>3, <1>6, <3>1, <3>2
    <2> QED
      BY <2>1, <2>2
  <1>12. ASSUME NEW b \in Apps, b # a PROVE CallInv(b)'
    <2>1. /\ pc'[b] = pc[b] /\ call'[b] = call[b] /\ todo'[b] = todo[b] /\ call[b].sc # s
          /\ call[b].kind # "end"
      BY <1>1, <1>3, <1>6, <1>12, LockAssumption DEF LifeInv, CallsApart
    <2>2. Place(b)' /\ About(b)'
      <3>1. Place(b) /\ About(b)
        BY At
      <3>2. Place(b)'
        BY <2>1, <3>1 DEF Place
      <3> QED
        BY <1>5, <2>1, <3>1, <3>2 DEF Place, About
    <2>3. ~(call[b].kind = "idle" /\ pc[b] \in Drains)
      BY <1>1, ThreadsApart, LockAssumption, At DEF DrainOK
    <2>4. Drained(b)
      BY At
    <2>5. DrainOK(b)' /\ Drained(b)'
      BY <1>1, <1>5, <2>1, <2>3, <2>4 DEF DrainOK, Drained
    <2>6. StopOK(b)'
      <3>1. CASE pc[b] \in Stops
        <4>1. \A n \in 1 .. Len(todo[b]) : todo[b][n] \in Swapchains /\ life'[todo[b][n]] = "unlisted"
          BY <1>1, <1>5, <3>1, At DEF StopOK
        <4> QED
          BY <1>1, <2>1, <3>1, <4>1, At DEF StopOK, Quiet, WorkerQuiet, Stops
      <3>2. CASE pc[b] \notin Stops
        <4>1. pc[b] \notin {"destroyDevice", "gone"}
          BY <2>1, At DEF Place, Drains, Stops
        <4> QED
          BY <2>1, <3>2, <4>1, At DEF StopOK
      <3> QED
        BY <3>1, <3>2
    <2> QED
      BY <2>2, <2>5, <2>6 DEF CallInv
  <1>13. CallInv(a)'
    <2>1. Place(a)' /\ About(a)' /\ DrainOK(a)' /\ Drained(a)'
      BY <1>1, <1>5, QueuesAssumption DEF Place, About, DrainOK, Drained, Stops, Drains
    <2>2. StopOK(a)'
      BY <1>1, <1>5, <1>6 DEF StopOK
    <2> QED
      BY <2>1, <2>2 DEF CallInv
  <1> QED
    BY <1>4, <1>7, <1>8, <1>9, <1>10, <1>11, <1>12, <1>13 DEF LifeInv

\* The device's end forgets every swapchain at once.
LEMMA LifeForget ==
  ASSUME LifeInv, NEW a \in Apps, Forget(a)
  PROVE  LifeInv'
  <1> USE DEF swapchains, locks, queues, threads
  <1>1. /\ pc[a] = "forget" /\ devOwner = None /\ todo' = [todo EXCEPT ![a] = list] /\ list' = <<>>
        /\ life' = [s \in Swapchains |-> IF life[s] = "listed" THEN "unlisted" ELSE life[s]]
        /\ UNCHANGED <<driver, asyncOwner, devOwner, call, work, jobs, wpc, ppc>>
    BY DEF Forget
  <1>2. call[a].kind = "end" /\ call[a].sc = None
    BY <1>1, At DEF Place, Drains, Stops
  <1>3. PICK label : /\ Goto(a, label) /\ (list = <<>> => label = "destroyDevice")
                     /\ (list # <<>> => label = "stopWorker")
    BY DEF Forget
  <1>4. /\ \A b \in Apps : pc'[b] = IF b = a THEN label ELSE pc[b]
        /\ pc'[a] = label /\ label \notin InDriver /\ label \notin Drains
    BY <1>3 DEF LifeInv, LifeTypes, Goto, InDriver, Drains
  <1>5. CallsApart'
    BY <1>1 DEF LifeInv, CallsApart
  <1>6. list \in Seq(Swapchains) /\ ListOK
    BY DEF LifeInv, LifeTypes
  <1>7. /\ todo' \in [Apps -> Seq(Swapchains)] /\ todo'[a] = list
        /\ \A b \in Apps : b # a => todo'[b] = todo[b]
    BY <1>1, <1>6, At
  <1>8. LifeTypes'
    <2>1. life' \in [Swapchains -> {"none", "listed", "unlisted", "freed"}]
      BY <1>1 DEF LifeInv, LifeTypes
    <2>2. list' \in Seq(Swapchains)
      BY <1>1
    <2> QED
      BY <1>1, <1>3, <1>7, <2>1, <2>2 DEF LifeInv, LifeTypes, Goto
  <1>9. ListOK'
    BY <1>1 DEF ListOK
  <1>10. pc[a] \notin InDriver
    BY <1>1 DEF InDriver
  <1>11. Held'
    BY <1>1, <1>2, <1>3, <1>4, <1>10, HeldGoes DEF Goes
  <1>12. FramesOK'
    BY <1>1 DEF LifeInv, FramesOK, Quiet, WorkerQuiet
  <1>13. \A b \in Apps : b # a => call[b].kind = "none"
    BY <1>2 DEF LifeInv, CallsApart
  <1>14. \A b \in Apps : b # a => pc[b] = "idle" /\ call[b].sc = None
    BY <1>13, At DEF Place
  <1>15. \A s \in Swapchains : life[s] # "unlisted"
    <2> SUFFICES ASSUME NEW s \in Swapchains, life[s] = "unlisted" PROVE FALSE
      OBVIOUS
    <2>1. PICK b \in Apps : pc[b] \in Stops
      BY DEF LifeInv, Unlisted
    <2> QED
      BY <1>1, <1>14, <2>1 DEF Stops
  <1>16. \A s \in Swapchains : life'[s] = "unlisted" <=> \E n \in 1 .. Len(list) : list[n] = s
    BY <1>1, <1>6, <1>15 DEF ListOK
  <1>17. Unlisted'
    <2> SUFFICES ASSUME NEW s \in Swapchains, life'[s] = "unlisted"
                 PROVE  pc'[a] \in Stops /\ \E n \in 1 .. Len(todo'[a]) : todo'[a][n] = s
      BY DEF Unlisted
    <2>1. PICK n \in 1 .. Len(list) : list[n] = s
      BY <1>16
    <2>2. list # <<>>
      BY <2>1, <1>6
    <2> QED
      BY <1>3, <1>4, <1>7, <2>1, <2>2 DEF Stops
  <1>18. ASSUME NEW b \in Apps, b # a PROVE CallInv(b)'
    <2>1. pc'[b] = "idle" /\ call'[b] = call[b] /\ call[b].kind = "none" /\ call[b].sc = None
      BY <1>1, <1>4, <1>13, <1>14, <1>18
    <2> QED
      BY <2>1 DEF CallInv, Place, About, DrainOK, Drained, StopOK, Stops, Drains
  <1>19. CallInv(a)'
    <2>1. Place(a)' /\ About(a)' /\ DrainOK(a)' /\ Drained(a)'
      BY <1>1, <1>2, <1>3, <1>4 DEF Place, About, DrainOK, Drained, Stops
    <2>2. CASE list = <<>>
      <3>1. label = "destroyDevice" /\ \A s \in Swapchains : life'[s] # "unlisted"
        BY <1>3, <1>6, <1>16, <2>2
      <3> QED
        BY <1>1, <1>4, <2>1, <3>1 DEF CallInv, StopOK, Stops
    <2>3. CASE list # <<>>
      <3>1. label = "stopWorker" /\ \A n \in 1 .. Len(list) : life'[list[n]] = "unlisted"
        BY <1>3, <1>6, <1>16, <2>3
      <3>2. \A m, n \in 1 .. Len(list) : list[m] = list[n] => m = n
        BY <1>6 DEF ListOK
      <3> QED
        BY <1>1, <1>2, <1>4, <1>7, <2>1, <2>3, <3>1, <3>2 DEF CallInv, StopOK
    <2> QED
      BY <2>2, <2>3
  <1> QED
    BY <1>5, <1>8, <1>9, <1>11, <1>12, <1>17, <1>18, <1>19 DEF LifeInv

\* The memory of a swapchain is given back.
LEMMA LifeFree ==
  ASSUME LifeInv, NEW a \in Apps, Free(a)
  PROVE  LifeInv'
  <1> USE DEF swapchains, locks, queues, threads
  <1> DEFINE s == Head(todo[a])
  <1>1. /\ pc[a] = "free" /\ todo' = [todo EXCEPT ![a] = Tail(@)]
        /\ life' = [life EXCEPT ![s] = "freed"]
        /\ UNCHANGED <<driver, asyncOwner, devOwner, list, work, jobs, wpc, ppc>>
    BY DEF Free
  <1>2. call[a].kind \in {"destroy", "end"}
    BY <1>1, At DEF Place, Drains
  <1>3. StopOK(a) /\ pc[a] \in Stops
    BY <1>1, At DEF Stops
  <1>4. /\ todo[a] # <<>> /\ todo[a] \in Seq(Swapchains) /\ s \in Swapchains /\ s = todo[a][1]
        /\ 1 \in 1 .. Len(todo[a]) /\ life[s] = "unlisted" /\ Quiet(s)
        /\ Tail(todo[a]) \in Seq(Swapchains) /\ Len(Tail(todo[a])) = Len(todo[a]) - 1
    <2>1. todo[a] # <<>> /\ todo[a] \in Seq(Swapchains)
      BY <1>3, At DEF StopOK
    <2> QED
      BY <1>1, <1>3, <2>1, FirstAndRest DEF StopOK
  <1>5. /\ todo' \in [Apps -> Seq(Swapchains)] /\ todo'[a] = Tail(todo[a])
        /\ \A b \in Apps : b # a => todo'[b] = todo[b]
    BY <1>1, <1>4, At
  <1>6. \A x \in Swapchains : life'[x] = IF x = s THEN "freed" ELSE life[x]
    BY <1>1 DEF LifeInv, LifeTypes
  <1>7. PICK label : /\ Goto(a, label) /\ Goes(a)
                     /\ \/ call[a].kind = "destroy" /\ label = "idle" /\ call' = [call EXCEPT ![a] = NoCall]
                        \/ /\ call[a].kind = "end" /\ call' = call
                           /\ (Len(todo[a]) = 1 => label = "destroyDevice")
                           /\ (Len(todo[a]) # 1 => label = "stopWorker")
    BY <1>2 DEF Free, Goes
  <1>8. /\ \A b \in Apps : pc'[b] = IF b = a THEN label ELSE pc[b]
        /\ pc'[a] = label /\ label \notin InDriver /\ label \notin Drains
    BY <1>7 DEF LifeInv, LifeTypes, Goto, InDriver, Drains
  <1>9. CallsApart' /\ call' \in [Apps -> Calls] /\ \A b \in Apps : b # a => call'[b] = call[b]
    BY <1>7, GoesOn
  <1>10. LifeTypes'
    BY <1>1, <1>5, <1>7, <1>9 DEF LifeInv, LifeTypes, Goto
  <1>11. ListOK'
    BY <1>1, <1>4, <1>6 DEF LifeInv, ListOK
  <1>12. pc[a] \notin InDriver /\ pc[a] \notin Drains
    BY <1>1 DEF InDriver, Drains
  <1>13. Held'
    BY <1>1, <1>7, <1>8, <1>12, HeldGoes
  <1>14. FramesOK'
    BY <1>1, <1>4, <1>6 DEF LifeInv, FramesOK, Quiet, WorkerQuiet
  <1>15. \A n \in 1 .. Len(todo'[a]) : n + 1 \in 1 .. Len(todo[a]) /\ todo'[a][n] = todo[a][n + 1]
    BY <1>4, <1>5, FirstAndRest
  <1>16. Unlisted'
    <2> SUFFICES ASSUME NEW x \in Swapchains, life'[x] = "unlisted"
                 PROVE  \E b \in Apps : pc'[b] \in Stops /\ \E n \in 1 .. Len(todo'[b]) : todo'[b][n] = x
      BY DEF Unlisted
    <2>1. x # s /\ life[x] = "unlisted"
      BY <1>6
    <2>0. PICK b \in Apps : pc[b] \in Stops /\ \E n \in 1 .. Len(todo[b]) : todo[b][n] = x
      BY <2>1 DEF LifeInv, Unlisted
    <2>2. PICK n \in 1 .. Len(todo[b]) : todo[b][n] = x
      BY <2>0
    <2>3. CASE b # a
      BY <1>5, <1>8, <2>0, <2>3
    <2>4. CASE b = a
      <3>1. n # 1 /\ n \in 1 .. Len(todo[a])
        BY <1>4, <2>1, <2>2, <2>4
      <3>2. n - 1 \in 1 .. Len(todo'[a]) /\ todo'[a][n - 1] = x
        BY <1>4, <1>5, <2>2, <2>4, <3>1, FirstAndRest
      <3>3. Len(todo[a]) # 1
        BY <1>4, <3>1
      <3>4. call[a].kind # "destroy"
        <4>1. call[a].kind = "destroy" => todo[a] = <<call[a].sc>>
          BY <1>3 DEF StopOK
        <4>2. Len(<<call[a].sc>>) = 1
          OBVIOUS
        <4> QED
          BY <3>3, <4>1, <4>2
      <3>5. pc'[a] \in Stops
        BY <1>7, <1>8, <3>3, <3>4 DEF Stops
      <3> QED
        BY <3>2, <3>5
    <2> QED
      BY <2>3, <2>4
  <1>17. ASSUME NEW b \in Apps, b # a PROVE CallInv(b)'
    <2>1. pc'[b] = pc[b] /\ call'[b] = call[b] /\ todo'[b] = todo[b]
      BY <1>5, <1>8, <1>9, <1>17
    <2>2. /\ Place(b) /\ About(b) /\ DrainOK(b) /\ Drained(b) /\ StopOK(b)
          /\ todo[b] \in Seq(Swapchains)
          /\ call[b].kind \in {"none", "queue", "present", "idle", "create", "destroy", "end"}
      BY At
    <2>3. call[b].kind # "end" /\ (call[a].kind = "end" => call[b].kind = "none")
      BY <1>2, <1>17 DEF LifeInv, CallsApart
    <2>4. call[b].kind = "destroy" => call[b].sc # s
      <3>1. ASSUME call[b].kind = "destroy" PROVE call[a].kind = "destroy" /\ call[b].sc # call[a].sc
        BY <1>2, <1>17, <2>2, <2>3, <3>1, LockAssumption DEF LifeInv, CallsApart, Place
      <3>2. call[a].kind = "destroy" => s = call[a].sc
        BY <1>3 DEF StopOK
      <3> QED
        BY <3>1, <3>2
    <2>5. Place(b)' /\ About(b)'
      <3>1. Place(b)'
        BY <2>1, <2>2 DEF Place
      <3> QED
        BY <1>4, <1>6, <2>1, <2>2, <2>4 DEF Place, About
    <2>6. DrainOK(b)' /\ Drained(b)'
      BY <1>1, <1>4, <1>6, <2>1, <2>2 DEF DrainOK, Drained
    <2>7. StopOK(b)'
      <3>1. CASE pc[b] \in Stops
        <4>1. call[b].kind = "destroy"
          BY <2>2, <2>3, <3>1 DEF Place, Drains, Stops
        <4>2. todo[b] = <<call[b].sc>> /\ call[b].sc # s /\ call[b].sc \in Swapchains
          BY <2>2, <2>4, <3>1, <4>1 DEF StopOK, Place
        <4>3. \A n \in 1 .. Len(todo[b]) : todo[b][n] = call[b].sc
          BY <4>2
        <4>4. \A n \in 1 .. Len(todo[b]) : life'[todo[b][n]] = "unlisted"
          BY <1>6, <2>2, <3>1, <4>2, <4>3 DEF StopOK
        <4>5. StopOK(b) /\ Head(todo'[b]) = Head(todo[b])
          BY <2>1, <2>2
        <4>6. /\ pc[b] # "stopWorker" => WorkerQuiet(Head(todo[b]))'
              /\ pc[b] \in {"waitQueue", "waitedQueue", "free"} => Quiet(Head(todo[b]))'
          BY <1>1, <2>1, <3>1, <4>5 DEF StopOK, Quiet, WorkerQuiet
        <4>7. /\ todo[b] # <<>> /\ todo[b] = <<call[b].sc>> /\ pc[b] \notin {"destroyDevice", "gone"}
              /\ \A m, n \in 1 .. Len(todo[b]) : todo[b][m] = todo[b][n] => m = n
          BY <2>2, <3>1, <4>2 DEF StopOK, Stops
        <4> QED
          BY <2>1, <4>1, <4>4, <4>6, <4>7 DEF StopOK
      <3>2. CASE pc[b] \notin Stops
        <4>1. pc[b] \notin {"destroyDevice", "gone"}
          BY <2>2, <2>3 DEF Place, Drains, Stops
        <4> QED
          BY <2>1, <2>3, <3>2, <4>1 DEF StopOK
      <3> QED
        BY <3>1, <3>2
    <2> QED
      BY <2>5, <2>6, <2>7 DEF CallInv
  <1>18. CallInv(a)'
    <2>1. CASE call[a].kind = "destroy"
      <3>1. pc'[a] = "idle" /\ call'[a] = NoCall
        BY <1>7, <1>8, <2>1, At
      <3> QED
        BY <3>1 DEF CallInv, Place, About, DrainOK, Drained, StopOK, Stops, Drains, NoCall
    <2>2. CASE call[a].kind = "end"
      <3>1. call'[a] = call[a] /\ call[a].sc = None /\ list' = <<>>
        BY <1>1, <1>3, <1>7, <2>2, At DEF StopOK, Place
      <3>2. Place(a)' /\ About(a)' /\ DrainOK(a)' /\ Drained(a)'
        BY <1>7, <1>8, <2>2, <3>1 DEF Place, About, DrainOK, Drained, Stops
      <3>3. CASE Len(todo[a]) # 1
        <4>1. pc'[a] = "stopWorker"
          BY <1>7, <1>8, <2>2, <3>3
        <4>2. todo'[a] # <<>>
          <5>1. Len(todo'[a]) # 0
            BY <1>4, <1>5, <3>3
          <5> QED
            BY <5>1
        <4>3. \A m, n \in 1 .. Len(todo'[a]) : todo'[a][m] = todo'[a][n] => m = n
          <5> SUFFICES ASSUME NEW m \in 1 .. Len(todo'[a]), NEW n \in 1 .. Len(todo'[a]),
                              todo'[a][m] = todo'[a][n]
                       PROVE  m = n
            OBVIOUS
          <5>1. /\ m + 1 \in 1 .. Len(todo[a]) /\ n + 1 \in 1 .. Len(todo[a])
                /\ todo[a][m + 1] = todo[a][n + 1]
            BY <1>15
          <5>2. m + 1 = n + 1
            BY <1>3, <5>1 DEF StopOK
          <5> QED
            BY <5>2
        <4>4. \A n \in 1 .. Len(todo'[a]) : life'[todo'[a][n]] = "unlisted"
          <5> SUFFICES ASSUME NEW n \in 1 .. Len(todo'[a]) PROVE life'[todo'[a][n]] = "unlisted"
            OBVIOUS
          <5>1. n + 1 \in 1 .. Len(todo[a]) /\ todo'[a][n] = todo[a][n + 1] /\ n + 1 # 1
            BY <1>15
          <5>2. todo[a][n + 1] # s /\ todo[a][n + 1] \in Swapchains /\ life[todo[a][n + 1]] = "unlisted"
            BY <1>3, <1>4, <5>1 DEF StopOK
          <5> QED
            BY <1>6, <5>1, <5>2
        <4> QED
          BY <2>2, <3>1, <3>2, <4>1, <4>2, <4>3, <4>4 DEF CallInv, StopOK, Stops
      <3>4. CASE Len(todo[a]) = 1
        <4>1. pc'[a] = "destroyDevice"
          BY <1>7, <1>8, <2>2, <3>4
        <4>2. \A x \in Swapchains : life'[x] # "unlisted"
          <5> SUFFICES ASSUME NEW x \in Swapchains, life'[x] = "unlisted" PROVE FALSE
            OBVIOUS
          <5>1. PICK b \in Apps : pc'[b] \in Stops /\ \E n \in 1 .. Len(todo'[b]) : todo'[b][n] = x
            BY <1>16 DEF Unlisted
          <5>2. b = a
            <6>1. b # a => call[b].kind = "none"
              BY <2>2 DEF LifeInv, CallsApart
            <6>2. b # a => pc'[b] = "idle"
              BY <1>8, <6>1, At DEF Place
            <6> QED
              BY <5>1, <6>2 DEF Stops
          <5> QED
            BY <4>1, <5>1, <5>2 DEF Stops
        <4> QED
          BY <3>1, <3>2, <4>1, <4>2 DEF CallInv, StopOK, Stops
      <3> QED
        BY <3>3, <3>4
    <2> QED
      BY <1>2, <2>1, <2>2
  <1> QED
    BY <1>9, <1>10, <1>11, <1>13, <1>14, <1>16, <1>17, <1>18 DEF LifeInv

-----------------------------------------------------------------------------
(* The threads of a swapchain. *)

\* A thread of swapchain s goes on: there was something to do.
LEMMA LayerMoves ==
  ASSUME LifeInv, NEW s \in Swapchains, ~Quiet(s),
         UNCHANGED <<pc, call, todo, list, life, devOwner>>,
         driver' = [t \in Threads |-> driver'[t]],
         work' \in [Swapchains -> Nat], jobs' \in [Swapchains -> Nat],
         wpc' \in [Swapchains -> {"next", "submit", "handoff", "pop"}],
         ppc' \in [Swapchains -> {"next", "companion", "hold", "real", "finish"}],
         \A x \in Swapchains : x # s =>
            work'[x] = work[x] /\ jobs'[x] = jobs[x] /\ wpc'[x] = wpc[x] /\ ppc'[x] = ppc[x],
         WorkerQuiet(s) => work'[s] = work[s] /\ wpc'[s] = wpc[s],
         wpc'[s] # "next" => work'[s] > 0, ppc'[s] # "next" => jobs'[s] > 0, Held'
  PROVE  LifeInv'
  <1>1. work[s] \in Nat /\ jobs[s] \in Nat
    BY DEF LifeInv, LifeTypes
  <1>2. LifeTypes'
    BY DEF LifeInv, LifeTypes
  <1>4. ListOK' /\ CallsApart' /\ Unlisted'
    <2>1. ListOK'
      BY DEF LifeInv, ListOK
    <2>2. CallsApart'
      BY DEF LifeInv, CallsApart
    <2>3. Unlisted'
      BY DEF LifeInv, Unlisted
    <2> QED
      BY <2>1, <2>2, <2>3
  <1>5. life[s] \in {"listed", "unlisted"} /\ ~(work[s] = 0 /\ jobs[s] = 0)
    BY <1>1 DEF LifeInv, FramesOK, Quiet, WorkerQuiet
  <1>6. FramesOK'
    <2> SUFFICES ASSUME NEW x \in Swapchains
                 PROVE  /\ wpc'[x] # "next" => work'[x] > 0
                        /\ ppc'[x] # "next" => jobs'[x] > 0
                        /\ ~Quiet(x)' => life'[x] \in {"listed", "unlisted"}
      BY DEF FramesOK
    <2>1. CASE x = s
      BY <1>5, <2>1
    <2>2. CASE x # s
      BY <2>2 DEF LifeInv, FramesOK, Quiet, WorkerQuiet
    <2> QED
      BY <2>1, <2>2
  <1>7. \A x \in Swapchains : Quiet(x) => Quiet(x)'
    BY DEF Quiet, WorkerQuiet
  <1>8. \A x \in Swapchains : WorkerQuiet(x) => WorkerQuiet(x)'
    BY DEF WorkerQuiet
  <1>9. ASSUME NEW b \in Apps PROVE CallInv(b)'
    <2>1. Place(b)' /\ About(b)' /\ DrainOK(b)'
      BY At DEF Place, About, DrainOK
    <2>2. Drained(b)'
      <3> SUFFICES ASSUME call[b].kind = "idle", pc[b] \in Drains \union {"waitDevice"}
                   PROVE  Drained(b)'
        BY DEF Drained
      <3>1. Drained(b)
        BY At
      <3>2. pc[b] = "drainJobs" => work'[Head(todo[b])] = 0
        <4> SUFFICES ASSUME pc[b] = "drainJobs" PROVE work'[Head(todo[b])] = 0
          OBVIOUS
        <4>1. work[Head(todo[b])] = 0 /\ todo[b] # <<>> /\ todo[b] \in Seq(Swapchains)
          BY <3>1, At DEF Drained, DrainOK, Drains
        <4>2. Head(todo[b]) \in Swapchains
          BY <4>1, FirstAndRest
        <4>3. work[s] = 0 => work'[s] = 0
          BY <1>1 DEF WorkerQuiet, LifeInv, FramesOK
        <4> QED
          BY <4>1, <4>2, <4>3
      <3> QED
        BY <1>5, <3>1, <3>2, SMTT(30) DEF Drained
    <2>3. StopOK(b)'
      <3>1. CASE pc[b] \in Stops
        <4>1. StopOK(b) /\ todo[b] # <<>> /\ todo[b] \in Seq(Swapchains)
          BY <3>1, At DEF StopOK
        <4>2. Head(todo[b]) \in Swapchains
          BY <4>1, FirstAndRest
        <4> QED
          BY <1>7, <1>8, <4>1, <4>2 DEF StopOK
      <3>2. CASE pc[b] \notin Stops
        BY <3>2, At DEF StopOK
      <3> QED
        BY <3>1, <3>2
    <2> QED
      BY <2>1, <2>2, <2>3 DEF CallInv
  <1> QED
    BY <1>2, <1>4, <1>6, <1>9 DEF LifeInv

LEMMA HeldLayer ==
  ASSUME LifeInv, NEW s \in Swapchains, UNCHANGED <<pc, call, devOwner>>,
         NEW t \in {Worker(s), Presenter(s)},
         NEW Q, driver' = [driver EXCEPT ![t] = Q],
         \A x \in Swapchains : x # s => wpc'[x] = wpc[x] /\ ppc'[x] = ppc[x],
         t = Worker(s) => ppc' = ppc, t = Presenter(s) => wpc' = wpc,
         \/ /\ Q = {}
            /\ asyncOwner' = IF asyncOwner = t THEN None ELSE asyncOwner
         \/ /\ asyncOwner = None /\ asyncOwner' = t
            /\ t = Worker(s) => wpc'[s] = "submit"
            /\ t = Presenter(s) => ppc'[s] \in {"companion", "real"}
  PROVE  Held' /\ driver' = [u \in Threads |-> driver'[u]]
  <1>1. \A u \in Threads : driver'[u] = IF u = t THEN Q ELSE driver[u]
    BY DEF LifeInv, LifeTypes
  <1>2. driver' = [u \in Threads |-> driver'[u]]
    BY DEF LifeInv, LifeTypes
  <1>3. Held
    BY DEF LifeInv
  <1>4. t \in Threads /\ (\A a \in Apps : t # App(a))
        /\ \A x \in Swapchains : (t = Worker(x) => x = s) /\ (t = Presenter(x) => x = s)
    BY DEF Threads, App, Worker, Presenter
  <1>5. (\A a \in Apps : pc'[a] \notin InDriver => driver'[App(a)] = {})
    BY <1>1, <1>3, <1>4, ThreadsApart DEF Held
  <1>6. devOwner' # None =>
           \E a \in Apps : devOwner' = App(a) /\ call'[a].kind = "idle" /\ pc'[a] \in Drains
    BY <1>3 DEF Held
  <1>7. Worker(s) # Presenter(s)
    BY DEF Worker, Presenter
  <1>8. asyncOwner' # None =>
          \/ \E a \in Apps : asyncOwner' = App(a) /\ pc'[a] \in InDriver
          \/ \E x \in Swapchains : asyncOwner' = Worker(x) /\ wpc'[x] = "submit"
          \/ \E x \in Swapchains : asyncOwner' = Presenter(x) /\ ppc'[x] \in {"companion", "real"}
    <2>1. CASE asyncOwner' = t /\ asyncOwner = None
      BY <2>1, LockAssumption, <1>4
    <2>2. CASE asyncOwner' = asyncOwner /\ asyncOwner # t
      <3>1. CASE \E a \in Apps : asyncOwner = App(a) /\ pc[a] \in InDriver
        BY <2>2, <3>1
      <3>2. CASE \E x \in Swapchains : asyncOwner = Worker(x) /\ wpc[x] = "submit"
        BY <2>2, <3>2
      <3>3. CASE \E x \in Swapchains : asyncOwner = Presenter(x) /\ ppc[x] \in {"companion", "real"}
        BY <2>2, <3>3
      <3> QED
        BY <1>3, <2>2, <3>1, <3>2, <3>3 DEF Held
    <2> QED
      BY <2>1, <2>2
  <1>9. ASSUME NEW x \in Swapchains
        PROVE  /\ wpc'[x] # "submit" => driver'[Worker(x)] = {}
               /\ ppc'[x] \notin {"companion", "real"} => driver'[Presenter(x)] = {}
    <2>1. Worker(x) \in Threads /\ Presenter(x) \in Threads
      BY ThreadsApart
    <2> QED
      BY <1>1, <1>3, <1>4, <1>7, <2>1 DEF Held
  <1> QED
    BY <1>2, <1>5, <1>6, <1>8, <1>9 DEF Held

LEMMA LifeLayerStep ==
  ASSUME LifeInv, NEW s \in Swapchains, WorkerStep(s) \/ PresenterStep(s)
  PROVE  LifeInv'
  <1> USE DEF locks, apps, swapchains, queues, threads
  <1>0. /\ work \in [Swapchains -> Nat] /\ jobs \in [Swapchains -> Nat]
        /\ wpc \in [Swapchains -> {"next", "submit", "handoff", "pop"}]
        /\ ppc \in [Swapchains -> {"next", "companion", "hold", "real", "finish"}]
        /\ driver = [t \in Threads |-> driver[t]]
        /\ wpc[s] # "next" => work[s] > 0
        /\ ppc[s] # "next" => jobs[s] > 0
    BY DEF LifeInv, LifeTypes, FramesOK
  <1>1. ASSUME UNCHANGED <<pc, call, devOwner, asyncOwner, driver>>,
               \A x \in Swapchains : x # s => wpc'[x] = wpc[x] /\ ppc'[x] = ppc[x],
               wpc[s] # "submit" /\ wpc'[s] # "submit",
               ppc'[s] = ppc[s] \/ {ppc[s], ppc'[s]} \intersect {"companion", "real"} = {}
        PROVE  Held'
    BY <1>1 DEF LifeInv, Held
  <1>3. CASE Submit(s)
    <2>1. /\ wpc' = [wpc EXCEPT ![s] = "submit"] /\ wpc[s] = "next" /\ work[s] > 0
          /\ UNCHANGED <<pc, call, todo, list, life, devOwner, work, jobs, ppc>>
          /\ asyncOwner = None /\ asyncOwner' = Worker(s)
          /\ driver' = [driver EXCEPT ![Worker(s)] = {layerQueue}]
      BY <1>3 DEF Submit, Enter
    <2>2. /\ wpc'[s] = "submit" /\ work' \in [Swapchains -> Nat] /\ jobs' \in [Swapchains -> Nat]
          /\ wpc' \in [Swapchains -> {"next", "submit", "handoff", "pop"}]
          /\ ppc' \in [Swapchains -> {"next", "companion", "hold", "real", "finish"}]
          /\ \A x \in Swapchains : x # s =>
                work'[x] = work[x] /\ jobs'[x] = jobs[x] /\ wpc'[x] = wpc[x] /\ ppc'[x] = ppc[x]
      BY <1>0, <2>1
    <2>3. Worker(s) # Presenter(s)
      BY DEF Worker, Presenter
    <2>4. Held' /\ driver' = [u \in Threads |-> driver'[u]]
      BY <2>1, <2>2, <2>3, HeldLayer
    <2>5. ~Quiet(s) /\ ~WorkerQuiet(s)
      BY <1>0, <2>1 DEF Quiet, WorkerQuiet
    <2> QED
      BY <1>0, <2>1, <2>2, <2>4, <2>5, LayerMoves
  <1>4. CASE SubmitReturns(s)
    <2>1. /\ wpc' = [wpc EXCEPT ![s] = "handoff"] /\ wpc[s] = "submit"
          /\ UNCHANGED <<pc, call, todo, list, life, devOwner, work, jobs, ppc>>
          /\ asyncOwner' = IF asyncOwner = Worker(s) THEN None ELSE asyncOwner
          /\ driver' = [driver EXCEPT ![Worker(s)] = {}]
      BY <1>4 DEF SubmitReturns, Leave, Unlock
    <2>2. /\ wpc'[s] = "handoff" /\ work' \in [Swapchains -> Nat] /\ jobs' \in [Swapchains -> Nat]
          /\ wpc' \in [Swapchains -> {"next", "submit", "handoff", "pop"}]
          /\ ppc' \in [Swapchains -> {"next", "companion", "hold", "real", "finish"}]
          /\ \A x \in Swapchains : x # s =>
                work'[x] = work[x] /\ jobs'[x] = jobs[x] /\ wpc'[x] = wpc[x] /\ ppc'[x] = ppc[x]
      BY <1>0, <2>1
    <2>3. Worker(s) # Presenter(s)
      BY DEF Worker, Presenter
    <2>4. Held' /\ driver' = [u \in Threads |-> driver'[u]]
      BY <2>1, <2>2, <2>3, HeldLayer
    <2>5. ~Quiet(s) /\ ~WorkerQuiet(s)
      BY <1>0, <2>1 DEF Quiet, WorkerQuiet
    <2> QED
      BY <1>0, <2>1, <2>2, <2>4, <2>5, LayerMoves
  <1>5. CASE Handoff(s)
    <2>1. /\ wpc' = [wpc EXCEPT ![s] = "pop"] /\ wpc[s] = "handoff"
          /\ jobs' = [jobs EXCEPT ![s] = jobs[s] + 1]
          /\ UNCHANGED <<pc, call, todo, list, life, devOwner, asyncOwner, driver, work, ppc>>
      BY <1>5 DEF Handoff
    <2>2. /\ wpc'[s] = "pop" /\ work' \in [Swapchains -> Nat] /\ jobs' \in [Swapchains -> Nat]
          /\ wpc' \in [Swapchains -> {"next", "submit", "handoff", "pop"}]
          /\ ppc' \in [Swapchains -> {"next", "companion", "hold", "real", "finish"}]
          /\ \A x \in Swapchains : x # s =>
                work'[x] = work[x] /\ jobs'[x] = jobs[x] /\ wpc'[x] = wpc[x] /\ ppc'[x] = ppc[x]
      BY <1>0, <2>1
    <2>3. Held'
      BY <1>1, <2>1, <2>2
    <2>4. ~Quiet(s) /\ ~WorkerQuiet(s) /\ jobs[s] + 1 \in Nat /\ jobs[s] + 1 > 0
      BY <1>0, <2>1 DEF Quiet, WorkerQuiet
    <2> QED
      BY <1>0, <2>1, <2>2, <2>3, <2>4, LayerMoves
  <1>6. CASE Pop(s)
    <2>1. /\ wpc' = [wpc EXCEPT ![s] = "next"] /\ wpc[s] = "pop"
          /\ work' = [work EXCEPT ![s] = work[s] - 1]
          /\ UNCHANGED <<pc, call, todo, list, life, devOwner, asyncOwner, driver, jobs, ppc>>
      BY <1>6 DEF Pop
    <2>2. /\ wpc'[s] = "next" /\ work' \in [Swapchains -> Nat] /\ jobs' \in [Swapchains -> Nat]
          /\ wpc' \in [Swapchains -> {"next", "submit", "handoff", "pop"}]
          /\ ppc' \in [Swapchains -> {"next", "companion", "hold", "real", "finish"}]
          /\ \A x \in Swapchains : x # s =>
                work'[x] = work[x] /\ jobs'[x] = jobs[x] /\ wpc'[x] = wpc[x] /\ ppc'[x] = ppc[x]
      BY <1>0, <2>1
    <2>3. Held'
      BY <1>1, <2>1, <2>2
    <2>4. ~Quiet(s) /\ ~WorkerQuiet(s) /\ work[s] - 1 \in Nat
      BY <1>0, <2>1 DEF Quiet, WorkerQuiet
    <2> QED
      BY <1>0, <2>1, <2>2, <2>3, <2>4, LayerMoves
  <1>7. CASE Present(s)
    <2> PICK label \in {"companion", "real"} : ppc' = [ppc EXCEPT ![s] = label]
      BY <1>7 DEF Present
    <2>1. /\ jobs[s] > 0
          /\ UNCHANGED <<pc, call, todo, list, life, devOwner, work, jobs, wpc>>
          /\ asyncOwner = None /\ asyncOwner' = Presenter(s)
          /\ driver' = [driver EXCEPT ![Presenter(s)] = {layerQueue}]
      BY <1>0, <1>7 DEF Present, Enter
    <2>2. /\ ppc'[s] = label /\ work' \in [Swapchains -> Nat] /\ jobs' \in [Swapchains -> Nat]
          /\ wpc' \in [Swapchains -> {"next", "submit", "handoff", "pop"}]
          /\ ppc' \in [Swapchains -> {"next", "companion", "hold", "real", "finish"}]
          /\ \A x \in Swapchains : x # s =>
                work'[x] = work[x] /\ jobs'[x] = jobs[x] /\ wpc'[x] = wpc[x] /\ ppc'[x] = ppc[x]
      BY <1>0, <2>1
    <2>3. Worker(s) # Presenter(s)
      BY DEF Worker, Presenter
    <2>4. Held' /\ driver' = [u \in Threads |-> driver'[u]]
      BY <2>1, <2>2, <2>3, HeldLayer
    <2>5. ~Quiet(s)
      BY <1>0, <2>1 DEF Quiet
    <2> QED
      BY <1>0, <2>1, <2>2, <2>4, <2>5, LayerMoves
  <1>8. CASE PresentReturns(s)
    <2> PICK label \in {"hold", "finish"} : ppc' = [ppc EXCEPT ![s] = label]
      BY <1>8 DEF PresentReturns
    <2>1. /\ ppc[s] \in {"companion", "real"} /\ jobs[s] > 0
          /\ UNCHANGED <<pc, call, todo, list, life, devOwner, work, jobs, wpc>>
          /\ asyncOwner' = IF asyncOwner = Presenter(s) THEN None ELSE asyncOwner
          /\ driver' = [driver EXCEPT ![Presenter(s)] = {}]
      BY <1>0, <1>8 DEF PresentReturns, Leave, Unlock
    <2>2. /\ ppc'[s] = label /\ work' \in [Swapchains -> Nat] /\ jobs' \in [Swapchains -> Nat]
          /\ wpc' \in [Swapchains -> {"next", "submit", "handoff", "pop"}]
          /\ ppc' \in [Swapchains -> {"next", "companion", "hold", "real", "finish"}]
          /\ \A x \in Swapchains : x # s =>
                work'[x] = work[x] /\ jobs'[x] = jobs[x] /\ wpc'[x] = wpc[x] /\ ppc'[x] = ppc[x]
      BY <1>0, <2>1
    <2>3. Worker(s) # Presenter(s)
      BY DEF Worker, Presenter
    <2>4. Held' /\ driver' = [u \in Threads |-> driver'[u]]
      BY <2>1, <2>2, <2>3, HeldLayer
    <2>5. ~Quiet(s)
      BY <1>0, <2>1 DEF Quiet
    <2> QED
      BY <1>0, <2>1, <2>2, <2>4, <2>5, LayerMoves
  <1>9. CASE Finish(s)
    <2>1. /\ ppc' = [ppc EXCEPT ![s] = "next"] /\ ppc[s] = "finish"
          /\ jobs' = [jobs EXCEPT ![s] = jobs[s] - 1]
          /\ UNCHANGED <<pc, call, todo, list, life, devOwner, asyncOwner, driver, work, wpc>>
      BY <1>9 DEF Finish
    <2>2. /\ ppc'[s] = "next" /\ work' \in [Swapchains -> Nat] /\ jobs' \in [Swapchains -> Nat]
          /\ wpc' \in [Swapchains -> {"next", "submit", "handoff", "pop"}]
          /\ ppc' \in [Swapchains -> {"next", "companion", "hold", "real", "finish"}]
          /\ \A x \in Swapchains : x # s =>
                work'[x] = work[x] /\ jobs'[x] = jobs[x] /\ wpc'[x] = wpc[x] /\ ppc'[x] = ppc[x]
      BY <1>0, <2>1
    <2>3. Held'
      BY <2>1, <2>2 DEF LifeInv, Held
    <2>4. ~Quiet(s) /\ jobs[s] - 1 \in Nat
      BY <1>0, <2>1 DEF Quiet
    <2> QED
      BY <1>0, <2>1, <2>2, <2>3, <2>4, LayerMoves
  <1> QED
    BY <1>3, <1>4, <1>5, <1>6, <1>7, <1>8, <1>9 DEF WorkerStep, PresenterStep

-----------------------------------------------------------------------------
(* Every step. *)

LEMMA LifeInit == Init => LifeInv
  <1> SUFFICES ASSUME Init PROVE LifeInv
    OBVIOUS
  <1> USE DEF Init
  <1>1. LifeTypes
    BY NoCallIn DEF LifeTypes
  <1>2. ListOK /\ Unlisted /\ FramesOK
    BY DEF ListOK, Unlisted, FramesOK, Quiet, WorkerQuiet
  <1>3. CallsApart
    BY DEF CallsApart, NoCall
  <1>4. \A a \in Apps : CallInv(a)
    BY DEF CallInv, Place, About, DrainOK, Drained, StopOK, Stops, Drains, NoCall
  <1>5. Held
    BY ThreadsApart DEF Held
  <1> QED
    BY <1>1, <1>2, <1>3, <1>4, <1>5 DEF LifeInv

LEMMA LifeUnchanged ==
  ASSUME LifeInv, UNCHANGED vars
  PROVE  LifeInv'
  <1> USE DEF vars, locks, apps, swapchains, queues, threads
  <1>1. LifeTypes' /\ ListOK' /\ CallsApart' /\ Unlisted' /\ Held'
    <2>1. LifeTypes' /\ ListOK'
      BY DEF LifeInv, LifeTypes, ListOK
    <2>2. CallsApart'
      BY DEF LifeInv, CallsApart
    <2>3. Unlisted'
      BY DEF LifeInv, Unlisted
    <2>4. Held'
      BY DEF LifeInv, Held
    <2> QED
      BY <2>1, <2>2, <2>3, <2>4
  <1>2. FramesOK'
    BY DEF LifeInv, FramesOK, Quiet, WorkerQuiet
  <1>3. ASSUME NEW a \in Apps PROVE CallInv(a)'
    BY At DEF CallInv, Place, About, DrainOK, Drained, StopOK, Quiet, WorkerQuiet
  <1> QED
    BY <1>1, <1>2, <1>3 DEF LifeInv

\* Which swapchain is in whose hands is preserved by every step, whatever
\* the surfaces answer.
THEOREM LifeInductive == LifeInv /\ [Next]_vars => LifeInv'
  <1> SUFFICES ASSUME LifeInv, [Next]_vars PROVE LifeInv'
    OBVIOUS
  <1>1. ASSUME NEW a \in Apps, AppStep(a) PROVE LifeInv'
    BY <1>1, LifeQueueStep, LifePresentStep, LifeDrainStep, LifeStopStep, LifeEnqueue, LifeLink,
       LifeUnlink, LifeForget, LifeFree DEF AppStep
  <1>2. CASE Next
    BY <1>1, <1>2, LifeAppCalls, LifeLayerStep DEF Next
  <1>3. CASE UNCHANGED vars
    BY <1>3, LifeUnchanged
  <1> QED
    BY <1>2, <1>3

\* What a thread is about to look at is listed, or is being taken down by it.
LEMMA TouchesLiving ==
  ASSUME LifeInv, NEW a \in Apps, NEW s \in Touches(a)
  PROVE  life[s] \in {"listed", "unlisted"}
  <1>1. CASE pc[a] \in {"drainWork", "drainJobs"}
    <2>1. s = Draining(a) /\ call[a].kind \in {"present", "idle"}
      BY <1>1, At DEF Touches, Place, Stops
    <2>2. CASE call[a].kind = "present"
      BY <2>1, <2>2, At DEF Draining, About
    <2>3. CASE call[a].kind = "idle"
      <3>1. /\ s = Head(todo[a]) /\ todo[a] # <<>> /\ todo[a] \in Seq(Swapchains)
            /\ \A n \in 1 .. Len(todo[a]) : life[todo[a][n]] = "listed"
        BY <1>1, <2>1, <2>3, At DEF Draining, DrainOK, Drains
      <3> QED
        BY <3>1, FirstAndRest
    <2> QED
      BY <2>1, <2>2, <2>3
  <1>2. CASE pc[a] \in Stops
    <2>1. /\ s = Head(todo[a]) /\ todo[a] # <<>> /\ todo[a] \in Seq(Swapchains)
          /\ \A n \in 1 .. Len(todo[a]) : life[todo[a][n]] = "unlisted"
      BY <1>2, At DEF Touches, StopOK, Stops
    <2> QED
      BY <2>1, FirstAndRest
  <1>3. CASE pc[a] \in {"find", "reserve", "adapter", "enqueue", "inline", "inInline"}
    <2>1. s = call[a].sc /\ call[a].kind = "present"
      BY <1>3, At DEF Touches, Place, Stops, Drains
    <2> QED
      BY <2>1, At DEF About
  <1> QED
    BY <1>1, <1>2, <1>3 DEF Touches, Stops

LEMMA LifeSafe == LifeInv => NothingFreedInUse
  <1> SUFFICES ASSUME LifeInv PROVE NothingFreedInUse
    OBVIOUS
  <1>1. ASSUME NEW s \in Swapchains, life[s] = "freed"
        PROVE  /\ \A a \in Apps : s \notin Touches(a)
               /\ wpc[s] = "next" /\ ppc[s] = "next" /\ work[s] = 0 /\ jobs[s] = 0
    <2>1. Quiet(s)
      BY <1>1 DEF LifeInv, FramesOK
    <2>2. \A a \in Apps : s \notin Touches(a)
      BY <1>1, TouchesLiving
    <2> QED
      BY <2>1, <2>2 DEF Quiet, WorkerQuiet
  <1>2. ASSUME NEW a \in Apps, pc[a] = "gone"
        PROVE  /\ \A t \in Threads : driver[t] = {}
               /\ asyncOwner = None /\ devOwner = None
               /\ \A s \in Swapchains : life[s] \in {"none", "freed"}
    <2>1. call[a].kind = "end" /\ pc[a] \notin InDriver
      BY <1>2, At DEF Place, Stops, Drains, InDriver
    <2>2. \A b \in Apps : call[b].kind \in {"none", "end"} /\ pc[b] \in {"idle", "gone"}
      <3> TAKE b \in Apps
      <3>1. CASE b = a
        BY <1>2, <2>1, <3>1
      <3>2. CASE b # a
        <4>1. call[b].kind = "none"
          BY <2>1, <3>2 DEF LifeInv, CallsApart
        <4> QED
          BY <4>1, At DEF Place
      <3> QED
        BY <3>1, <3>2
    <2>3. \A s \in Swapchains : life[s] # "unlisted" /\ life[s] # "listed"
      <3>1. list = <<>> /\ \A s \in Swapchains : life[s] # "unlisted"
        BY <1>2, <2>1, At DEF StopOK
      <3> QED
        BY <3>1 DEF LifeInv, ListOK
    <2>4. \A s \in Swapchains : Quiet(s) /\ life[s] \in {"none", "freed"}
      BY <2>3 DEF LifeInv, LifeTypes, FramesOK
    <2>5. \A s \in Swapchains : wpc[s] = "next" /\ ppc[s] = "next"
      BY <2>4 DEF Quiet, WorkerQuiet
    <2>6. \A b \in Apps : pc[b] \notin InDriver
      BY <2>2 DEF InDriver
    <2>7. \A t \in Threads : driver[t] = {}
      <3>1. \A b \in Apps : driver[App(b)] = {}
        BY <2>6 DEF LifeInv, Held
      <3>2. \A s \in Swapchains : driver[Worker(s)] = {} /\ driver[Presenter(s)] = {}
        BY <2>5 DEF LifeInv, Held
      <3> QED
        BY <3>1, <3>2, ThreadsApart
    <2>8. asyncOwner = None
      BY <2>5, <2>6 DEF LifeInv, Held
    <2>9. devOwner = None
      BY <2>2 DEF LifeInv, Held
    <2> QED
      BY <2>4, <2>7, <2>8, <2>9
  <1> QED
    BY <1>1, <1>2 DEF NothingFreedInUse

\* A swapchain's memory is given back only once nobody will look at it, and
\* the device ends with nothing left (swapchain_destroy.c:5-21,
\* layer_queue.c:107-122): whatever the threads' order, the number of
\* swapchains and what the surfaces answer.
THEOREM NothingFreed == Spec => []NothingFreedInUse
  <1>1. Init => LifeInv
    BY LifeInit
  <1>2. LifeInv /\ [Next]_vars => LifeInv'
    BY LifeInductive
  <1> QED
    BY <1>1, <1>2, LifeSafe, PTL DEF Spec

-----------------------------------------------------------------------------
(* The device keeps its contract. *)

Users == [q \in AppQueues \union {Own} |-> {t \in Threads : q \in driver[t]}]
Owed == [s \in Swapchains |-> Frames(s)]

\* Who is in the driver, what is owed and which swapchains there are change
\* as the contract says.
Keeps == [Contract!Next]_<<Users, Owed, life>>

\* A call nobody else has the queue of; a queue that is none is no call.
LEMMA KeepsEntering ==
  ASSUME QueueExclusive', LifeInv, NEW t \in Threads, driver[t] = {}, NEW q, Enter(t, {q}),
         Owed' = Owed, life' = life
  PROVE  Keeps
  <1>1. \A u \in Threads : driver'[u] = IF u = t THEN {q} ELSE driver[u]
    BY DEF LifeInv, LifeTypes, Enter
  <1>2. \A p \in AppQueues \union {Own} : p # q => Users'[p] = Users[p]
    BY <1>1 DEF Users
  <1>3. CASE q \in AppQueues \union {Own}
    <2>1. \A u \in Threads : q \notin driver[u]
      BY <1>1 DEF QueueExclusive
    <2>2. Users[q] = {}
      BY <1>3, <2>1 DEF Users
    <2>3. Users'[q] = {t}
      BY <1>1, <1>3, <2>1 DEF Users
    <2>4. Users' = [Users EXCEPT ![q] = {t}]
      BY <1>2, <2>3 DEF Users
    <2>5. Contract!Use(t, q)
      BY <2>2, <2>4 DEF Contract!Use, Contract!Free, Users, Owed
    <2> QED
      BY <1>3, <2>5 DEF Keeps, Contract!Next
  <1>4. CASE q \notin AppQueues \union {Own}
    <2>1. Users' = Users
      BY <1>2, <1>4 DEF Users
    <2> QED
      BY <2>1 DEF Keeps
  <1> QED
    BY <1>3, <1>4

LEMMA KeepsLeaving ==
  ASSUME LifeInv, NEW t \in Threads, Leave(t), Owed' = Owed, life' = life
  PROVE  Keeps
  <1>1. \A u \in Threads : driver'[u] = IF u = t THEN {} ELSE driver[u]
    BY DEF LifeInv, LifeTypes, Leave
  <1>2. \A q \in AppQueues \union {Own} : Users'[q] = Users[q] \ {t}
    BY <1>1 DEF Users
  <1>3. Users' = [q \in AppQueues \union {Own} |-> Users[q] \ {t}]
    BY <1>2 DEF Users
  <1>4. Contract!Leave(t)
    BY <1>3 DEF Contract!Leave, Users, Owed
  <1> QED
    BY <1>4 DEF Keeps, Contract!Next

LEMMA KeepsStill ==
  ASSUME UNCHANGED <<driver, life>>, Owed' = Owed
  PROVE  Keeps
  BY DEF Keeps, Users

\* What is owed follows from the two counters and the work thread's place.
LEMMA OwedSame ==
  ASSUME UNCHANGED <<work, jobs>>,
         \A s \in Swapchains : wpc'[s] = "pop" <=> wpc[s] = "pop"
  PROVE  Owed' = Owed
  BY DEF Owed, Frames

LEMMA OwedNothing ==
  ASSUME LifeInv, NEW s \in Swapchains, work[s] = 0, jobs[s] = 0
  PROVE  Owed[s] = 0
  BY DEF LifeInv, FramesOK, Owed, Frames

LEMMA KeepsAppCalls ==
  ASSUME NEW a \in Apps, AppCalls(a)
  PROVE  Keeps
  <1>1. UNCHANGED <<driver, life, work, jobs, wpc>>
    BY DEF AppCalls, CallQueue, CallPresent, CallCreate, CallDestroy, CallIdle, CallEnd, Begin,
           queues, threads, swapchains
  <1> QED
    BY <1>1, OwedSame, KeepsStill

LEMMA KeepsDriverStep ==
  ASSUME QueueExclusive', LifeInv, NEW a \in Apps,
         \/ EnterQueue(a) \/ Adapter(a) \/ Inline(a) \/ WaitQueue(a)
         \/ QueueReturns(a) \/ InlineReturns(a) \/ DeviceReturns(a) \/ AdapterReturns(a)
         \/ WaitQueueReturns(a)
  PROVE  Keeps
  <1>1. UNCHANGED <<life, work, jobs, wpc>>
    BY DEF EnterQueue, Adapter, Inline, WaitQueue, QueueReturns, InlineReturns, DeviceReturns,
           AdapterReturns, WaitQueueReturns, Return, queues, threads, swapchains
  <1>2. Owed' = Owed
    BY <1>1, OwedSame
  <1>3. App(a) \in Threads
    BY ThreadsApart
  <1>4. CASE EnterQueue(a) \/ Adapter(a) \/ Inline(a) \/ WaitQueue(a)
    <2>1. driver[App(a)] = {}
      BY <1>4 DEF EnterQueue, Adapter, Inline, WaitQueue, LifeInv, Held, InDriver
    <2>2. PICK q : Enter(App(a), {q})
      BY <1>4 DEF EnterQueue, Adapter, Inline, WaitQueue
    <2> QED
      BY <1>1, <1>2, <1>3, <2>1, <2>2, KeepsEntering
  <1>5. CASE Leave(App(a))
    BY <1>1, <1>2, <1>3, <1>5, KeepsLeaving
  <1> QED
    BY <1>4, <1>5 DEF QueueReturns, InlineReturns, DeviceReturns, AdapterReturns,
                      WaitQueueReturns, Return

\* The wait for the device, with every queue and no frame owed.
LEMMA KeepsWaitDevice ==
  ASSUME QueueExclusive', LifeInv, NEW a \in Apps, WaitDevice(a)
  PROVE  Keeps
  <1> DEFINE Q == AllQueues \intersect (AppQueues \union {Own})
  <1>1. UNCHANGED <<life, work, jobs, wpc>> /\ Enter(App(a), AllQueues) /\ pc[a] = "waitDevice"
    BY DEF WaitDevice, queues, threads, swapchains
  <1>2. Owed' = Owed
    BY <1>1, OwedSame
  <1>3. driver[App(a)] = {} /\ App(a) \in Threads
    BY <1>1, ThreadsApart DEF LifeInv, Held, InDriver
  <1>4. \A u \in Threads : driver'[u] = IF u = App(a) THEN AllQueues ELSE driver[u]
    BY <1>1 DEF LifeInv, LifeTypes, Enter
  <1>5. \A u \in Threads, q \in Q : q \notin driver[u]
    BY <1>3, <1>4 DEF QueueExclusive
  <1>6. \A q \in Q : Users[q] = {} /\ Users'[q] = {App(a)}
    BY <1>3, <1>4, <1>5 DEF Users
  <1>7. \A q \in AppQueues \union {Own} : q \notin Q => Users'[q] = Users[q]
    BY <1>3, <1>4 DEF Users
  <1>8. Users' = [q \in AppQueues \union {Own} |-> IF q \in Q THEN {App(a)} ELSE Users[q]]
    BY <1>6, <1>7 DEF Users
  <1>9. \A s \in Swapchains : life[s] = "listed" => Owed[s] = 0
    <2>1. call[a].kind = "idle"
      BY <1>1, At DEF Place, Drains, Stops
    <2>2. \A s \in Swapchains : life[s] = "listed" => work[s] = 0 /\ jobs[s] = 0
      BY <1>1, <2>1, At DEF Drained
    <2> QED
      BY <2>2, OwedNothing
  <1> HIDE DEF Q
  <1>10. PICK P : P = Q
    OBVIOUS
  <1>11. P \in SUBSET (AppQueues \union {Own})
    BY <1>10 DEF Q
  <1>12. Contract!UseAll(App(a), P)
    BY <1>1, <1>2, <1>6, <1>8, <1>9, <1>10 DEF Contract!UseAll, Contract!Free, Users, Owed
  <1> QED
    BY <1>3, <1>11, <1>12 DEF Keeps, Contract!Next

LEMMA KeepsQuietStep ==
  ASSUME NEW a \in Apps,
         \/ Find(a) \/ DrainWork(a) \/ DrainJobs(a) \/ DrainLock(a) \/ DrainNext(a)
         \/ StopWorker(a) \/ StopPresenter(a) \/ DestroyDevice(a)
  PROVE  Keeps
  <1>1. UNCHANGED <<driver, life, work, jobs, wpc>>
    BY DEF Find, DrainWork, DrainJobs, DrainLock, DrainNext, StopWorker, StopPresenter,
           DestroyDevice, queues, threads, swapchains
  <1> QED
    BY <1>1, OwedSame, KeepsStill

LEMMA KeepsEnqueue ==
  ASSUME LifeInv, NEW a \in Apps, Enqueue(a)
  PROVE  Keeps
  <1> DEFINE s == call[a].sc
  <1>1. /\ pc[a] = "enqueue" /\ work' = [work EXCEPT ![s] = @ + 1]
        /\ UNCHANGED <<driver, life, jobs, wpc>>
    BY DEF Enqueue, threads, swapchains
  <1>2. s \in Swapchains /\ life[s] = "listed"
    BY <1>1, At DEF Place, About, Drains, Stops
  <1>3. work \in [Swapchains -> Nat] /\ jobs \in [Swapchains -> Nat]
    BY DEF LifeInv, LifeTypes
  <1>4. \A x \in Swapchains : Owed'[x] = IF x = s THEN Owed[x] + 1 ELSE Owed[x]
    BY <1>1, <1>2, <1>3 DEF Owed, Frames
  <1>5. Owed' = [Owed EXCEPT ![s] = @ + 1]
    BY <1>4 DEF Owed
  <1>6. Contract!Accept(s)
    BY <1>1, <1>2, <1>5 DEF Contract!Accept, Users, Owed
  <1> QED
    BY <1>2, <1>6 DEF Keeps, Contract!Next

LEMMA KeepsSwapchainStep ==
  ASSUME LifeInv, NEW a \in Apps, Link(a) \/ Unlink(a) \/ Forget(a) \/ Free(a)
  PROVE  Keeps
  <1>1. UNCHANGED <<driver, work, jobs, wpc>>
    BY DEF Link, Unlink, Forget, Free, queues, threads
  <1>2. Owed' = Owed /\ Users' = Users
    BY <1>1, OwedSame DEF Users
  <1>3. life \in [Swapchains -> {"none", "listed", "unlisted", "freed"}]
    BY DEF LifeInv, LifeTypes
  <1>4. CASE Link(a)
    <2>1. pc[a] = "link" /\ life' = [life EXCEPT ![call[a].sc] = "listed"]
      BY <1>4 DEF Link
    <2>2. call[a].sc \in Swapchains /\ life[call[a].sc] = "none"
      BY <2>1, At DEF Place, About, Drains, Stops
    <2>3. Contract!Link(call[a].sc)
      BY <1>2, <2>1, <2>2 DEF Contract!Link, Users, Owed
    <2> QED
      BY <2>2, <2>3 DEF Keeps, Contract!Next
  <1>5. CASE Unlink(a)
    <2> DEFINE S == {call[a].sc}
    <2>1. pc[a] = "unlink" /\ life' = [life EXCEPT ![call[a].sc] = "unlisted"]
      BY <1>5 DEF Unlink
    <2>2. call[a].sc \in Swapchains /\ life[call[a].sc] = "listed"
      BY <2>1, At DEF Place, About, Drains, Stops
    <2>3. life' = [s \in Swapchains |-> IF s \in S THEN "unlisted" ELSE life[s]]
      BY <1>3, <2>1, <2>2
    <2>4. Contract!Unlink(S)
      BY <1>2, <2>2, <2>3 DEF Contract!Unlink, Users, Owed
    <2>5. S \in SUBSET Swapchains
      BY <2>2
    <2> QED
      BY <2>4, <2>5 DEF Keeps, Contract!Next
  <1>6. CASE Forget(a)
    <2> DEFINE S == {s \in Swapchains : life[s] = "listed"}
    <2>1. life' = [s \in Swapchains |-> IF s \in S THEN "unlisted" ELSE life[s]]
      BY <1>6 DEF Forget
    <2>2. Contract!Unlink(S)
      BY <1>2, <2>1 DEF Contract!Unlink, Users, Owed
    <2>3. S \in SUBSET Swapchains
      OBVIOUS
    <2> QED
      BY <2>2, <2>3 DEF Keeps, Contract!Next
  <1>7. CASE Free(a)
    <2> DEFINE s == Head(todo[a])
    <2>1. pc[a] = "free" /\ life' = [life EXCEPT ![s] = "freed"]
      BY <1>7 DEF Free
    <2>2. /\ todo[a] # <<>> /\ todo[a] \in Seq(Swapchains) /\ Quiet(s)
          /\ \A n \in 1 .. Len(todo[a]) : life[todo[a][n]] = "unlisted"
      BY <2>1, At DEF StopOK, Stops
    <2>3. s \in Swapchains /\ life[s] = "unlisted"
      BY <2>2, FirstAndRest
    <2>4. Owed[s] = 0
      BY <2>2, <2>3, OwedNothing DEF Quiet, WorkerQuiet
    <2>5. Contract!Retire(s)
      BY <1>2, <2>1, <2>3, <2>4 DEF Contract!Retire, Users, Owed
    <2> QED
      BY <2>3, <2>5 DEF Keeps, Contract!Next
  <1> QED
    BY <1>4, <1>5, <1>6, <1>7

LEMMA KeepsLayerStep ==
  ASSUME QueueExclusive', LifeInv, NEW s \in Swapchains, WorkerStep(s) \/ PresenterStep(s)
  PROVE  Keeps
  <1>1. life' = life
    BY DEF WorkerStep, PresenterStep, Submit, SubmitReturns, Handoff, Pop, Present, PresentReturns,
           Finish, swapchains
  <1>2. /\ work \in [Swapchains -> Nat] /\ jobs \in [Swapchains -> Nat]
        /\ wpc \in [Swapchains -> {"next", "submit", "handoff", "pop"}]
        /\ wpc[s] # "next" => work[s] > 0
        /\ ppc[s] # "next" => jobs[s] > 0
        /\ ~Quiet(s) => life[s] \in {"listed", "unlisted"}
    BY DEF LifeInv, LifeTypes, FramesOK
  <1>3. Worker(s) \in Threads /\ Presenter(s) \in Threads
    BY ThreadsApart
  <1>4. CASE Submit(s)
    <2>1. driver[Worker(s)] = {} /\ Enter(Worker(s), {layerQueue})
      BY <1>4 DEF Submit, LifeInv, Held
    <2>2. Owed' = Owed
      BY <1>2, <1>4, OwedSame DEF Submit, queues
    <2> QED
      BY <1>1, <1>3, <2>1, <2>2, KeepsEntering
  <1>5. CASE SubmitReturns(s)
    <2>1. Owed' = Owed /\ Leave(Worker(s))
      BY <1>2, <1>5, OwedSame DEF SubmitReturns, queues
    <2> QED
      BY <1>1, <1>3, <2>1, KeepsLeaving
  <1>6. CASE Handoff(s) \/ Pop(s)
    <2>1. \A x \in Swapchains : Owed'[x] = Owed[x]
      BY <1>2, <1>6 DEF Handoff, Pop, Owed, Frames
    <2>2. Owed' = Owed
      BY <2>1 DEF Owed
    <2> QED
      BY <1>1, <1>6, <2>2, KeepsStill DEF Handoff, Pop
  <1>7. CASE Present(s)
    <2>1. driver[Presenter(s)] = {} /\ Enter(Presenter(s), {layerQueue})
      BY <1>7 DEF Present, LifeInv, Held
    <2>2. Owed' = Owed
      BY <1>7, OwedSame DEF Present, queues
    <2> QED
      BY <1>1, <1>3, <2>1, <2>2, KeepsEntering
  <1>8. CASE PresentReturns(s)
    <2>1. Owed' = Owed /\ Leave(Presenter(s))
      BY <1>8, OwedSame DEF PresentReturns, queues
    <2> QED
      BY <1>1, <1>3, <2>1, KeepsLeaving
  <1>9. CASE Finish(s)
    <2>1. /\ ppc[s] = "finish" /\ jobs' = [jobs EXCEPT ![s] = @ - 1]
          /\ UNCHANGED <<driver, work, wpc>>
      BY <1>9 DEF Finish
    <2>2. \A x \in Swapchains : Owed'[x] = IF x = s THEN Owed[x] - 1 ELSE Owed[x]
      BY <1>2, <2>1 DEF Owed, Frames
    <2>3. Owed' = [Owed EXCEPT ![s] = @ - 1]
      BY <2>2 DEF Owed
    <2>4. Owed[s] > 0 /\ life[s] \in {"listed", "unlisted"}
      BY <1>2, <2>1 DEF Owed, Frames, Quiet
    <2>5. Contract!Show(s)
      BY <1>1, <2>1, <2>3, <2>4 DEF Contract!Show, Users, Owed
    <2> QED
      BY <2>5 DEF Keeps, Contract!Next
  <1> QED
    BY <1>4, <1>5, <1>6, <1>7, <1>8, <1>9 DEF WorkerStep, PresenterStep

LEMMA StepKeeps == QueueExclusive' /\ LifeInv /\ [Next]_vars => Keeps
  <1> SUFFICES ASSUME QueueExclusive', LifeInv, [Next]_vars PROVE Keeps
    OBVIOUS
  <1>1. ASSUME NEW a \in Apps, AppStep(a) PROVE Keeps
    BY <1>1, KeepsDriverStep, KeepsWaitDevice, KeepsQuietStep, KeepsEnqueue, KeepsSwapchainStep DEF AppStep
  <1>2. CASE Next
    BY <1>1, <1>2, KeepsAppCalls, KeepsLayerStep DEF Next
  <1>3. CASE UNCHANGED vars
    BY <1>3, OwedSame, KeepsStill DEF vars, queues, threads, swapchains
  <1> QED
    BY <1>2, <1>3

\* The layer keeps its contract with the driver and the application
\* (layer_queue.c:78-92, swapchain_destroy.c:37-60): queues one call at a
\* time, a wait for the device with no frame owed, swapchains that end with
\* nothing left to present; if no surface fails to say what presents to it.
THEOREM DeviceKeepsContract == ~QueryMayFail => (Spec => KeepsContract)
  <1> SUFFICES ASSUME ~QueryMayFail PROVE Spec => KeepsContract
    OBVIOUS
  <1>1. Init => Contract!Init
    BY LifeInit, OwedNothing DEF Init, Contract!Init, Frames
  <1>2. Init => LifeInv
    BY LifeInit
  <1>3. LifeInv /\ [Next]_vars => LifeInv'
    BY LifeInductive
  <1>4. Spec => []QueueExclusive
    BY QueuesAreExclusive
  <1>5. QueueExclusive' /\ LifeInv /\ [Next]_vars
        => [Contract!Next]_<<[q \in AppQueues \union {Own} |-> {t \in Threads : q \in driver[t]}],
                             [s \in Swapchains |-> Frames(s)], life>>
    BY StepKeeps DEF Keeps, Users, Owed
  <1> QED
    BY <1>1, <1>2, <1>3, <1>4, <1>5, PTL DEF Spec, KeepsContract, Contract!Spec
=============================================================================
