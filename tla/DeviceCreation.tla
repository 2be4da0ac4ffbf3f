-------------------------- MODULE DeviceCreation --------------------------
(***************************************************************************)
(* vkCreateDevice with the layer's queue, its priority and shaderInt16     *)
(* added to the application's request, the attempts with less each time,   *)
(* and what the layer remembers of the one that worked (layer_device.c,    *)
(* layer_device_queues.c).                                                 *)
(*                                                                         *)
(* The driver is a fixed set of the things it will not have in a request.  *)
(***************************************************************************)
EXTENDS Integers, FiniteSets

CONSTANTS
    Families,       \* queue families, numbers in the driver's order
    Compute,        \* those with VK_QUEUE_COMPUTE_BIT
    Graphics,       \* those with VK_QUEUE_GRAPHICS_BIT
    Count           \* queues of each

ASSUME FamiliesAssumption ==
    /\ Families \subseteq Nat \ {0} /\ Compute \subseteq Families /\ Graphics \subseteq Families
    /\ Count \in [Families -> Nat \ {0}]

NoFamily == 0       \* UINT32_MAX
Refusable == {"high", "queue", "int16", "app"}

\* All the queues a request wants of a family.
Total(q, f) == q[f].plain + q[f].protected

\* A request as it comes down: the application's queues; how it asks for
\* shaderInt16, and in what ("none", "plain", a chain's "head" or "deep").
Requests ==
    {r \in [queues : [Families -> [plain : 0 .. 2, protected : 0 .. 1]],
            int16 : BOOLEAN, chain : {"plain", "head", "deep"}] :
        /\ \E f \in Families : Total(r.queues, f) > 0
        /\ \A f \in Families : Total(r.queues, f) <= Count[f]}

VARIABLES
    phase,
    app,            \* the application's request
    refuses,        \* what the driver refuses
    offers,         \* what there is: "int16", "high", "own" (async, stamping)
    sent,           \* the request last sent: queues, high, int16
    link,           \* where the loader's chain link points
    family, index,  \* async_family, async_index
    int16, high,    \* dev->shader_int16, try_high
    shared, queue,  \* dev->async_shared; the kind of dev->async_queue
    created,        \* what the driver's device was created with, if it exists
    broke           \* the layer itself failed: no memory, no entry points

input == <<app, refuses, offers>>
remembered == <<family, index, int16, high, shared, queue>>
creationVars == <<phase, input, sent, link, remembered, created, broke>>

NoDevice == [queues |-> [f \in Families |-> [plain |-> 0, protected |-> 0]],
             high |-> NoFamily, int16 |-> FALSE, exists |-> FALSE]

Start ==
    /\ app \in Requests
    /\ refuses \in SUBSET Refusable
    /\ offers \in SUBSET {"int16", "high", "own", "sad"}

AtRest ==
    /\ sent = NoDevice /\ created = NoDevice
    /\ link = "ours"
    /\ family = NoFamily /\ index = 0
    /\ int16 = FALSE /\ high = FALSE /\ shared = FALSE /\ queue = "none"
    /\ broke = FALSE

CreationInit == phase = "start" /\ Start /\ AtRest

-----------------------------------------------------------------------------
(* What is asked for.                                                      *)

\* Compute without graphics first, then any, of those that will do.
Preferred(F) == IF F \intersect (Compute \ Graphics) # {} THEN F \intersect (Compute \ Graphics)
                                                          ELSE F \intersect Compute

\* A mistake: protected queues do not count against a family.
BugHasSpare(f) == app.queues[f].plain < Count[f]
HasSpare(f) == Total(app.queues, f) < Count[f]

\* afmf_choose_async_family: the first of the best with a queue to spare.
Chosen ==
    LET F == Preferred({f \in Families : HasSpare(f)})
    IN  IF "own" \notin offers \/ F = {} THEN NoFamily
        ELSE CHOOSE f \in F : \A g \in F : f <= g

\* A mistake: the index counts the protected queues too.
BugIndexIn(f) == Total(app.queues, f)
\* vkGetDeviceQueue indexes the unprotected queues alone.
IndexIn(f) == app.queues[f].plain

\* One more unprotected queue of the family.
WithExtra(f) ==
    IF f = NoFamily THEN app.queues ELSE [app.queues EXCEPT ![f].plain = @ + 1]

\* shaderInt16 is the application's, or added where the features can be
\* replaced: on their own, or at the head of the chain.
Adds == "sad" \in offers /\ ~app.int16 /\ "int16" \in offers /\ app.chain # "deep"

\* The request, with all the layer would like: memory may be short for its
\* parts, or for the layer's own record of the device.
AskFor ==
    /\ phase = "start"
    /\ \E f \in {Chosen, NoFamily} :
        /\ family' = f
        /\ index' = IF f = NoFamily THEN 0 ELSE IndexIn(f)
        \* An entry of its own may have its priority.
        /\ \E h \in {FALSE, f # NoFamily /\ "high" \in offers /\ app.queues[f].plain = 0} :
            /\ high' = h
            /\ sent' = [queues |-> WithExtra(f), high |-> IF h THEN f ELSE NoFamily,
                        int16 |-> app.int16 \/ Adds, exists |-> TRUE]
    /\ int16' = ("sad" \in offers /\ (app.int16 \/ Adds))
    /\ phase' = "first"
    /\ UNCHANGED <<input, link, shared, queue, created, broke>>

NoMemory ==
    /\ phase = "start"
    /\ phase' = "failed" /\ broke' = TRUE
    /\ UNCHANGED <<input, sent, link, remembered, created>>

-----------------------------------------------------------------------------
(* The attempts.                                                           *)

AsItCame == [queues |-> app.queues, high |-> NoFamily, int16 |-> app.int16, exists |-> TRUE]

\* The driver looks at what is in a request.
Grants(r) ==
    /\ "app" \notin refuses
    /\ "high" \in refuses => r.high = NoFamily
    /\ "queue" \in refuses => r.queues = app.queues
    /\ "int16" \in refuses => r.int16 = app.int16

\* A mistake: the link is left where the layers below have moved it.
BugRestored == IF link = "ours" THEN "next" ELSE link
\* The link is put to the next layer before every call, which moves it on: a
\* call that finds it elsewhere goes nowhere.
Restored == "next"

Attempt(r, otherwise) ==
    /\ link' = "end"
    /\ sent' = r
    /\ IF Restored = "next" /\ Grants(r) THEN created' = r /\ phase' = "load"
                    ELSE created' = NoDevice /\ phase' = otherwise

\* What the layer added to a request that failed.
Added(r) == family # NoFamily \/ r.int16 # app.int16

First ==
    /\ phase = "first"
    /\ Attempt(sent, IF high THEN "second" ELSE IF Added(sent) THEN "third" ELSE "failed")
    /\ UNCHANGED <<input, remembered, broke>>

\* Without the priority.
Second ==
    /\ phase = "second"
    /\ Attempt([sent EXCEPT !.high = NoFamily], IF Added(sent) THEN "third" ELSE "failed")
    /\ high' = FALSE
    /\ UNCHANGED <<input, family, index, int16, shared, queue, broke>>

\* A mistake: shaderInt16 is believed to be on although it was not asked for.
BugInt16Kept == int16
Int16Kept == "sad" \in offers /\ app.int16

\* The application's request as it came.
Third ==
    /\ phase = "third"
    /\ Attempt(AsItCame, "failed")
    /\ family' = NoFamily
    /\ int16' = Int16Kept
    /\ UNCHANGED <<input, index, high, shared, queue, broke>>

-----------------------------------------------------------------------------
(* The device is there.                                                    *)

\* The entry points of the layers below; the device is no use without them.
Load ==
    /\ phase = "load"
    /\ \/ phase' = "loaded" /\ UNCHANGED <<created, broke>>
       \/ phase' = "failed" /\ created' = NoDevice /\ broke' = TRUE
    /\ UNCHANGED <<input, sent, link, remembered>>

\* A mistake: a protected queue is as good as any.
BugShareable(f) == Total(app.queues, f) > 0
Shareable(f) == app.queues[f].plain > 0

\* Without a queue of its own: the application's last of a compute family, in
\* the order of its request.
Share ==
    /\ phase = "loaded"
    /\ LET F == Preferred({f \in Families : Shareable(f)})
       IN  IF family = NoFamily /\ "own" \in offers /\ F # {}
             THEN /\ family' \in F
                  /\ index' = app.queues[family'].plain - 1
                  /\ shared' = TRUE
             ELSE UNCHANGED <<family, index, shared>>
    /\ phase' = "fetch"
    /\ UNCHANGED <<input, sent, link, int16, high, queue, created, broke>>

\* The queue is fetched and stamped for the loader, or done without.
Fetch ==
    /\ phase = "fetch"
    /\ \/ queue' = IF family = NoFamily THEN "none" ELSE IF shared THEN "shared" ELSE "own"
       \/ queue' = "none"
    /\ shared' = (queue' = "shared")
    /\ phase' = "up"
    /\ UNCHANGED <<input, sent, link, family, index, int16, high, created, broke>>

CreationNext ==
    AskFor \/ NoMemory \/ First \/ Second \/ Third \/ Load \/ Share \/ Fetch

CreationSpec == CreationInit /\ [][CreationNext]_creationVars

-----------------------------------------------------------------------------

\* A request is one Vulkan allows: no family is asked for more queues than it
\* has, and a priority is that of an entry with nothing of the application's in
\* it (layer_device_queues.c:96-139).
SentValid ==
    /\ \A f \in Families : Total(sent.queues, f) <= Count[f]
    /\ sent.high # NoFamily => app.queues[sent.high].plain = 0

\* What the layer remembers is what the attempt that worked had asked for
\* (layer_device.c:129-161,180-191): the search's shader fits the features,
\* the priority is real, and its queue is an unprotected one of the device,
\* one the application cannot get when it is the layer's own and one it did
\* ask for when it is shared.
RemembersDevice ==
    phase = "up" =>
        /\ created.exists
        /\ int16 => created.int16
        /\ high => created.high = family
        /\ queue # "none" => /\ family \in Compute
                             /\ index \in 0 .. created.queues[family].plain - 1
        /\ queue = "own" => index >= app.queues[family].plain
        /\ queue = "shared" => index < app.queues[family].plain

\* An implicit layer never fails a device that would have been created
\* without it (layer_device.c:134-135,153-156), leaves none behind when it
\* fails, and makes no request invalid that was valid.
NeverInTheWay ==
    /\ phase = "failed" => ("app" \in refuses \/ broke) /\ ~created.exists
    /\ SentValid
=============================================================================
