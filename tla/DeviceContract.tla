--------------------------- MODULE DeviceContract ---------------------------
(***************************************************************************)
(* What the layer owes the driver and the application on one device,       *)
(* whatever threads it runs.  To the driver: a VkQueue is externally       *)
(* synchronised, one thread in it at a time.  To the application: the      *)
(* frames it handed over have been presented when the whole device is      *)
(* waited for, and a swapchain goes away with nothing left to present.     *)
(***************************************************************************)
EXTENDS Naturals

CONSTANTS Threads, Queues, Swapchains

VARIABLES
    users,          \* for each queue the threads in a driver call with it
    owed,           \* for each swapchain the frames accepted, not yet presented
    life            \* "none", "listed", "unlisted" or "freed"

Free(Q) == \A q \in Q : users[q] = {}

Init ==
    /\ users = [q \in Queues |-> {}]
    /\ owed = [s \in Swapchains |-> 0]
    /\ life = [s \in Swapchains |-> "none"]

\* A driver call with one queue, which nobody else is in.
Use(t, q) ==
    /\ Free({q})
    /\ users' = [users EXCEPT ![q] = {t}]
    /\ UNCHANGED <<owed, life>>

\* A driver call with several queues at once, which only a wait for the whole
\* device is: no frame of a listed swapchain is owed.
UseAll(t, Q) ==
    /\ Free(Q)
    /\ \A s \in Swapchains : life[s] = "listed" => owed[s] = 0
    /\ users' = [q \in Queues |-> IF q \in Q THEN {t} ELSE users[q]]
    /\ UNCHANGED <<owed, life>>

\* A call returns.
Leave(t) ==
    /\ users' = [q \in Queues |-> users[q] \ {t}]
    /\ UNCHANGED life
    /\ UNCHANGED owed

\* A frame of a listed swapchain is accepted, in the call's return or after.
Accept(s) ==
    /\ life[s] = "listed"
    /\ owed' = [owed EXCEPT ![s] = @ + 1]
    /\ UNCHANGED <<users, life>>

\* It is presented; the swapchain is still there.
Show(s) ==
    /\ owed[s] > 0 /\ life[s] \in {"listed", "unlisted"}
    /\ owed' = [owed EXCEPT ![s] = @ - 1]
    /\ UNCHANGED <<users, life>>

Link(s) ==
    /\ life[s] = "none"
    /\ life' = [life EXCEPT ![s] = "listed"]
    /\ UNCHANGED <<users, owed>>

\* One swapchain, or all at once when the device goes.
Unlink(S) ==
    /\ \A s \in S : life[s] = "listed"
    /\ life' = [s \in Swapchains |-> IF s \in S THEN "unlisted" ELSE life[s]]
    /\ UNCHANGED <<users, owed>>

Retire(s) ==
    /\ life[s] = "unlisted" /\ owed[s] = 0
    /\ life' = [life EXCEPT ![s] = "freed"]
    /\ UNCHANGED <<users, owed>>

Next ==
    \/ \E t \in Threads :
        Leave(t) \/ (\E q \in Queues : Use(t, q)) \/ (\E Q \in SUBSET Queues : UseAll(t, Q))
    \/ \E s \in Swapchains : Accept(s) \/ Show(s) \/ Link(s) \/ Retire(s)
    \/ \E S \in SUBSET Swapchains : Unlink(S)

Spec == Init /\ [][Next]_<<users, owed, life>>
=============================================================================
