-------------------------- MODULE PipelineCompile --------------------------
(***************************************************************************)
(* The pipelines of a device: compiled on a thread of their own from       *)
(* vkCreateDevice on, waited for by the first swapchain that needs them,   *)
(* compiled again there when that failed, destroyed with the device        *)
(* (framegen_pipelines.c).                                                 *)
(*                                                                         *)
(* A set of pipelines is a number.  Fields of the device that several      *)
(* threads read and write without a lock are read and written one by one.  *)
(***************************************************************************)
EXTENDS Integers, FiniteSets, Sequences

CONSTANTS
    Creators,       \* the application's threads in vkCreateSwapchainKHR
    Background,     \* the thread that compiles
    Serialised,     \* the application creates swapchains one at a time
    MaxSets         \* bound: sets of pipelines ever begun

Compilers == Creators \union {Background}
Sets == 1 .. MaxSets
NoSet == 0

ASSUME BackgroundAssumption == Background \notin Creators
ASSUME CompileAssumption == MaxSets \in Nat \ {0} /\ Serialised \in BOOLEAN

VARIABLES
    pipelines,      \* dev->framegen_pipelines
    result,         \* dev->pipelines_result, zeroed: VK_SUCCESS
    running,        \* dev->pipelines_thread_running
    joiners,        \* the threads that called pthread_join on it, in order
    sets,           \* for each set: "none", "compiling", "whole", "broken", "freed"
    at,             \* the place of every compiler
    local,          \* the set each one works on or took
    given,          \* the sets swapchains work with
    device          \* "new", "up", "ending", "gone"

compileVars == <<pipelines, result, running, joiners, sets, at, local, given, device>>

CompileInit ==
    /\ pipelines = NoSet
    /\ result = "success"
    /\ running = FALSE
    /\ joiners = <<>>
    /\ sets = [n \in Sets |-> "none"]
    /\ at = [c \in Compilers |-> "idle"]
    /\ local = [c \in Compilers |-> NoSet]
    /\ given = {}
    /\ device = "new"

Begun == {n \in Sets : sets[n] # "none"}
Step(c, from, to) == at[c] = from /\ at' = [at EXCEPT ![c] = to]

\* afmf_framegen_pipelines_prepare, on a device that can present; the thread
\* may not start.
Prepare ==
    /\ device = "new" /\ device' = "up"
    /\ \/ /\ running' = TRUE
          /\ Step(Background, "idle", "create")
       \/ UNCHANGED <<running, at>>
    /\ UNCHANGED <<pipelines, result, joiners, sets, local, given>>

-----------------------------------------------------------------------------
(* pipelines_create, in the thread or in a swapchain's creation.           *)

After(c) == IF c = Background THEN "ended" ELSE "check"

\* The device knows of the set from the start; or there is no memory.
Begin(c) ==
    /\ \/ /\ Step(c, "create", "compile")
          /\ \E n \in Sets \ Begun :
                /\ n = Cardinality(Begun) + 1
                /\ sets' = [sets EXCEPT ![n] = "compiling"]
                /\ local' = [local EXCEPT ![c] = n]
                /\ pipelines' = n
          /\ UNCHANGED result
       \/ /\ Step(c, "create", After(c))
          /\ result' = "failed"
          /\ UNCHANGED <<sets, local, pipelines>>
    /\ UNCHANGED <<running, joiners, given, device>>

\* Every layout and pipeline, or the first that fails.
Compile(c) ==
    /\ Step(c, "compile", "store")
    /\ sets[local[c]] = "compiling"
    /\ \E end \in {"whole", "broken"} : sets' = [sets EXCEPT ![local[c]] = end]
    /\ UNCHANGED <<pipelines, result, running, joiners, local, given, device>>

Store(c) ==
    /\ Step(c, "store", After(c))
    /\ result' = IF sets[local[c]] = "whole" THEN "success" ELSE "failed"
    /\ UNCHANGED <<pipelines, running, joiners, sets, local, given, device>>

-----------------------------------------------------------------------------
(* afmf_framegen_pipelines_get, for a swapchain.                           *)

Busy(c) == at[c] # "idle"

Get(c) ==
    /\ c \in Creators /\ device = "up"
    /\ Serialised => \A d \in Creators : ~Busy(d)
    /\ Cardinality(Begun) < MaxSets \/ \E n \in Sets : sets[n] = "whole"
    /\ Step(c, "idle", "join")
    /\ UNCHANGED <<pipelines, result, running, joiners, sets, local, given, device>>

\* A mistake: the thread is not waited for.
BugThreadEnded(c) == TRUE
\* What pthread_join waits for.  To join a thread that somebody already joins
\* or has joined is undefined: the second call may return at once.
ThreadEnded(c) == at[Background] = "ended" \/ c # Head(joiners)

\* The place inside pthread_join, for each place before it.
InJoin == [join |-> "joining", rejoin |-> "rejoining", endJoin |-> "endJoining"]

\* pipelines_join: the flag is looked at, and the thread joined.
Join(c, from, to) ==
    /\ \/ ~running /\ Step(c, from, to) /\ UNCHANGED joiners
       \/ running /\ Step(c, from, InJoin[from]) /\ joiners' = Append(joiners, c)
    /\ UNCHANGED <<pipelines, result, running, sets, local, given, device>>

Joined(c, from, to) ==
    /\ Step(c, InJoin[from], to)
    /\ ThreadEnded(c)
    /\ running' = FALSE
    /\ UNCHANGED <<pipelines, result, joiners, sets, local, given, device>>

\* No set yet, or the one that was left: compiled here.
Look(c) ==
    /\ Step(c, "look", IF pipelines = NoSet THEN "create" ELSE "check")
    /\ UNCHANGED <<pipelines, result, running, joiners, sets, local, given, device>>

\* A mistake: a compilation that failed leaves its set in use.
BugUsable == TRUE
Usable == result = "success"

\* The set is handed out, or destroyed when its compilation failed.
Check(c) ==
    /\ IF Usable THEN /\ Step(c, "check", "idle")
                      /\ given' = given \union {pipelines}
                 ELSE Step(c, "check", "rejoin") /\ UNCHANGED given
    /\ UNCHANGED <<pipelines, result, running, joiners, sets, local, device>>

\* afmf_framegen_pipelines_destroy once joined.
Destroy(c, from, to) ==
    /\ Step(c, from, to)
    /\ sets' = [n \in Sets |-> IF n = pipelines THEN "freed" ELSE sets[n]]
    /\ pipelines' = NoSet
    /\ UNCHANGED <<result, running, joiners, local, given>>

-----------------------------------------------------------------------------
(* vkDestroyDevice: the swapchains are gone already.                       *)

End(c) ==
    /\ c \in Creators /\ device = "up" /\ \A d \in Creators : ~Busy(d)
    /\ device' = "ending"
    /\ given' = {}
    /\ Step(c, "idle", "endJoin")
    /\ UNCHANGED <<pipelines, result, running, joiners, sets, local>>

CompileNext ==
    \/ Prepare
    \/ \E c \in Compilers : Begin(c) \/ Compile(c) \/ Store(c)
    \/ \E c \in Creators :
        \/ Get(c) \/ Join(c, "join", "look") \/ Joined(c, "join", "look")
        \/ Look(c) \/ Check(c)
        \/ Join(c, "rejoin", "destroy") \/ Joined(c, "rejoin", "destroy")
        \/ Destroy(c, "destroy", "idle") /\ UNCHANGED device
        \/ End(c) \/ Join(c, "endJoin", "endDestroy") \/ Joined(c, "endJoin", "endDestroy")
        \/ Destroy(c, "endDestroy", "gone") /\ device' = "gone"

CompileSpec == CompileInit /\ [][CompileNext]_compileVars

-----------------------------------------------------------------------------

\* A swapchain only ever works with pipelines that are all there and stay:
\* what a creation finds is settled, not half compiled, not a failure's rest,
\* not destroyed by another's failure (framegen_pipelines.c:37-38,181-196).
GivenWhole == \A n \in given : n \in Sets /\ sets[n] = "whole"

\* When the device is destroyed its thread has been joined, once, and no set
\* is left, whatever failed and was compiled again before
\* (framegen_pipelines.c:63-88).
NothingCompiledOutlives ==
    /\ device = "gone" => \A n \in Sets : sets[n] \in {"none", "freed"}
    /\ device = "gone" => at[Background] \in {"idle", "ended"} /\ ~running
    /\ Len(joiners) <= 1
=============================================================================
