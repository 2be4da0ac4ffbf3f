------------------------------ MODULE Registry ------------------------------
(***************************************************************************)
(* The layer's table of devices (instances are kept the same way): found   *)
(* by the dispatch pointer the loader put into the handle, which it gives  *)
(* to another device once the first one is destroyed (layer_registry.c).   *)
(***************************************************************************)
EXTENDS Integers, Sequences, FiniteSets

CONSTANTS
    Devices,
    Keys,           \* dispatch pointers
    Nobody          \* NULL

ASSUME NobodyAssumption == Nobody \notin Devices

VARIABLES
    entries,        \* g_devices, newest first
    key,            \* the dispatch pointer of each device
    state,          \* how far each device's life is
    found,          \* what the last call on each device found
    taken           \* the record each destruction took

registryVars == <<entries, key, state, found, taken>>

RegistryInit ==
    /\ entries = <<>>
    /\ key \in [Devices -> Keys]
    /\ state = [d \in Devices |-> "none"]
    /\ found = [d \in Devices |-> d]
    /\ taken = [d \in Devices |-> Nobody]

\* The devices the driver has; two of them never share a dispatch pointer.
Exist == {d \in Devices : state[d] \in {"made", "live", "taken"}}

\* A mistake: the record leaves the table after the device is gone.
BugEnding == [take |-> <<"dead", "gone">>, destroy |-> <<"live", "dead">>]
\* The record first, then the device; what each half goes from and to.
Ending == [take |-> <<"live", "taken">>, destroy |-> <<"taken", "gone">>]

Became(d, from, to) == state[d] = from /\ state' = [state EXCEPT ![d] = to]

\* vkCreateDevice below the layer.
Make(d) ==
    /\ Became(d, "none", "made")
    /\ \E k \in Keys :
        /\ \A e \in Exist : key[e] # k
        /\ key' = [key EXCEPT ![d] = k]
    /\ UNCHANGED <<entries, found, taken>>

\* Or it fails after that, and the device is destroyed again, unregistered.
Unmake(d) ==
    /\ Became(d, "made", "gone")
    /\ UNCHANGED <<entries, key, found, taken>>

Register(d) ==
    /\ Became(d, "made", "live")
    /\ entries' = <<d>> \o entries
    /\ UNCHANGED <<key, found, taken>>

\* The first record with the device's dispatch pointer, if there is one.
Hits(d) == {n \in DOMAIN entries : key[entries[n]] = key[d]}
Hit(d) == CHOOSE n \in Hits(d) : \A m \in Hits(d) : n <= m
WithKey(d) == IF Hits(d) = {} THEN Nobody ELSE entries[Hit(d)]

\* The table without that record.
Without(d) ==
    IF Hits(d) = {} THEN entries
    ELSE [n \in 1 .. Len(entries) - 1 |-> entries[IF n < Hit(d) THEN n ELSE n + 1]]

\* Any entry point with the device or one of its queues.
Call(d) ==
    /\ state[d] = "live"
    /\ found' = [found EXCEPT ![d] = WithKey(d)]
    /\ UNCHANGED <<entries, key, state, taken>>

\* The two halves of vkDestroyDevice.
Take(d) ==
    /\ Became(d, Ending.take[1], Ending.take[2])
    /\ taken' = [taken EXCEPT ![d] = WithKey(d)]
    /\ entries' = Without(d)
    /\ UNCHANGED <<key, found>>

Destroyed(d) ==
    /\ Became(d, Ending.destroy[1], Ending.destroy[2])
    /\ UNCHANGED <<entries, key, found, taken>>

RegistryNext ==
    \E d \in Devices : Make(d) \/ Unmake(d) \/ Register(d) \/ Call(d) \/ Take(d) \/ Destroyed(d)

RegistrySpec == RegistryInit /\ [][RegistryNext]_registryVars

-----------------------------------------------------------------------------

\* A call finds its own device's record and a destruction takes its own,
\* although dispatch pointers come round while other threads create and
\* destroy devices (layer_registry.c:44-66, layer_queue.c:112-121).
FindsOwn ==
    \A d \in Devices : found[d] = d /\ (state[d] = "taken" => taken[d] = d)
                                     /\ (state[d] = "gone" => taken[d] \in {d, Nobody})
=============================================================================
