------------------------- MODULE SwapchainResources -------------------------
(***************************************************************************)
(* What a swapchain generates with, from vkCreateSwapchainKHR to           *)
(* vkDestroySwapchainKHR: the semaphores, fences, images, buffers and      *)
(* pools of afmf_sc_gen_init, afmf_framegen_create and                     *)
(* afmf_sc_ensure_pool, made one after the other by calls of which any may *)
(* fail, and what each failure leaves, gives up or falls back to.          *)
(*                                                                         *)
(* A thing the layer makes is <<name, indices>>; it consists of parts the  *)
(* driver hands out one by one.  Threads and the GPU are idle here when    *)
(* anything is destroyed: PresentPipeline is about that.                   *)
(***************************************************************************)
EXTENDS Integers, Sequences, FiniteSets
LOCAL INSTANCE SequencesExt

CONSTANTS
    Images,         \* sc->image_count
    MaxImages,      \* AFMF_MAX_IMAGES
    PresentFamilies,    \* the families the application presents from
    Capable         \* those that can copy images

NoPool == 0     \* the families are numbers from 1

ASSUME ImagesAssumption == Images \in Nat \ {0} /\ MaxImages \in Nat
ASSUME CapableAssumption == Capable \subseteq PresentFamilies /\ Capable # {} /\ NoPool \notin PresentFamilies

Levels == 7     \* AFMF_LEVELS
Parities == {0, 1}
ImageIndex == 1 .. Images

VARIABLES
    wants,          \* what configuration, surface and device make of it
    progress,       \* "ask", "making", "up", "gone"
    done,           \* how much of gen_init's list has been made
    alive,          \* the parts that exist
    held,           \* the handles the layer has kept
    generating,     \* sc->gen_enabled
    poolFamily,     \* sc->pool_family
    stamped,        \* the slots whose command buffer the loader has stamped
    drew            \* the last present generated a frame

resourceVars == <<wants, progress, done, alive, held, generating, poolFamily, stamped, drew>>

\* interpolate: AFMF_INTERPOLATE; able: no blocker_for; direct, ingest: direct
\* output and ingest; half: performance mode; aids: dump and profiler; stamps:
\* the loader's callback; own: a queue of the layer.
Wants == [interpolate : BOOLEAN, able : BOOLEAN, direct : BOOLEAN, ingest : BOOLEAN,
          half : BOOLEAN, aids : BOOLEAN, stamps : BOOLEAN, own : BOOLEAN]
Useful(w) ==
    /\ w.direct \/ w.ingest => Images <= MaxImages
    /\ (w.interpolate /\ w.able) \/ ~(w.direct \/ w.ingest \/ w.half \/ w.aids)

-----------------------------------------------------------------------------
(* The things, in the order they are made. *)

Arrays == {"images", "sem_generated", "sem_real", "sem_app", "slots"}

PerImage == <<"sem_generated", "sem_real", "sem_app", "fence">>
Base == <<<<"count">>, <<"arrays">>, <<"list">>>>
        \o [n \in 1 .. 4 * Images |-> <<PerImage[1 + ((n - 1) % 4)], 1 + ((n - 1) \div 4)>>]
        \o <<<<"spare_fence">>>>

If(c, things) == IF c THEN things ELSE <<>>

PerLevel == <<<<"luma", 0>>, <<"flow", 0>>, <<"luma", 1>>, <<"flow", 1>>>>

Textures(w) ==
    [n \in 1 .. 4 * Levels |->
        LET t == PerLevel[1 + ((n - 1) % 4)] IN <<t[1], t[2], (n - 1) \div 4>>]
    \o <<<<"flow_out">>, <<"scd_histogram">>, <<"scd_previous">>, <<"scd_temp">>, <<"scd_output">>,
         <<"color", 0>>, <<"color", 1>>>>
    \o If(w.half /\ ~w.ingest, <<<<"color_half">>>>)
    \o If(~w.direct, <<<<"output">>>>)

DescriptorThings(w) ==
    <<<<"descriptors">>, <<"sets">>>>
    \o If(w.direct, <<<<"direct_sets">>>>) \o If(w.ingest, <<<<"ingest_sets">>>>)

\* afmf_framegen_create.
Engine(w) ==
    <<<<"fg">>, <<"device">>>>
    \o If(w.direct \/ w.ingest, [i \in ImageIndex |-> <<"target", i>>])
    \o Textures(w) \o <<<<"sampler">>, <<"cb">>>> \o DescriptorThings(w)
    \o If(w.aids, <<<<"dump">>, <<"queries">>>>)

List(w) == Base \o If(w.interpolate, Engine(w))

Image == {"luma", "flow", "flow_out", "scd_histogram", "scd_previous", "scd_temp", "scd_output",
          "color", "color_half", "output"}

\* The handles of a thing, in the order they come.
Parts(t) ==
    CASE t[1] \in Image -> <<"image", "memory", "view">>
      [] t[1] = "history" -> <<"image", "memory">>
      [] t[1] \in {"cb", "dump"} -> <<"buffer", "memory", "mapped">>
      [] t[1] = "arrays" -> SetToSeq(Arrays)
      [] t[1] = "queries" -> <<"count", "stage", "pool">>
      [] t[1] \in {"count", "list", "device"} -> <<>>     \* asked, not made
      [] OTHER -> <<"handle">>
Handles(t) == {<<t, Parts(t)[n]>> : n \in DOMAIN Parts(t)}

\* What a failure may leave of it: memory allocations are only looked at
\* together; an image, or sets allocated into an array, may be whole and yet not
\* bound or filled; what is only asked leaves nothing.
MaybeWhole == {"history", "direct_sets", "ingest_sets"}
Leftovers(t) ==
    CASE t[1] = "arrays" -> SUBSET Handles(t) \ {Handles(t)}
      [] t[1] = "queries" -> SUBSET {<<t, "count">>, <<t, "stage">>}
      [] OTHER -> LET Left(m) == {<<t, Parts(t)[n]>> : n \in 1 .. m}
                      whole == IF t[1] \in MaybeWhole THEN {Len(Parts(t))} ELSE {}
                  IN  {Left(m) : m \in {0} \union (1 .. Len(Parts(t)) - 1) \union whole}

HaveEngine == <<<<"fg">>, "handle">> \in held
Exists(t) == Handles(t) \subseteq alive

-----------------------------------------------------------------------------
(* What is destroyed. *)

Named(names) == {h \in held : h[1][1] \in names}

\* afmf_framegen_destroy.  A mistake: the half-size colour is not in its list.
EngineRest == {"fg", "secondaries", "target", "direct_sets", "ingest_sets", "descriptors", "sets",
               "queries", "dump", "cb", "sampler"}
BugEngineNames == EngineRest \union (Image \ {"color_half"})
EngineNames == EngineRest \union Image

DestroyEngine == alive' = alive \ Named(EngineNames) /\ held' = held \ Named(EngineNames)

\* afmf_sc_gen_teardown, and the handles it resets or frees the arrays of.  A
\* mistake: the spare's fence is destroyed and its handle kept.
TeardownNames == {"fence", "spare_fence", "pool", "cmd", "sem_generated", "sem_real", "sem_app",
                  "history", "arrays"} \union EngineNames
BugForgotten == TeardownNames \ {"spare_fence"}
Forgotten == TeardownNames

Teardown ==
    /\ alive' = alive \ Named(TeardownNames)
    /\ held' = held \ Named(Forgotten)
    /\ generating' = FALSE
    /\ stamped' = {}

-----------------------------------------------------------------------------
(* Creation. *)

ResourcesInit ==
    /\ wants \in {w \in Wants : Useful(w)}
    /\ progress = "ask" /\ done = 0
    /\ alive = {} /\ held = {}
    /\ generating = FALSE /\ poolFamily = NoPool /\ stamped = {}
    /\ drew = FALSE

TheSwapchain == {<<<<"swapchain">>, "handle">>}
TheRecord == {<<<<"sc">>, "handle">>}

\* The driver's swapchain first, and the layer's record of it; a blocker leaves
\* it at that.
BeginSwapchain ==
    /\ progress = "ask"
    /\ \/ progress' = "making" /\ generating' = TRUE
       \/ progress' = "up" /\ UNCHANGED generating
    /\ alive' = TheSwapchain \union TheRecord /\ held' = alive'
    /\ UNCHANGED <<wants, done, poolFamily, stamped, drew>>

\* No memory for the record: the swapchain is destroyed again.
NoSwapchain ==
    /\ progress = "ask"
    /\ progress' = "gone"
    /\ UNCHANGED <<wants, done, alive, held, generating, poolFamily, stamped, drew>>

Making == progress = "making" /\ done < Len(List(wants))
This == List(wants)[done + 1]
Aids == {"dump", "queries"}
InEngine == done >= Len(Base)

Keep(handles) == alive' = alive \union handles /\ held' = held \union handles

MakeThing ==
    /\ Making
    /\ This[1] = "device" => wants.able
    /\ Keep(Handles(This))
    /\ done' = done + 1
    /\ UNCHANGED <<wants, progress, generating, poolFamily, stamped, drew>>

\* A failing call; a dump or a profiler that cannot be made is done without.
ThingFails ==
    /\ Making
    /\ \E left \in Leftovers(This) : Keep(left)
    /\ \/ This[1] \in Aids /\ done' = done + 1 /\ UNCHANGED progress
       \/ This[1] \notin Aids /\ InEngine /\ progress' = "engine failed" /\ UNCHANGED done
       \/ ~InEngine /\ progress' = "failed" /\ UNCHANGED done
    /\ UNCHANGED <<wants, generating, poolFamily, stamped, drew>>

\* The engine cannot be made whole: companions will repeat frames.
GiveUpEngine ==
    /\ progress = "engine failed"
    /\ DestroyEngine
    /\ progress' = "making" /\ done' = Len(List(wants))
    /\ UNCHANGED <<wants, generating, poolFamily, stamped, drew>>

Made == progress = "making" /\ done = Len(List(wants))

MadeWithEngine ==
    /\ Made /\ HaveEngine
    /\ progress' = "up"
    /\ UNCHANGED <<wants, done, alive, held, generating, poolFamily, stamped, drew>>

MakeHistory ==
    /\ Made /\ ~HaveEngine
    /\ \/ Keep(Handles(<<"history">>)) /\ progress' = "up"
       \/ /\ \E left \in Leftovers(<<"history">>) : Keep(left)
          /\ progress' = "failed"
    /\ UNCHANGED <<wants, done, generating, poolFamily, stamped, drew>>

\* Without its resources the swapchain passes everything through.
GiveUp ==
    /\ progress = "failed"
    /\ Teardown
    /\ progress' = "up"
    /\ UNCHANGED <<wants, done, poolFamily, drew>>

-----------------------------------------------------------------------------
(* Presents, and the end. *)

Up == progress = "up"
ThePool == {<<<<"pool">>, "handle">>}
Cmds(n) == {<<<<"cmd", i>>, "handle">> : i \in 1 .. n}
HavePool == ThePool \subseteq held
TheSecondaries == Handles(<<"secondaries">>)

\* The family of the queue the layer records for.
RecordsFor(f) == wants.own => f = CHOOSE g \in Capable : TRUE

\* afmf_framegen_set_family: the pre-recorded part, or all of it given back.
SetFamily(rest) ==
    \/ Keep(rest)
    \/ HaveEngine /\ wants.stamps /\ Keep(rest \union TheSecondaries)

\* afmf_sc_ensure_pool is content: with the pool there is, or with a new one.
PresentGenerated(f) ==
    /\ Up /\ generating /\ RecordsFor(f)
    /\ \/ HavePool /\ poolFamily = f /\ UNCHANGED <<alive, held, poolFamily, stamped>>
       \/ /\ ~HavePool /\ f \in Capable /\ wants.stamps
          /\ SetFamily(ThePool \union Cmds(Images))
          /\ poolFamily' = f /\ stamped' = ImageIndex
    /\ drew' = TRUE
    /\ UNCHANGED <<wants, progress, done, generating>>

\* What a new pool that is not whole leaves: nothing, the pool, or some command
\* buffers, the last of them without the loader's stamp.
PoolFails(f) ==
    \/ UNCHANGED <<alive, held, poolFamily, stamped>>
    \/ /\ f \in Capable /\ poolFamily' = f
       /\ \E n \in 0 .. Images, m \in 0 .. Images :
              /\ (n = m /\ n < Images) \/ n = m + 1
              /\ ~wants.stamps => n = 0
              /\ Keep(ThePool \union Cmds(n)) /\ stamped' = 1 .. m

\* afmf_sc_gen_disable: all that was made stays.  A mistake: an unfit present
\* goes out alone and the next one tries again.
BugUnfit == UNCHANGED generating
Unfit == generating' = FALSE

\* Another family, a pool that cannot be made, an image or a number of
\* semaphores out of range.
PresentUnfit(f) ==
    /\ Up /\ generating /\ RecordsFor(f)
    /\ \/ HavePool /\ UNCHANGED <<alive, held, poolFamily, stamped>>
       \/ ~HavePool /\ PoolFails(f)
    /\ Unfit /\ drew' = FALSE
    /\ UNCHANGED <<wants, progress, done>>

\* A frame's submission failed.
Disable ==
    /\ Up /\ generating
    /\ generating' = FALSE /\ drew' = FALSE
    /\ UNCHANGED <<wants, progress, done, alive, held, poolFamily, stamped>>

\* vkDestroySwapchainKHR: torn down, again perhaps, then the record freed and the
\* driver's swapchain destroyed.
EndSwapchain ==
    /\ Up
    /\ Teardown
    /\ progress' = "released" /\ drew' = FALSE
    /\ UNCHANGED <<wants, done, poolFamily>>

FreeSwapchain ==
    /\ progress = "released"
    /\ alive' = alive \ (TheSwapchain \union TheRecord)
    /\ held' = {}
    /\ progress' = "gone"
    /\ UNCHANGED <<wants, done, generating, poolFamily, stamped, drew>>

ResourcesNext ==
    \/ BeginSwapchain \/ NoSwapchain \/ MakeThing \/ ThingFails \/ GiveUpEngine \/ MadeWithEngine
    \/ MakeHistory \/ GiveUp \/ Disable \/ EndSwapchain \/ FreeSwapchain
    \/ \E f \in PresentFamilies : PresentGenerated(f) \/ PresentUnfit(f)

ResourcesSpec == ResourcesInit /\ [][ResourcesNext]_resourceVars

-----------------------------------------------------------------------------
(* The descriptor sets of the engine. *)

\* The tables of framegen_passes.c.
Bindings ==
    [prepare |-> <<"sampled", "storage", "ubo">>,
     pyramid |-> [n \in 1 .. Levels |-> "storage"] \o <<"ubo", "ubo">>,
     scd_histogram |-> <<"sampled", "storage", "ubo">>,
     scd_divergence |-> <<"storage", "storage", "storage", "storage", "ubo">>,
     search |-> <<"sampled", "sampled", "storage", "storage", "ubo">>,
     filter |-> <<"sampled", "storage", "ubo">>,
     scale |-> <<"sampled", "sampled", "sampled", "storage", "storage", "ubo">>,
     interpolate |-> <<"combined", "combined", "sampled", "storage", "storage">>,
     downsample |-> <<"combined", "storage">>,
     ingest |-> <<"sampled", "storage", "storage">>]

\* How many sets of each are allocated for a parity.
SetsAllocated ==
    [pass \in DOMAIN Bindings |->
        CASE pass \in {"search", "filter"} -> Levels
          [] pass = "scale" -> Levels - 1
          [] pass = "interpolate" -> 1 + IF wants.direct THEN Images ELSE 0
          [] pass = "ingest" -> IF wants.ingest THEN Images ELSE 0
          [] OTHER -> 1]

\* The pool's sizes, counted by hand in framegen_descriptors.c.
DirectSets == IF wants.direct THEN 2 * Images ELSE 0
IngestSets == IF wants.ingest THEN 2 * Images ELSE 0
PoolSizes == [sampled |-> 2 * 42 + DirectSets + IngestSets,
              storage |-> 2 * 49 + 2 * DirectSets + 2 * IngestSets,
              combined |-> 2 * 3 + 2 * DirectSets,
              ubo |-> 2 * 25]
PoolSets == 2 * 26 + DirectSets + IngestSets

\* For two parities, what all the passes' sets need of one type.
Occurrences(type, pass) == Cardinality({n \in DOMAIN Bindings[pass] : Bindings[pass][n] = type})
Needed(n) ==
    2 * (n["prepare"] + n["pyramid"] + n["scd_histogram"] + n["scd_divergence"] + n["search"]
         + n["filter"] + n["scale"] + n["interpolate"] + n["downsample"] + n["ingest"])
OfType(type) == [pass \in DOMAIN Bindings |-> SetsAllocated[pass] * Occurrences(type, pass)]
SetsFit ==
    /\ \A type \in DOMAIN PoolSizes : Needed(OfType(type)) <= PoolSizes[type]
    /\ Needed(SetsAllocated) <= PoolSets

\* afmf_flow_parity_a, and what sets_write writes into the k-th set of a pass.
SearchTarget(p, k) == IF p # k % 2 THEN 1 ELSE 0
BugSource(p, k) == <<"color_half">>
Source(p, k) == IF wants.half /\ ~wants.ingest THEN <<"color_half">> ELSE <<"color", p>>

Written(pass, p, k) ==
    LET q == 1 - p
        a == SearchTarget(p, k)
        b == 1 - a
    IN  CASE pass = "prepare" -> <<Source(p, k), <<"luma", p, 0>>, <<"cb">>>>
          [] pass = "pyramid" -> [n \in 1 .. Levels |-> <<"luma", p, n - 1>>] \o <<<<"cb">>, <<"cb">>>>
          [] pass = "scd_histogram" -> <<<<"luma", p, 0>>, <<"scd_histogram">>, <<"cb">>>>
          [] pass = "scd_divergence" ->
                 <<<<"scd_histogram">>, <<"scd_previous">>, <<"scd_temp">>, <<"scd_output">>, <<"cb">>>>
          [] pass = "search" ->
                 <<<<"luma", p, k>>, <<"luma", q, k>>, <<"flow", a, k>>, <<"scd_output">>, <<"cb">>>>
          [] pass = "filter" ->
                 <<<<"flow", a, k>>, IF k = 0 THEN <<"flow_out">> ELSE <<"flow", b, k>>, <<"cb">>>>
          [] pass = "scale" ->
                 <<<<"luma", p, k>>, <<"luma", q, k>>, <<"flow", b, k>>, <<"flow", b, k - 1>>,
                   <<"scd_output">>, <<"cb">>>>
          [] pass = "interpolate" ->
                 <<<<"color", q>>, <<"color", p>>, <<"flow_out">>, <<"scd_output">>,
                   IF wants.direct THEN <<"target", k>> ELSE <<"output">>>>
          [] pass = "downsample" -> <<<<"color", p>>, <<"color_half">>>>
          [] pass = "ingest" -> <<<<"target", k>>, <<"color", p>>, <<"luma", p, 0>>>>

\* The sets a frame's commands bind, of the ones allocated.
Bound ==
    {<<"pyramid", 0>>, <<"scd_histogram", 0>>, <<"scd_divergence", 0>>}
    \union ({"search", "filter"} \X (0 .. Levels - 1)) \union ({"scale"} \X (1 .. Levels - 1))
    \union ({"interpolate"} \X (IF wants.direct THEN ImageIndex ELSE {0}))
    \union (IF wants.ingest THEN {"ingest"} \X ImageIndex ELSE {<<"prepare", 0>>})
    \union (IF wants.half /\ ~wants.ingest THEN {<<"downsample", 0>>} ELSE {})

\* Every binding of such a set was written with something that exists, and no
\* pass stores into an image it samples.
SetsSound ==
    \A p \in Parities, s \in Bound :
        LET types == Bindings[s[1]]
            views == Written(s[1], p, s[2])
        IN  /\ Len(views) = Len(types)
            /\ \A n \in DOMAIN views : Exists(views[n])
            /\ \A m, n \in DOMAIN views :
                   types[m] \in {"sampled", "combined"} /\ types[n] = "storage" => views[m] # views[n]

-----------------------------------------------------------------------------
\* Nothing is missing in the engine but what it can be done without.
EngineWhole ==
    \A n \in DOMAIN Engine(wants) : Engine(wants)[n][1] \in Aids \/ Exists(Engine(wants)[n])

\* A frame is generated only with everything its recording, its submission and
\* its presents use, whatever failed on the way and however often it was tried:
\* the semaphores and fences of every image, command buffers the loader knows
\* ("stamp the dispatch pointer ourselves"), and the history image or an engine
\* without gaps, with descriptor sets its pool has room for and no view missing.
GeneratesWhole ==
    drew =>
        /\ \A n \in DOMAIN Base : Exists(Base[n])
        /\ Exists(<<"pool">>) /\ \A i \in ImageIndex : Exists(<<"cmd", i>>)
        /\ stamped = ImageIndex
        /\ IF HaveEngine THEN EngineWhole /\ SetsFit /\ SetsSound ELSE Exists(<<"history">>)

\* The layer keeps no handle of what it destroyed, through failing creations
\* torn down once there and once at the swapchain's end, and destroys all it
\* ever made: nothing outlives the swapchain.
NothingLeft == held \subseteq alive /\ (progress = "gone" => alive = {})
=============================================================================
