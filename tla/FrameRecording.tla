--------------------------- MODULE FrameRecording ---------------------------
(***************************************************************************)
(* What one frame leaves on the GPU: the host records a frame into its     *)
(* slot's command buffer and submits it (afmf_sc_frame_generate,           *)
(* afmf_sc_record_frame, afmf_framegen_record), the GPU runs the           *)
(* submissions later, in order.  The host's idea of the images moves while *)
(* it records; theirs moves when the batch runs; the constants of a slot   *)
(* and its pre-recorded command buffers are shared between the two.        *)
(*                                                                         *)
(* An image holds the number of the frame it was made from, a flow texture *)
(* the two frames it compares and the pass that wrote it.  The half-size   *)
(* colour, the scene change detector, profiling, the dumps and whether the *)
(* companion is stored directly or copied are left out.                    *)
(***************************************************************************)
EXTENDS Integers, Sequences

CONSTANTS
    Slots,          \* sc->image_count
    Top,            \* fg->max_levels
    Few,            \* the five levels of a stepped down search
    Transient,      \* whether the work thread may succeed after a failure
    MaxFrames       \* bound: frames of the application

ASSUME SlotsAssumption == Slots \in Nat \ {0}
ASSUME LevelsAssumption == Few \in Nat \ {0} /\ Top \in Nat /\ Few <= Top
ASSUME RecordingBoundsAssumption == Transient \in BOOLEAN /\ MaxFrames \in Nat

Parity == {0, 1}
Level == 0 .. Top - 1
Slot == 0 .. Slots - 1

VARIABLES
    kind,       \* [flow, ingest, replay]: what creation decided
    frame,      \* frames presented so far
    waiting,    \* frames handed to the work thread and not generated yet
    enabled,    \* sc->gen_enabled
    workerFailed,   \* sc->worker_failed
    nextSlot,   \* sc->slot_index
    host,       \* [index, ready, history, layout]: what recording remembers
    constants,  \* the constants buffer, mapped: a [levels, frame] for each slot
    recorded,   \* secondaries: the levels each was recorded with, 0 without
    latest,     \* the frame of the last submission that succeeded
    gpu,        \* batches submitted and not run yet
    mem,        \* the images
    made        \* the companion of the last batch that had one

hostVars == <<frame, waiting, enabled, workerFailed, nextSlot, host, constants, recorded, latest>>
recordingVars == <<kind, hostVars, gpu, mem, made>>

Nothing == <<0, 0, "undefined">>
NoCompanion == [frame |-> 0, of |-> <<0, 0>>, flow |-> Nothing, before |-> 0]

Blank == [general |-> FALSE, layout |-> "undefined", history |-> 0,
          colour |-> [p \in Parity |-> 0], luma |-> [p \in Parity |-> 0],
          pyramid |-> [p \in Parity |-> 0],
          flow |-> [p \in Parity |-> [k \in Level |-> Nothing]],
          flowOut |-> Nothing]

\* Without interpolation (no sc->fg) companions repeat the history image.
RecordingKinds == [flow : {TRUE}, ingest : BOOLEAN, replay : BOOLEAN]
             \union {[flow |-> FALSE, ingest |-> FALSE, replay |-> FALSE]}

RecordingInit ==
    /\ kind \in RecordingKinds
    /\ frame = 0 /\ waiting = <<>> /\ enabled = TRUE /\ workerFailed = FALSE
    /\ nextSlot = 0
    /\ host = [index |-> 0, ready |-> FALSE, history |-> FALSE, layout |-> "undefined"]
    /\ constants = [s \in Slot |-> [levels |-> 0, frame |-> 0]]
    /\ recorded = [s \in Slot |-> [p \in Parity |-> [c \in BOOLEAN |-> 0]]]
    /\ latest = 0
    /\ gpu = <<>> /\ mem = Blank /\ made = NoCompanion

-----------------------------------------------------------------------------
(* The GPU runs a batch. *)

\* afmf_flow_parity_a.  The mistake forgets that the levels alternate too.
BugFlowParityA(p, k) == p
FlowParityA(p, k) == IF p # k % 2 THEN 1 ELSE 0

\* What a pass writes that compares parity p with the other one and reads `from`.
Compared(p, lumas, from, stage) ==
    IF from[1] = lumas[1 - p] /\ from[2] = lumas[p] THEN <<from[1], from[2], stage>> ELSE Nothing

\* The pyramid's first level is the luma itself.
LumaOf(m, k) == IF k = 0 THEN m.luma ELSE m.pyramid

\* afmf_framegen_initialize: every image to GENERAL, the lumas black.
Initialised(m, b) ==
    IF b.init THEN [m EXCEPT !.general = TRUE,
                             !.luma = [p \in Parity |-> 0], !.pyramid = [p \in Parity |-> 0]]
              ELSE m

\* The frame into the colour ring, with its luma when the ingest pass writes it.
Ingested(m, b) ==
    [m EXCEPT !.colour[b.parity] = b.frame,
              !.luma[b.parity] = IF kind.ingest THEN b.frame ELSE @]

\* A search starts from nothing at the level its constants call the coarsest, and
\* otherwise from what the coarser level was scaled to.
Searched(m, p, k, cb) ==
    LET a == FlowParityA(p, k)
        lumas == LumaOf(m, k)
        found == IF k = cb.levels - 1 THEN <<lumas[1 - p], lumas[p], "searched">>
                 ELSE IF m.flow[a][k][3] = "scaled"
                      THEN Compared(p, lumas, m.flow[a][k], "searched")
                      ELSE Nothing
    IN  [m EXCEPT !.flow[a][k] = found]

Filtered(m, p, k) ==
    LET a == FlowParityA(p, k)
        from == m.flow[a][k]
        out == IF from[3] = "searched" THEN <<from[1], from[2], "filtered">> ELSE Nothing
    IN  IF k = 0 THEN [m EXCEPT !.flowOut = out] ELSE [m EXCEPT !.flow[1 - a][k] = out]

Scaled(m, p, k) ==
    LET b == 1 - FlowParityA(p, k)
        out == IF m.flow[b][k][3] = "filtered"
               THEN Compared(p, LumaOf(m, k), m.flow[b][k], "scaled") ELSE Nothing
    IN  IF k = 0 THEN m ELSE [m EXCEPT !.flow[b][k - 1] = out]

\* afmf_framegen_record_flow, run: luma, pyramid, then coarse to fine.
FixedPart(m, p, levels, companion, cb) ==
    LET luma == IF kind.ingest THEN m ELSE [m EXCEPT !.luma[p] = m.colour[p]]
        base == [luma EXCEPT !.pyramid[p] = luma.luma[p]]
        walk[k \in 0 .. levels] ==
            IF k = levels THEN base
            ELSE Scaled(Filtered(Searched(walk[k + 1], p, k, cb), p, k), p, k)
    IN  IF companion THEN walk[0] ELSE base

\* A replayed part runs as it was last recorded.
RunFlow(b) ==
    FixedPart(Ingested(Initialised(mem, b), b), b.parity,
              IF b.replayed THEN recorded[b.slot][b.parity][b.companion] ELSE b.levels,
              b.companion, constants[b.slot])

\* The history image's part: copied into the companion, then overwritten.
RunCopy(b) == [mem EXCEPT !.history = b.frame, !.layout = "dst"]

Interpolated(m, b) ==
    [frame |-> b.frame, of |-> <<m.colour[1 - b.parity], m.colour[b.parity]>>,
     flow |-> m.flowOut, before |-> b.before]

Repeated(b) == [frame |-> b.frame, of |-> <<mem.history, b.frame>>,
                flow |-> <<mem.history, b.frame, "filtered">>, before |-> b.before]

Run ==
    /\ gpu # <<>>
    /\ LET b == Head(gpu)
           after == IF kind.flow THEN RunFlow(b) ELSE RunCopy(b)
       IN  /\ mem' = after
           /\ made' = IF ~b.companion THEN made
                      ELSE IF kind.flow THEN Interpolated(after, b) ELSE Repeated(b)
    /\ gpu' = Tail(gpu)
    /\ UNCHANGED <<kind, hostVars>>

-----------------------------------------------------------------------------
(* The host records a frame and submits it. *)

\* The slot's fence has been signalled.
BugSlotFree(s) == TRUE
SlotFree(s) == \A n \in 1 .. Len(gpu) : gpu[n].slot # s

\* execute_flow: what is there is replayed while the levels are the same.
BugStale(levels, was) == was = 0
Stale(levels, was) == was # levels

\* The batch of one frame, recorded with `levels`.
Batch(n, s, levels, companion, replayed) ==
    [frame |-> n, slot |-> s, parity |-> host.index % 2, init |-> kind.flow /\ ~host.ready,
     levels |-> levels, companion |-> companion, replayed |-> replayed,
     from |-> host.layout, before |-> latest]

\* What recording has moved, whatever becomes of the submission.  The mistake
\* remembers the history image where the companion's copy left it.
BugRecorded ==
    IF kind.flow THEN [host EXCEPT !.index = @ + 1, !.ready = TRUE]
                 ELSE [host EXCEPT !.layout = "src"]
Recorded ==
    IF kind.flow THEN [host EXCEPT !.index = @ + 1, !.ready = TRUE]
                 ELSE [host EXCEPT !.layout = "dst"]

\* Records frame n into slot s.  Without secondaries, or when one cannot be
\* recorded, the fixed part goes straight into the frame's own command buffer.
Record(n, s, levels, companion, replayed) ==
    LET p == host.index % 2
        was == recorded[s][p][companion]
    IN  IF ~kind.flow THEN ~replayed /\ UNCHANGED <<constants, recorded>>
        ELSE /\ constants' = [constants EXCEPT ![s] = [levels |-> levels, frame |-> n]]
             /\ replayed => kind.replay
             /\ kind.replay /\ ~Stale(levels, was) => replayed
             /\ recorded' = IF kind.replay /\ Stale(levels, was)
                            THEN [recorded EXCEPT ![s][p][companion] = IF replayed THEN levels ELSE 0]
                            ELSE recorded

\* A companion needs a frame submitted before its own.
BugHasHistory == TRUE
HasHistory == host.history

\* afmf_sc_frame_generate for frame n, in slot s.
Generated(n, s, levels, companion, replayed) ==
    /\ SlotFree(s)
    /\ companion => HasHistory
    /\ Record(n, s, levels, companion, replayed)
    /\ host' = [Recorded EXCEPT !.history = TRUE]
    /\ gpu' = Append(gpu, Batch(n, s, levels, companion, replayed))
    /\ latest' = n

\* The submission fails, or the command buffer does not end: recorded all the same.
NotSubmitted(n, s, levels, companion, replayed) ==
    /\ SlotFree(s)
    /\ companion => HasHistory
    /\ Record(n, s, levels, companion, replayed)
    /\ host' = Recorded
    /\ UNCHANGED <<gpu, latest>>

\* The command buffer does not begin: nothing is recorded.
NotBegun(s) ==
    /\ SlotFree(s)
    /\ UNCHANGED <<host, constants, recorded, gpu, latest>>

Succeeds(n, s) ==
    \E levels \in {Few, Top}, companion, replayed \in BOOLEAN :
        Generated(n, s, levels, companion, replayed)

\* A lost device is the failure after which nothing else succeeds.
Fails(n, s, mayNotBegin) ==
    \/ \E levels \in {Few, Top}, companion, replayed \in BOOLEAN :
           NotSubmitted(n, s, levels, companion, replayed)
    \/ mayNotBegin /\ NotBegun(s)

-----------------------------------------------------------------------------
(* The application presents. *)

TakesSlot == nextSlot' = (nextSlot + 1) % Slots

\* Threaded: the frame is queued; a failure seen now stops generation after it.
Hand ==
    /\ enabled /\ frame < MaxFrames /\ Len(waiting) < Slots
    /\ frame' = frame + 1
    /\ waiting' = Append(waiting, [frame |-> frame + 1, slot |-> nextSlot])
    /\ TakesSlot
    /\ enabled' = ~workerFailed
    /\ UNCHANGED <<kind, workerFailed, host, constants, recorded, latest, gpu, mem, made>>

Work ==
    /\ waiting # <<>>
    /\ LET w == Head(waiting)
       IN  \/ /\ workerFailed => Transient
              /\ Succeeds(w.frame, w.slot)
              /\ UNCHANGED workerFailed
           \/ Fails(w.frame, w.slot, Transient) /\ workerFailed' = TRUE
    /\ waiting' = Tail(waiting)
    /\ UNCHANGED <<kind, frame, enabled, nextSlot, mem, made>>

\* Inline, behind everything queued; a failure leaves the slot and stops it all.
Inline ==
    /\ enabled /\ frame < MaxFrames /\ waiting = <<>>
    /\ frame' = frame + 1
    /\ \/ /\ workerFailed => Transient
          /\ Succeeds(frame + 1, nextSlot) /\ TakesSlot /\ UNCHANGED enabled
       \/ Fails(frame + 1, nextSlot, TRUE) /\ enabled' = FALSE /\ UNCHANGED nextSlot
    /\ UNCHANGED <<kind, waiting, workerFailed, mem, made>>

\* A frame presented in one call with another swapchain's goes by unseen.
Aside ==
    /\ enabled /\ frame < MaxFrames
    /\ frame' = frame + 1
    /\ UNCHANGED <<kind, waiting, enabled, workerFailed, nextSlot, host, constants, recorded,
                   latest, gpu, mem, made>>

RecordingNext == Hand \/ Work \/ Inline \/ Aside \/ Run

RecordingSpec == RecordingInit /\ [][RecordingNext]_recordingVars

-----------------------------------------------------------------------------
\* A companion lies between its own frame and the last one generated for before
\* it, in its colours and in the flow it was interpolated with: the ring, the
\* luma pyramids and the two flow textures of every level all turn together, at
\* whatever number of levels the governor asks for and whether the passes were
\* recorded anew or replayed.  The first frame has none.
MadeOfHistory ==
    made # NoCompanion =>
        /\ made.before # 0
        /\ made.of = <<made.before, made.frame>>
        /\ made.flow = <<made.before, made.frame, "filtered">>

\* A batch finds the images in the layouts its recording took them to be in:
\* "Every internal image lives in VK_IMAGE_LAYOUT_GENERAL for its whole life",
\* and the history image is where sc->history_layout says.
LayoutsAsRecorded ==
    gpu # <<>> =>
        LET b == Head(gpu)
        IN  IF kind.flow THEN b.init \/ mem.general ELSE b.from \in {"undefined", mem.layout}

\* What a submitted batch still reads from the host's side, its slot's constants
\* and its pre-recorded part, stays as it was written for that batch.
ReadsItsOwn ==
    \A n \in 1 .. Len(gpu) :
        LET b == gpu[n]
        IN  kind.flow => /\ constants[b.slot] = [levels |-> b.levels, frame |-> b.frame]
                         /\ b.replayed => recorded[b.slot][b.parity][b.companion] = b.levels
=============================================================================
