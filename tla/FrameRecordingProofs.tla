------------------------ MODULE FrameRecordingProofs ------------------------
(***************************************************************************)
(* Every batch finds what its recording took for granted, and a companion  *)
(* is made of its own frame and the last one generated for before it, for  *)
(* any number of slots, of pyramid levels and of frames.                   *)
(***************************************************************************)
EXTENDS FrameRecording, WellFoundedInduction, TLAPS

Pairs == [Parity -> Nat]

\* The images: what holds of them as values, and of the flow textures only
\* that every level has two.
MemTypes(m) ==
    /\ m = [general |-> m.general, layout |-> m.layout, history |-> m.history,
            colour |-> m.colour, luma |-> m.luma, pyramid |-> m.pyramid,
            flow |-> m.flow, flowOut |-> m.flowOut]
    /\ m.colour \in Pairs /\ m.luma \in Pairs /\ m.pyramid \in Pairs
    /\ m.flow = [p \in Parity |-> [k \in Level |-> m.flow[p][k]]]

Batches ==
    [frame : Nat \ {0}, slot : Slot, parity : Parity, init : BOOLEAN, levels : {Few, Top},
     companion : BOOLEAN, replayed : BOOLEAN, from : {"undefined", "dst"}, before : Nat]

RecordingTypes ==
    /\ kind \in RecordingKinds
    /\ frame \in Nat /\ nextSlot \in Slot
    /\ enabled \in BOOLEAN /\ workerFailed \in BOOLEAN
    /\ waiting \in Seq([frame : Nat \ {0}, slot : Slot])
    /\ host \in [index : Nat, ready : BOOLEAN, history : BOOLEAN, layout : {"undefined", "dst"}]
    /\ constants \in [Slot -> [levels : Nat, frame : Nat]]
    /\ recorded \in [Slot -> [Parity -> [BOOLEAN -> Nat]]]
    /\ latest \in Nat
    /\ gpu \in Seq(Batches)
    /\ MemTypes(mem)

\* A frame can still be generated.
Alive == ~workerFailed /\ (enabled \/ waiting # <<>>)

\* The images m as a batch of parity p expects them that follows frame `before`,
\* with interpolation (flow) and without.
Ready(flow, m, p, init, before) ==
    IF flow
      THEN /\ m.colour[1 - p] = before
           /\ init => before = 0
           /\ ~init => m.general /\ m.luma[1 - p] = before /\ m.pyramid[1 - p] = before
      ELSE m.history = before
LayoutReady(flow, m, from) == ~flow => from \in {"undefined", m.layout}
Expects(flow, m, b) == Ready(flow, m, b.parity, b.init, b.before) /\ LayoutReady(flow, m, b.from)

\* Batch c was recorded right behind batch b.
Follows(flow, b, c) == c.before = b.frame /\ (flow => c.parity = 1 - b.parity /\ ~c.init)

\* The batches submitted follow one another, and the first the images.
Chained ==
    /\ gpu # <<>> => Expects(kind.flow, mem, gpu[1])
    /\ \A n \in 1 .. Len(gpu) - 1 : Follows(kind.flow, gpu[n], gpu[n + 1])
    /\ \A n \in 1 .. Len(gpu) : gpu[n].companion => gpu[n].before # 0

\* The next batch, if there is one to come, follows the last.
HostFollows ==
    Alive =>
        /\ host.history => latest # 0
        /\ IF gpu = <<>>
             THEN /\ Ready(kind.flow, mem, host.index % 2, ~host.ready, latest)
                  /\ LayoutReady(kind.flow, mem, host.layout)
             ELSE /\ latest = gpu[Len(gpu)].frame
                  /\ kind.flow => host.ready /\ host.index % 2 = 1 - gpu[Len(gpu)].parity


-----------------------------------------------------------------------------
(* One level of the flow. *)

AtLevel(m, p, k, cb) == Scaled(Filtered(Searched(m, p, k, cb), p, k), p, k)

\* The flow passes leave every other image as it was.
SameImages(m, n) ==
    /\ MemTypes(n)
    /\ n.general = m.general /\ n.layout = m.layout /\ n.history = m.history
    /\ n.colour = m.colour /\ n.luma = m.luma /\ n.pyramid = m.pyramid

LEMMA LevelNumbers == Few \in 1 .. Top /\ Top \in 1 .. Top /\ Slots \in Nat /\ Slots > 0
  BY LevelsAssumption, SlotsAssumption

LEMMA ParityTurns ==
  ASSUME NEW p \in Parity, NEW k \in Nat
  PROVE  /\ FlowParityA(p, k) \in Parity /\ 1 - FlowParityA(p, k) \in Parity /\ 1 - p \in Parity
         /\ k # 0 => FlowParityA(p, k - 1) = 1 - FlowParityA(p, k)
  BY DEF FlowParityA, Parity

LEMMA FlowWritten ==
  ASSUME NEW m, MemTypes(m), NEW q \in Parity, NEW k \in Level, NEW v
  PROVE  /\ SameImages(m, [m EXCEPT !.flow[q][k] = v])
         /\ [m EXCEPT !.flow[q][k] = v].flow[q][k] = v
         /\ [m EXCEPT !.flow[q][k] = v].flowOut = m.flowOut
  <1> DEFINE f == [m.flow EXCEPT ![q][k] = v]
             r == [m EXCEPT !.flow = f]
  <1>1. [m EXCEPT !.flow[q][k] = v] = r
    BY DEF MemTypes
  <1>2. f = [p \in Parity |-> [l \in Level |-> f[p][l]]] /\ f[q][k] = v
    BY DEF MemTypes
  <1> HIDE DEF f
  <1>3. r.flow = f /\ r.flowOut = m.flowOut /\ SameImages(m, r)
    BY SMTT(20), <1>2 DEF SameImages, MemTypes
  <1> QED
    BY <1>1, <1>2, <1>3

LEMMA FlowOutWritten ==
  ASSUME NEW m, MemTypes(m), NEW v
  PROVE  /\ SameImages(m, [m EXCEPT !.flowOut = v])
         /\ [m EXCEPT !.flowOut = v].flowOut = v
  BY DEF SameImages, MemTypes

LEMMA SameTwice ==
  ASSUME NEW m, NEW n, NEW r, SameImages(m, n), SameImages(n, r)
  PROVE  SameImages(m, r)
  BY DEF SameImages

LEMMA SearchedLevel ==
  ASSUME NEW m, MemTypes(m), NEW p \in Parity, NEW k \in Level, NEW cb
  PROVE  /\ SameImages(m, Searched(m, p, k, cb))
         /\ \A prev, cur :
              /\ LumaOf(m, k)[1 - p] = prev /\ LumaOf(m, k)[p] = cur
              /\ k # cb.levels - 1 => m.flow[FlowParityA(p, k)][k] = <<prev, cur, "scaled">>
              => Searched(m, p, k, cb).flow[FlowParityA(p, k)][k] = <<prev, cur, "searched">>
  <1> DEFINE a == FlowParityA(p, k)
             lumas == LumaOf(m, k)
             found == IF k = cb.levels - 1 THEN <<lumas[1 - p], lumas[p], "searched">>
                      ELSE IF m.flow[a][k][3] = "scaled"
                           THEN Compared(p, lumas, m.flow[a][k], "searched")
                           ELSE Nothing
  <1>1. Searched(m, p, k, cb) = [m EXCEPT !.flow[a][k] = found]
    BY DEF Searched
  <1>2. a \in Parity
    BY ParityTurns DEF Level
  <1>3. ASSUME NEW prev, NEW cur, lumas[1 - p] = prev, lumas[p] = cur,
               k # cb.levels - 1 => m.flow[a][k] = <<prev, cur, "scaled">>
        PROVE  found = <<prev, cur, "searched">>
    BY <1>3 DEF Compared
  <1> HIDE DEF a, found
  <1>4. /\ SameImages(m, [m EXCEPT !.flow[a][k] = found])
        /\ [m EXCEPT !.flow[a][k] = found].flow[a][k] = found
    BY <1>2, FlowWritten
  <1> QED
    BY <1>1, <1>3, <1>4 DEF a

LEMMA FilteredLevel ==
  ASSUME NEW m, MemTypes(m), NEW p \in Parity, NEW k \in Level
  PROVE  /\ SameImages(m, Filtered(m, p, k))
         /\ \A prev, cur : m.flow[FlowParityA(p, k)][k] = <<prev, cur, "searched">> =>
              IF k = 0 THEN Filtered(m, p, k).flowOut = <<prev, cur, "filtered">>
              ELSE Filtered(m, p, k).flow[1 - FlowParityA(p, k)][k] = <<prev, cur, "filtered">>
  <1> DEFINE a == FlowParityA(p, k)
             from == m.flow[a][k]
             out == IF from[3] = "searched" THEN <<from[1], from[2], "filtered">> ELSE Nothing
  <1>1. Filtered(m, p, k) = IF k = 0 THEN [m EXCEPT !.flowOut = out] ELSE [m EXCEPT !.flow[1 - a][k] = out]
    BY DEF Filtered
  <1>2. 1 - a \in Parity
    BY ParityTurns DEF Level
  <1>3. \A prev, cur : from = <<prev, cur, "searched">> => out = <<prev, cur, "filtered">>
    OBVIOUS
  <1> HIDE DEF a, out
  <1>4. /\ SameImages(m, [m EXCEPT !.flow[1 - a][k] = out])
        /\ [m EXCEPT !.flow[1 - a][k] = out].flow[1 - a][k] = out
    BY <1>2, FlowWritten
  <1>5. SameImages(m, [m EXCEPT !.flowOut = out]) /\ [m EXCEPT !.flowOut = out].flowOut = out
    BY FlowOutWritten
  <1> QED
    BY <1>1, <1>3, <1>4, <1>5 DEF a

LEMMA ScaledLevel ==
  ASSUME NEW m, MemTypes(m), NEW p \in Parity, NEW k \in Level
  PROVE  /\ SameImages(m, Scaled(m, p, k))
         /\ k = 0 => Scaled(m, p, k) = m
         /\ \A prev, cur :
              /\ k # 0 /\ LumaOf(m, k)[1 - p] = prev /\ LumaOf(m, k)[p] = cur
              /\ m.flow[1 - FlowParityA(p, k)][k] = <<prev, cur, "filtered">>
              => Scaled(m, p, k).flow[FlowParityA(p, k - 1)][k - 1] = <<prev, cur, "scaled">>
  <1> DEFINE b == 1 - FlowParityA(p, k)
             lumas == LumaOf(m, k)
             out == IF m.flow[b][k][3] = "filtered"
                    THEN Compared(p, lumas, m.flow[b][k], "scaled") ELSE Nothing
  <1>1. Scaled(m, p, k) = IF k = 0 THEN m ELSE [m EXCEPT !.flow[b][k - 1] = out]
    BY DEF Scaled
  <1>2. b \in Parity /\ (k # 0 => FlowParityA(p, k - 1) = b)
    BY ParityTurns DEF Level
  <1>3. k # 0 => k - 1 \in Level
    BY LevelsAssumption DEF Level
  <1> HIDE DEF b
  <1>4. ASSUME NEW prev, NEW cur, lumas[1 - p] = prev, lumas[p] = cur,
               m.flow[b][k] = <<prev, cur, "filtered">>
        PROVE  out = <<prev, cur, "scaled">>
    BY <1>4 DEF Compared
  <1> HIDE DEF out
  <1>5. k # 0 => /\ SameImages(m, [m EXCEPT !.flow[b][k - 1] = out])
                 /\ [m EXCEPT !.flow[b][k - 1] = out].flow[b][k - 1] = out
    BY <1>2, <1>3, FlowWritten
  <1>6. SameImages(m, m)
    BY DEF SameImages
  <1> QED
    BY <1>1, <1>2, <1>4, <1>5, <1>6 DEF b

\* What one level leaves to the next: the flow at the parity that one reads.
LEMMA LevelDone ==
  ASSUME NEW m, MemTypes(m), NEW p \in Parity, NEW k \in Level, NEW cb
  PROVE  /\ SameImages(m, AtLevel(m, p, k, cb))
         /\ \A prev, cur :
              /\ LumaOf(m, k)[1 - p] = prev /\ LumaOf(m, k)[p] = cur
              /\ k # cb.levels - 1 => m.flow[FlowParityA(p, k)][k] = <<prev, cur, "scaled">>
              => IF k = 0 THEN AtLevel(m, p, k, cb).flowOut = <<prev, cur, "filtered">>
                 ELSE AtLevel(m, p, k, cb).flow[FlowParityA(p, k - 1)][k - 1] = <<prev, cur, "scaled">>
  <1> DEFINE s == Searched(m, p, k, cb)
             f == Filtered(s, p, k)
             r == Scaled(f, p, k)
  <1>1. SameImages(m, s) /\ MemTypes(s)
    BY SearchedLevel DEF SameImages
  <1>2. SameImages(s, f) /\ MemTypes(f)
    BY <1>1, FilteredLevel DEF SameImages
  <1>3. SameImages(f, r)
    BY <1>2, ScaledLevel
  <1>4. SameImages(m, r)
    BY <1>1, <1>2, <1>3 DEF SameImages
  <1>5. LumaOf(s, k) = LumaOf(m, k) /\ LumaOf(f, k) = LumaOf(m, k)
    BY <1>1, <1>2 DEF SameImages, LumaOf
  <1>6. r = AtLevel(m, p, k, cb)
    BY DEF AtLevel
  <1>7. ASSUME NEW prev, NEW cur, LumaOf(m, k)[1 - p] = prev, LumaOf(m, k)[p] = cur,
               k # cb.levels - 1 => m.flow[FlowParityA(p, k)][k] = <<prev, cur, "scaled">>
        PROVE  IF k = 0 THEN r.flowOut = <<prev, cur, "filtered">>
               ELSE r.flow[FlowParityA(p, k - 1)][k - 1] = <<prev, cur, "scaled">>
    <2>1. s.flow[FlowParityA(p, k)][k] = <<prev, cur, "searched">>
      BY <1>7, SearchedLevel
    <2> HIDE DEF s
    <2>2. IF k = 0 THEN f.flowOut = <<prev, cur, "filtered">>
          ELSE f.flow[1 - FlowParityA(p, k)][k] = <<prev, cur, "filtered">>
      BY <1>1, <2>1, FilteredLevel
    <2> HIDE DEF f
    <2> QED
      BY <1>2, <1>5, <1>7, <2>2, ScaledLevel
  <1> HIDE DEF r
  <1> QED
    BY <1>4, <1>6, <1>7

-----------------------------------------------------------------------------
(* The whole walk, from the coarsest level to the finest. *)

LEMMA LeastNumber ==
  ASSUME NEW F, F \subseteq Nat, F # {}
  PROVE  \E n \in F : \A i \in F : n <= i
  <1>1. PICK n \in F : \A i \in F : ~(<<i, n>> \in OpToRel(<, Nat))
    BY WFMin, NatLessThanWellFounded
  <1>2. \A i \in F : ~(i < n)
    BY <1>1 DEF OpToRel
  <1> QED
    BY <1>2

\* The walk from level `levels` down to level `low`.
WalkTo(w, base, p, low, levels, cb) ==
    w = [k \in low .. levels |-> IF k = levels THEN base ELSE AtLevel(w[k + 1], p, k, cb)]

\* There is such a walk: were there levels it cannot reach, it could be taken one
\* further down from the one above the highest of them.
LEMMA WalkExists ==
  ASSUME NEW base, NEW p, NEW levels \in Nat, NEW cb
  PROVE  \E w : WalkTo(w, base, p, 0, levels, cb)
  <1> DEFINE Reached(n) == \E w : WalkTo(w, base, p, levels - n, levels, cb)
             Missing == {n \in 0 .. levels : ~Reached(n)}
  <1>1. Reached(0)
    <2> DEFINE w == [k \in levels .. levels |-> base]
    <2>1. w = [k \in levels .. levels |-> IF k = levels THEN base ELSE AtLevel(w[k + 1], p, k, cb)]
      OBVIOUS
    <2>2. levels - 0 = levels
      OBVIOUS
    <2> HIDE DEF w
    <2> QED
      BY <2>1, <2>2 DEF WalkTo
  <1>2. ASSUME NEW n \in 0 .. levels, n # levels, Reached(n) PROVE Reached(n + 1)
    <2>1. PICK w : WalkTo(w, base, p, levels - n, levels, cb)
      BY <1>2
    <2> DEFINE low == levels - (n + 1)
               v == [k \in low .. levels |-> IF k = low THEN AtLevel(w[k + 1], p, k, cb) ELSE w[k]]
    <2>2. low \in Nat /\ low + 1 = levels - n /\ low # levels
      BY <1>2
    <2>3. \A k \in low + 1 .. levels : w[k] = IF k = levels THEN base ELSE AtLevel(w[k + 1], p, k, cb)
      BY <2>1, <2>2 DEF WalkTo
    <2>4. \A k \in low .. levels : k # levels => k + 1 \in low .. levels /\ v[k + 1] = w[k + 1]
      BY <2>2
    <2>5. ASSUME NEW k \in low .. levels
          PROVE  v[k] = IF k = levels THEN base ELSE AtLevel(v[k + 1], p, k, cb)
      <3>1. CASE k = low
        <4>1. v[k] = AtLevel(w[k + 1], p, k, cb)
          BY <3>1
        <4> QED
          BY <4>1, <2>2, <2>4, <3>1
      <3>2. CASE k # low
        <4>1. k \in low + 1 .. levels /\ v[k] = w[k]
          BY <2>2, <3>2
        <4> HIDE DEF v
        <4> QED
          BY <4>1, <2>3, <2>4
      <3> QED
        BY <3>1, <3>2
    <2>6. v = [k \in low .. levels |-> v[k]]
      OBVIOUS
    <2> HIDE DEF v, low
    <2>7. WalkTo(v, base, p, low, levels, cb)
      BY <2>5, <2>6 DEF WalkTo
    <2> QED
      BY <2>7 DEF low
  <1>3. \A n \in 0 .. levels : Reached(n)
    <2> SUFFICES ASSUME Missing # {} PROVE FALSE
      OBVIOUS
    <2>1. PICK n \in Missing : \A i \in Missing : n <= i
      <3>1. Missing \subseteq Nat
        OBVIOUS
      <3> HIDE DEF Missing
      <3> QED
        BY <3>1, LeastNumber
    <2>2. n # 0
      BY <1>1
    <2>3. n - 1 \in 0 .. levels /\ n - 1 # levels /\ n - 1 \notin Missing /\ (n - 1) + 1 = n
      BY <2>1, <2>2
    <2>4. Reached(n - 1)
      BY <2>3
    <2> HIDE DEF Reached
    <2>5. Reached((n - 1) + 1)
      BY <1>2, <2>3, <2>4
    <2> QED
      BY <2>3, <2>5
  <1>4. levels - levels = 0 /\ levels \in 0 .. levels
    OBVIOUS
  <1> QED
    BY <1>3, <1>4

Whole(base, p, levels, cb) == CHOOSE w : WalkTo(w, base, p, 0, levels, cb)

LEMMA WholeWalk ==
  ASSUME NEW base, NEW p, NEW levels \in Nat, NEW cb
  PROVE  \A k \in 0 .. levels :
             Whole(base, p, levels, cb)[k] =
                 IF k = levels THEN base ELSE AtLevel(Whole(base, p, levels, cb)[k + 1], p, k, cb)
  <1> DEFINE w == Whole(base, p, levels, cb)
  <1>1. WalkTo(w, base, p, 0, levels, cb)
    BY WalkExists DEF Whole
  <1> HIDE DEF w
  <1>2. \A k \in 0 .. levels : w[k] = IF k = levels THEN base ELSE AtLevel(w[k + 1], p, k, cb)
    BY <1>1 DEF WalkTo
  <1> QED
    BY <1>2 DEF w

\* What the images are before the walk: this frame's luma and its pyramid.
Based(m, p) ==
    LET luma == IF kind.ingest THEN m ELSE [m EXCEPT !.luma[p] = m.colour[p]]
    IN  [luma EXCEPT !.pyramid[p] = luma.luma[p]]

LEMMA FixedPartWalks ==
  ASSUME NEW m, NEW p, NEW levels, NEW companion, NEW cb
  PROVE  FixedPart(m, p, levels, companion, cb) =
             IF companion THEN Whole(Based(m, p), p, levels, cb)[0] ELSE Based(m, p)
  BY DEF FixedPart, Whole, WalkTo, AtLevel, Based

\* The walk leaves every other image alone, and where the two frames it compares are
\* at their places it leaves the flow between them, whatever the flow was before.
LEMMA WalkDone ==
  ASSUME NEW base, MemTypes(base), NEW p \in Parity, NEW levels \in 1 .. Top, NEW cb
  PROVE  /\ SameImages(base, Whole(base, p, levels, cb)[0])
         /\ \A prev, cur :
              /\ cb.levels = levels
              /\ base.luma[1 - p] = prev /\ base.luma[p] = cur
              /\ base.pyramid[1 - p] = prev /\ base.pyramid[p] = cur
              => Whole(base, p, levels, cb)[0].flowOut = <<prev, cur, "filtered">>
  <1> DEFINE w == Whole(base, p, levels, cb)
             Compares(prev, cur) ==
                 /\ cb.levels = levels
                 /\ base.luma[1 - p] = prev /\ base.luma[p] = cur
                 /\ base.pyramid[1 - p] = prev /\ base.pyramid[p] = cur
             Good(k) ==
                 /\ SameImages(base, w[k])
                 /\ \A prev, cur : Compares(prev, cur) =>
                      /\ k = 0 => w[k].flowOut = <<prev, cur, "filtered">>
                      /\ k \in 1 .. levels - 1 =>
                           w[k].flow[FlowParityA(p, k - 1)][k - 1] = <<prev, cur, "scaled">>
             Bad == {n \in 0 .. levels : ~Good(levels - n)}
  <1>1. levels \in Nat /\ levels # 0
    OBVIOUS
  <1>2. \A k \in 0 .. levels : w[k] = IF k = levels THEN base ELSE AtLevel(w[k + 1], p, k, cb)
    BY <1>1, WholeWalk
  <1> HIDE DEF w, Compares
  <1>3. Good(levels)
    BY <1>1, <1>2 DEF SameImages
  <1>4. ASSUME NEW k \in 0 .. levels - 1, Good(k + 1) PROVE Good(k)
    <2>1. k \in Level /\ k \in 0 .. levels /\ k # levels
      BY LevelsAssumption DEF Level
    <2>2. w[k] = AtLevel(w[k + 1], p, k, cb)
      BY <1>2, <2>1
    <2>3. SameImages(base, w[k + 1]) /\ MemTypes(w[k + 1])
      BY <1>4 DEF SameImages
    <2>4. SameImages(w[k + 1], w[k])
      BY <2>1, <2>2, <2>3, LevelDone
    <2>5. SameImages(base, w[k])
      BY <2>3, <2>4, SameTwice
    <2>6. ASSUME NEW prev, NEW cur, Compares(prev, cur)
          PROVE  IF k = 0 THEN w[k].flowOut = <<prev, cur, "filtered">>
                 ELSE w[k].flow[FlowParityA(p, k - 1)][k - 1] = <<prev, cur, "scaled">>
      <3>1. LumaOf(w[k + 1], k)[1 - p] = prev /\ LumaOf(w[k + 1], k)[p] = cur
        BY <2>3, <2>6 DEF LumaOf, SameImages, Compares
      <3>2. ASSUME k # cb.levels - 1
            PROVE  w[k + 1].flow[FlowParityA(p, k)][k] = <<prev, cur, "scaled">>
        <4>1. k + 1 \in 1 .. levels - 1 /\ (k + 1) - 1 = k
          BY <2>6, <3>2 DEF Compares
        <4> QED
          BY <1>4, <2>6, <4>1
      <3> QED
        BY <2>1, <2>2, <2>3, <3>1, <3>2, LevelDone
    <2> QED
      BY <2>5, <2>6
  <1>5. Bad = {}
    <2> SUFFICES ASSUME Bad # {} PROVE FALSE
      OBVIOUS
    <2> HIDE DEF Good
    <2>1. PICK n \in Bad : \A i \in Bad : n <= i
      <3>1. Bad \subseteq Nat
        OBVIOUS
      <3> HIDE DEF Bad
      <3> QED
        BY <3>1, LeastNumber
    <2>2. n # 0
      BY <1>1, <1>3, <2>1
    <2>3. n - 1 \in 0 .. levels /\ n - 1 \notin Bad /\ levels - (n - 1) = (levels - n) + 1
          /\ levels - n \in 0 .. levels - 1
      BY <1>1, <2>1, <2>2
    <2>4. Good((levels - n) + 1)
      BY <2>3
    <2> QED
      BY <1>4, <2>1, <2>3, <2>4
  <1>6. Good(0)
    <2>1. levels \in 0 .. levels /\ levels - levels = 0
      BY <1>1
    <2> HIDE DEF Good
    <2> QED
      BY <1>5, <2>1
  <1> QED
    BY <1>6 DEF w, Compares

LEMMA WalkKeeps ==
  ASSUME NEW base, MemTypes(base), NEW p \in Parity, NEW levels \in 1 .. Top, NEW cb
  PROVE  SameImages(base, Whole(base, p, levels, cb)[0])
  BY WalkDone

LEMMA WalkFinds ==
  ASSUME NEW base, MemTypes(base), NEW p \in Parity, NEW levels \in 1 .. Top, NEW cb,
         NEW prev, NEW cur, cb.levels = levels,
         base.luma[1 - p] = prev, base.luma[p] = cur,
         base.pyramid[1 - p] = prev, base.pyramid[p] = cur
  PROVE  Whole(base, p, levels, cb)[0].flowOut = <<prev, cur, "filtered">>
  BY WalkDone

-----------------------------------------------------------------------------
(* A batch that runs. *)

LEMMA PairWritten ==
  ASSUME NEW f \in Pairs, NEW p \in Parity, NEW v \in Nat
  PROVE  /\ [f EXCEPT ![p] = v] \in Pairs
         /\ [f EXCEPT ![p] = v][p] = v /\ [f EXCEPT ![p] = v][1 - p] = f[1 - p]
         /\ 1 - p \in Parity /\ 1 - p # p
  BY DEF Pairs, Parity

\* The images m with these in the places of its own.
With(m, general, colour, luma, pyramid) ==
    [general |-> general, layout |-> m.layout, history |-> m.history,
     colour |-> colour, luma |-> luma, pyramid |-> pyramid, flow |-> m.flow, flowOut |-> m.flowOut]

LEMMA WithImages ==
  ASSUME NEW m, MemTypes(m), NEW general,
         NEW colour \in Pairs, NEW luma \in Pairs, NEW pyramid \in Pairs
  PROVE  LET r == With(m, general, colour, luma, pyramid)
         IN  /\ MemTypes(r) /\ r.general = general
             /\ r.colour = colour /\ r.luma = luma /\ r.pyramid = pyramid
  <1> DEFINE r == With(m, general, colour, luma, pyramid)
  <1>1. /\ r.general = general /\ r.colour = colour /\ r.luma = luma /\ r.pyramid = pyramid
        /\ r.layout = m.layout /\ r.history = m.history
        /\ r.flow = m.flow /\ r.flowOut = m.flowOut
    BY DEF With
  <1>2. r = [general |-> r.general, layout |-> r.layout, history |-> r.history,
             colour |-> r.colour, luma |-> r.luma, pyramid |-> r.pyramid,
             flow |-> r.flow, flowOut |-> r.flowOut]
    BY <1>1 DEF With
  <1> HIDE DEF r
  <1>3. MemTypes(r)
    BY <1>1, <1>2 DEF MemTypes
  <1> QED
    BY <1>1, <1>3 DEF r

LEMMA InitialisedImages ==
  ASSUME NEW m, MemTypes(m), NEW b \in Batches
  PROVE  LET r == Initialised(m, b)
         IN  /\ MemTypes(r) /\ r.colour = m.colour
             /\ r.general = IF b.init THEN TRUE ELSE m.general
             /\ ~b.init => r = m
  <1> DEFINE Zero == [p \in Parity |-> 0]
  <1>1. Zero \in Pairs
    BY DEF Pairs
  <1>2. CASE b.init
    <2> DEFINE r == With(m, TRUE, m.colour, Zero, Zero)
    <2>1. Initialised(m, b) = r
      BY <1>2 DEF Initialised, With, MemTypes
    <2>2. m.colour \in Pairs
      BY DEF MemTypes
    <2> HIDE DEF Zero
    <2>3. ASSUME NEW g
          PROVE  /\ MemTypes(With(m, g, m.colour, Zero, Zero))
                 /\ With(m, g, m.colour, Zero, Zero).colour = m.colour
                 /\ With(m, g, m.colour, Zero, Zero).general = g
      BY <1>1, <2>2, WithImages
    <2>4. MemTypes(r) /\ r.colour = m.colour /\ r.general = TRUE
      BY <2>3
    <2> HIDE DEF r
    <2>5. r.general = IF b.init THEN TRUE ELSE m.general
      BY <1>2, <2>4
    <2> QED
      BY <1>2, <2>1, <2>4, <2>5
  <1>3. CASE ~b.init
    <2>1. Initialised(m, b) = m
      BY <1>3 DEF Initialised
    <2> QED
      BY <1>3, <2>1
  <1> QED
    BY <1>2, <1>3

LEMMA IngestedImages ==
  ASSUME NEW m, MemTypes(m), NEW b \in Batches
  PROVE  LET r == Ingested(m, b)
             p == b.parity
         IN  /\ MemTypes(r) /\ r.general = m.general /\ r.pyramid = m.pyramid
             /\ r.colour[p] = b.frame /\ r.colour[1 - p] = m.colour[1 - p]
             /\ r.luma[1 - p] = m.luma[1 - p]
             /\ kind.ingest => r.luma[p] = b.frame
  <1> DEFINE p == b.parity
             colour == [m.colour EXCEPT ![p] = b.frame]
             v == IF kind.ingest THEN b.frame ELSE m.luma[p]
             luma == [m.luma EXCEPT ![p] = v]
             c == [m EXCEPT !.colour = colour]
             r == With(m, m.general, colour, luma, m.pyramid)
  <1>1. p \in Parity /\ b.frame \in Nat
    BY DEF Batches
  <1>2. m.colour \in Pairs /\ m.luma \in Pairs /\ m.pyramid \in Pairs /\ m.luma[p] \in Nat
    BY <1>1 DEF MemTypes, Pairs
  <1>3. Ingested(m, b) = r
    <2>1. c.luma = m.luma /\ c.luma[p] = m.luma[p]
      BY DEF MemTypes
    <2>2. Ingested(m, b) = [c EXCEPT !.luma = [c.luma EXCEPT ![p] = v]]
      BY DEF Ingested
    <2>3. Ingested(m, b) = [c EXCEPT !.luma = luma]
      BY <2>1, <2>2
    <2> HIDE DEF colour, luma
    <2> QED
      BY <2>3 DEF With, MemTypes
  <1>4. colour \in Pairs /\ colour[p] = b.frame /\ colour[1 - p] = m.colour[1 - p]
    BY <1>1, <1>2, PairWritten
  <1>5. luma \in Pairs /\ luma[1 - p] = m.luma[1 - p] /\ (kind.ingest => luma[p] = b.frame)
    <2>1. v \in Nat /\ (kind.ingest => v = b.frame)
      BY <1>1, <1>2
    <2> HIDE DEF v
    <2> QED
      BY <1>1, <1>2, <2>1, PairWritten
  <1> HIDE DEF colour, luma
  <1>6. MemTypes(r) /\ r.general = m.general /\ r.pyramid = m.pyramid /\ r.colour = colour /\ r.luma = luma
    <2> DEFINE general == m.general
               pyramid == m.pyramid
    <2>1. pyramid \in Pairs
      BY <1>2
    <2> HIDE DEF general, pyramid
    <2>2. LET w == With(m, general, colour, luma, pyramid)
          IN  /\ MemTypes(w) /\ w.general = general
              /\ w.colour = colour /\ w.luma = luma /\ w.pyramid = pyramid
      BY <1>4, <1>5, <2>1, WithImages
    <2> QED
      BY <2>2 DEF general, pyramid
  <1> QED
    BY <1>3, <1>4, <1>5, <1>6

LEMMA BasedImages ==
  ASSUME NEW m, MemTypes(m), NEW p \in Parity
  PROVE  LET r == Based(m, p)
         IN  /\ MemTypes(r) /\ r.general = m.general /\ r.colour = m.colour
             /\ r.luma[1 - p] = m.luma[1 - p] /\ r.pyramid[1 - p] = m.pyramid[1 - p]
             /\ r.luma[p] = IF kind.ingest THEN m.luma[p] ELSE m.colour[p]
             /\ r.pyramid[p] = r.luma[p]
  <1> DEFINE luma == IF kind.ingest THEN m.luma ELSE [m.luma EXCEPT ![p] = m.colour[p]]
             pyramid == [m.pyramid EXCEPT ![p] = luma[p]]
             r == With(m, m.general, m.colour, luma, pyramid)
  <1>1. m.colour \in Pairs /\ m.luma \in Pairs /\ m.pyramid \in Pairs
        /\ m.colour[p] \in Nat /\ m.luma[p] \in Nat
    BY DEF MemTypes, Pairs
  <1>2. /\ luma \in Pairs /\ luma[1 - p] = m.luma[1 - p]
        /\ luma[p] = IF kind.ingest THEN m.luma[p] ELSE m.colour[p]
    BY <1>1, PairWritten
  <1>3. Based(m, p) = r
    BY DEF Based, With, MemTypes
  <1>4. luma[p] \in Nat
    BY <1>1, <1>2
  <1> HIDE DEF luma
  <1>5. pyramid \in Pairs /\ pyramid[p] = luma[p] /\ pyramid[1 - p] = m.pyramid[1 - p]
    BY <1>1, <1>4, PairWritten
  <1> HIDE DEF pyramid
  <1>6. MemTypes(r) /\ r.general = m.general /\ r.colour = m.colour /\ r.luma = luma /\ r.pyramid = pyramid
    <2> DEFINE general == m.general
               colour == m.colour
    <2>1. colour \in Pairs
      BY <1>1
    <2> HIDE DEF general, colour
    <2>2. LET w == With(m, general, colour, luma, pyramid)
          IN  /\ MemTypes(w) /\ w.general = general
              /\ w.colour = colour /\ w.luma = luma /\ w.pyramid = pyramid
      BY <1>2, <1>5, <2>1, WithImages
    <2> QED
      BY <2>2 DEF general, colour
  <1> QED
    BY <1>2, <1>3, <1>5, <1>6

\* What a batch leaves, when what it reads of the host's side is its own.
LEMMA RunFlowLeaves ==
  ASSUME MemTypes(mem), NEW b \in Batches, constants[b.slot].levels = b.levels,
         b.replayed => recorded[b.slot][b.parity][b.companion] = b.levels
  PROVE  LET p == b.parity
             r == RunFlow(b)
         IN  /\ MemTypes(r) /\ r.general = IF b.init THEN TRUE ELSE mem.general
             /\ r.colour[p] = b.frame /\ r.luma[p] = b.frame /\ r.pyramid[p] = b.frame
             /\ r.colour[1 - p] = mem.colour[1 - p]
             /\ b.companion /\ ~b.init =>
                  \A prev : mem.luma[1 - p] = prev /\ mem.pyramid[1 - p] = prev
                              => r.flowOut = <<prev, b.frame, "filtered">>
  <1> DEFINE p == b.parity
             cb == constants[b.slot]
             ini == Initialised(mem, b)
             ing == Ingested(ini, b)
             base == Based(ing, p)
             w == Whole(base, p, b.levels, cb)[0]
  <1>1. p \in Parity /\ b.levels \in 1 .. Top /\ b.companion \in BOOLEAN /\ b.init \in BOOLEAN
    BY LevelNumbers DEF Batches
  <1>2. RunFlow(b) = IF b.companion THEN w ELSE base
    <2>1. RunFlow(b) = FixedPart(ing, p, b.levels, b.companion, cb)
      BY DEF RunFlow
    <2> HIDE DEF ing
    <2> QED
      BY <2>1, FixedPartWalks
  <1>3. /\ MemTypes(ini) /\ ini.colour = mem.colour /\ ini.general = IF b.init THEN TRUE ELSE mem.general
        /\ ~b.init => ini = mem
    BY InitialisedImages
  <1> HIDE DEF ini
  <1>4. /\ MemTypes(ing) /\ ing.general = ini.general /\ ing.pyramid = ini.pyramid
        /\ ing.colour[p] = b.frame /\ ing.colour[1 - p] = ini.colour[1 - p]
        /\ ing.luma[1 - p] = ini.luma[1 - p]
        /\ kind.ingest => ing.luma[p] = b.frame
    BY <1>3, IngestedImages
  <1> HIDE DEF ing
  <1>5. /\ MemTypes(base) /\ base.general = ing.general /\ base.colour = ing.colour
        /\ base.luma[1 - p] = ing.luma[1 - p] /\ base.pyramid[1 - p] = ing.pyramid[1 - p]
        /\ base.luma[p] = b.frame /\ base.pyramid[p] = b.frame
    BY <1>1, <1>4, BasedImages
  <1> HIDE DEF base
  <1>6. /\ SameImages(base, w)
        /\ \A prev : base.luma[1 - p] = prev /\ base.pyramid[1 - p] = prev
                       => w.flowOut = <<prev, b.frame, "filtered">>
    <2> DEFINE lv == b.levels
    <2>1. cb.levels = lv /\ lv \in 1 .. Top
      BY <1>1
    <2> HIDE DEF p, cb, lv
    <2>2. SameImages(base, Whole(base, p, lv, cb)[0])
      BY <1>1, <1>5, <2>1, WalkKeeps
    <2>3. ASSUME NEW prev, base.luma[1 - p] = prev, base.pyramid[1 - p] = prev
          PROVE  Whole(base, p, lv, cb)[0].flowOut = <<prev, b.frame, "filtered">>
      BY <1>1, <1>5, <2>1, <2>3, WalkFinds
    <2> QED
      BY <2>2, <2>3 DEF lv
  <1> HIDE DEF w
  <1>7. /\ MemTypes(w) /\ w.general = base.general /\ w.colour = base.colour
        /\ w.luma = base.luma /\ w.pyramid = base.pyramid
    BY <1>6 DEF SameImages
  <1> DEFINE r == RunFlow(b)
  <1>8. /\ MemTypes(r) /\ r.general = base.general /\ r.colour = base.colour
        /\ r.luma = base.luma /\ r.pyramid = base.pyramid
    BY <1>1, <1>2, <1>5, <1>7
  <1>9. ASSUME b.companion, ~b.init, NEW prev, mem.luma[1 - p] = prev, mem.pyramid[1 - p] = prev
        PROVE  r.flowOut = <<prev, b.frame, "filtered">>
    BY <1>2, <1>3, <1>4, <1>5, <1>6, <1>9
  <1> HIDE DEF r
  <1>10. /\ r.general = IF b.init THEN TRUE ELSE mem.general
         /\ r.colour[p] = b.frame /\ r.luma[p] = b.frame /\ r.pyramid[p] = b.frame
         /\ r.colour[1 - p] = mem.colour[1 - p]
    BY <1>3, <1>4, <1>5, <1>8
  <1> QED
    BY <1>8, <1>9, <1>10 DEF r

-----------------------------------------------------------------------------
(* What a submitted batch reads is its own, whatever fails. *)

HostTypes ==
    /\ host \in [index : Nat, ready : BOOLEAN, history : BOOLEAN, layout : {"undefined", "dst"}]
    /\ constants \in [Slot -> [levels : Nat, frame : Nat]]
    /\ recorded \in [Slot -> [Parity -> [BOOLEAN -> Nat]]]
    /\ latest \in Nat
    /\ gpu \in Seq(Batches)

LEMMA HeadAndTail ==
  ASSUME NEW S, NEW q \in Seq(S), q # <<>>
  PROVE  /\ Head(q) \in S /\ Head(q) = q[1] /\ Tail(q) \in Seq(S) /\ Len(Tail(q)) = Len(q) - 1
         /\ Len(q) \in Nat \ {0}
         /\ \A n \in 1 .. Len(Tail(q)) : Tail(q)[n] = q[n + 1] /\ n + 1 \in 1 .. Len(q)
  OBVIOUS

LEMMA Appended ==
  ASSUME NEW S, NEW q \in Seq(S), NEW e \in S
  PROVE  /\ Append(q, e) \in Seq(S) /\ Len(Append(q, e)) = Len(q) + 1 /\ Len(q) \in Nat
         /\ \A n \in 1 .. Len(q) : Append(q, e)[n] = q[n] /\ q[n] \in S
         /\ Append(q, e)[Len(q) + 1] = e /\ Append(q, e) # <<>>
  OBVIOUS

LEMMA WrittenAt ==
  ASSUME NEW S, NEW T, NEW f \in [S -> T], NEW s \in S, NEW v \in T
  PROVE  /\ [f EXCEPT ![s] = v] \in [S -> T] /\ [f EXCEPT ![s] = v][s] = v
         /\ \A t \in S : t # s => [f EXCEPT ![s] = v][t] = f[t]
  OBVIOUS

\* Recording touches the constants and the secondaries of its own slot only, and
\* leaves there what it was asked for.
Wrote(n, s, levels, companion, replayed) ==
    /\ constants' \in [Slot -> [levels : Nat, frame : Nat]]
    /\ recorded' \in [Slot -> [Parity -> [BOOLEAN -> Nat]]]
    /\ \A t \in Slot : t # s => constants'[t] = constants[t] /\ recorded'[t] = recorded[t]
    /\ kind.flow => /\ constants'[s] = [levels |-> levels, frame |-> n]
                    /\ replayed => recorded'[s][host.index % 2][companion] = levels

LEMMA RecordWrites ==
  ASSUME HostTypes, NEW n \in Nat \ {0}, NEW s \in Slot, NEW levels \in {Few, Top},
         NEW companion \in BOOLEAN, NEW replayed \in BOOLEAN,
         Record(n, s, levels, companion, replayed)
  PROVE  Wrote(n, s, levels, companion, replayed)
  <1> DEFINE p == host.index % 2
             was == recorded[s][p][companion]
  <1>1. levels \in Nat /\ p \in Parity
    BY SMTT(20), LevelNumbers DEF HostTypes, Parity
  <1>2. CASE ~kind.flow
    BY <1>2 DEF Record, HostTypes, Wrote
  <1>3. CASE kind.flow
    <2> DEFINE row == [levels |-> levels, frame |-> n]
               v == IF replayed THEN levels ELSE 0
               line == [recorded[s][p] EXCEPT ![companion] = v]
               page == [recorded[s] EXCEPT ![p] = line]
    <2>1. /\ constants' = [constants EXCEPT ![s] = row]
          /\ kind.replay /\ ~Stale(levels, was) => replayed
          /\ replayed => kind.replay
          /\ recorded' = IF kind.replay /\ Stale(levels, was)
                         THEN [recorded EXCEPT ![s] = page] ELSE recorded
      BY <1>3 DEF Record
    <2>2. row \in [levels : Nat, frame : Nat] /\ v \in Nat
      BY <1>1
    <2>3. /\ recorded \in [Slot -> [Parity -> [BOOLEAN -> Nat]]]
          /\ recorded[s] \in [Parity -> [BOOLEAN -> Nat]] /\ recorded[s][p] \in [BOOLEAN -> Nat]
      BY <1>1 DEF HostTypes
    <2>4. line \in [BOOLEAN -> Nat] /\ line[companion] = v
      BY <2>2, <2>3, WrittenAt
    <2>5. page \in [Parity -> [BOOLEAN -> Nat]] /\ page[p] = line
      <3> HIDE DEF line, p
      <3> QED
        BY <1>1, <2>3, <2>4, WrittenAt
    <2>6. LET r == [recorded EXCEPT ![s] = page]
          IN  /\ r \in [Slot -> [Parity -> [BOOLEAN -> Nat]]] /\ r[s] = page
              /\ \A t \in Slot : t # s => r[t] = recorded[t]
      <3> HIDE DEF page
      <3> QED
        BY <2>3, <2>5, WrittenAt
    <2>7. /\ constants' \in [Slot -> [levels : Nat, frame : Nat]] /\ constants'[s] = row
          /\ \A t \in Slot : t # s => constants'[t] = constants[t]
      <3>1. constants \in [Slot -> [levels : Nat, frame : Nat]]
        BY DEF HostTypes
      <3> HIDE DEF row
      <3> QED
        BY <2>1, <2>2, <3>1, WrittenAt
    <2>8. ASSUME replayed PROVE recorded'[s][p][companion] = levels
      <3>1. CASE Stale(levels, was)
        <4>1. recorded' = [recorded EXCEPT ![s] = page] /\ v = levels
          BY <2>1, <2>8, <3>1
        <4> HIDE DEF page, line
        <4> QED
          BY <2>4, <2>5, <2>6, <4>1
      <3>2. CASE ~Stale(levels, was)
        BY <2>1, <3>2 DEF Stale
      <3> QED
        BY <3>1, <3>2
    <2> HIDE DEF page, p, was
    <2>9. /\ recorded' \in [Slot -> [Parity -> [BOOLEAN -> Nat]]]
          /\ \A t \in Slot : t # s => recorded'[t] = recorded[t]
      BY <2>1, <2>3, <2>6
    <2> QED
      BY <2>7, <2>8, <2>9 DEF p, Wrote
  <1> QED
    BY <1>2, <1>3

LEMMA RecordedHost ==
  ASSUME HostTypes
  PROVE  /\ Recorded \in [index : Nat, ready : BOOLEAN, history : BOOLEAN, layout : {"undefined", "dst"}]
         /\ Recorded.history = host.history
         /\ kind.flow => Recorded.index = host.index + 1 /\ Recorded.ready = TRUE
         /\ ~kind.flow => Recorded.layout = "dst"
  <1>1. /\ host.index + 1 \in Nat
        /\ host = [index |-> host.index, ready |-> host.ready, history |-> host.history,
                   layout |-> host.layout]
        /\ host.index \in Nat /\ host.ready \in BOOLEAN /\ host.history \in BOOLEAN
        /\ host.layout \in {"undefined", "dst"}
    BY DEF HostTypes
  <1>2. CASE kind.flow
    <2>1. Recorded = [index |-> host.index + 1, ready |-> TRUE, history |-> host.history,
                      layout |-> host.layout]
      BY <1>1, <1>2 DEF Recorded
    <2> QED
      BY <1>1, <1>2, <2>1
  <1>3. CASE ~kind.flow
    <2>1. Recorded = [index |-> host.index, ready |-> host.ready, history |-> host.history,
                      layout |-> "dst"]
      BY <1>1, <1>3 DEF Recorded
    <2> QED
      BY <1>1, <1>3, <2>1
  <1> QED
    BY <1>2, <1>3

LEMMA NewBatch ==
  ASSUME HostTypes, NEW n \in Nat \ {0}, NEW s \in Slot, NEW levels \in {Few, Top},
         NEW companion \in BOOLEAN, NEW replayed \in BOOLEAN
  PROVE  Batch(n, s, levels, companion, replayed) \in Batches
  <1>1. host.index % 2 \in Parity /\ host.layout \in {"undefined", "dst"} /\ latest \in Nat
    BY DEF HostTypes, Parity
  <1> QED
    BY <1>1 DEF Batch, Batches

\* What a batch in flight reads was left alone by a recording into another slot.
LEMMA OthersKeepTheirs ==
  ASSUME HostTypes, ReadsItsOwn, kind' = kind, NEW s \in Slot, SlotFree(s),
         \A t \in Slot : t # s => constants'[t] = constants[t] /\ recorded'[t] = recorded[t]
  PROVE  \A i \in 1 .. Len(gpu) :
             LET b == gpu[i]
             IN  kind'.flow => /\ constants'[b.slot] = [levels |-> b.levels, frame |-> b.frame]
                               /\ b.replayed => recorded'[b.slot][b.parity][b.companion] = b.levels
  <1> SUFFICES ASSUME NEW i \in 1 .. Len(gpu), kind.flow
               PROVE  LET b == gpu[i]
                      IN  /\ constants'[b.slot] = [levels |-> b.levels, frame |-> b.frame]
                          /\ b.replayed => recorded'[b.slot][b.parity][b.companion] = b.levels
    OBVIOUS
  <1>1. gpu[i] \in Batches /\ gpu[i].slot # s
    BY DEF HostTypes, SlotFree
  <1>2. gpu[i].slot \in Slot
    BY <1>1 DEF Batches
  <1>3. /\ constants'[gpu[i].slot] = constants[gpu[i].slot]
        /\ recorded'[gpu[i].slot] = recorded[gpu[i].slot]
    BY <1>1, <1>2
  <1> QED
    BY <1>3 DEF ReadsItsOwn

LEMMA GeneratedReads ==
  ASSUME HostTypes, ReadsItsOwn, kind' = kind, NEW n \in Nat \ {0}, NEW s \in Slot,
         NEW levels \in {Few, Top}, NEW companion \in BOOLEAN, NEW replayed \in BOOLEAN,
         Generated(n, s, levels, companion, replayed)
  PROVE  HostTypes' /\ ReadsItsOwn'
  <1> DEFINE b == Batch(n, s, levels, companion, replayed)
  <1>1. /\ SlotFree(s) /\ Record(n, s, levels, companion, replayed)
        /\ host' = [Recorded EXCEPT !.history = TRUE] /\ gpu' = Append(gpu, b) /\ latest' = n
    BY DEF Generated
  <1>2. b \in Batches /\ gpu \in Seq(Batches)
    BY NewBatch DEF HostTypes
  <1>3. /\ b.slot = s /\ b.parity = host.index % 2 /\ b.levels = levels /\ b.frame = n
        /\ b.companion = companion /\ b.replayed = replayed
    BY DEF Batch
  <1> HIDE DEF b
  <1>4. /\ gpu' \in Seq(Batches) /\ Len(gpu') = Len(gpu) + 1 /\ Len(gpu) \in Nat
        /\ \A i \in 1 .. Len(gpu) : gpu'[i] = gpu[i]
        /\ gpu'[Len(gpu) + 1] = b
    BY <1>1, <1>2, Appended
  <1>5. HostTypes'
    <2>1. Wrote(n, s, levels, companion, replayed)
      BY <1>1, RecordWrites
    <2>2. host' \in [index : Nat, ready : BOOLEAN, history : BOOLEAN, layout : {"undefined", "dst"}]
      BY <1>1, RecordedHost
    <2> QED
      BY <1>1, <1>4, <2>1, <2>2 DEF HostTypes, Wrote
  <1>6. /\ \A t \in Slot : t # s => constants'[t] = constants[t] /\ recorded'[t] = recorded[t]
        /\ kind.flow => /\ constants'[s] = [levels |-> levels, frame |-> n]
                        /\ replayed => recorded'[s][host.index % 2][companion] = levels
    <2>1. Wrote(n, s, levels, companion, replayed)
      BY <1>1, RecordWrites
    <2> QED
      BY <2>1 DEF Wrote
  <1>7. \A i \in 1 .. Len(gpu) :
            LET c == gpu[i]
            IN  kind'.flow => /\ constants'[c.slot] = [levels |-> c.levels, frame |-> c.frame]
                              /\ c.replayed => recorded'[c.slot][c.parity][c.companion] = c.levels
    BY <1>1, <1>6, OthersKeepTheirs
  <1>8. ReadsItsOwn'
    <2> SUFFICES ASSUME NEW i \in 1 .. Len(gpu'), kind.flow
                 PROVE  /\ constants'[gpu'[i].slot] = [levels |-> gpu'[i].levels, frame |-> gpu'[i].frame]
                        /\ gpu'[i].replayed =>
                             recorded'[gpu'[i].slot][gpu'[i].parity][gpu'[i].companion] = gpu'[i].levels
      BY DEF ReadsItsOwn
    <2>1. CASE i \in 1 .. Len(gpu)
      BY <1>4, <1>7, <2>1
    <2>2. CASE i = Len(gpu) + 1
      <3>1. gpu'[i] = b
        BY <1>4, <2>2
      <3> QED
        BY <1>3, <1>6, <3>1
    <2> QED
      BY <1>4, <2>1, <2>2
  <1> QED
    BY <1>5, <1>8

LEMMA NotSubmittedReads ==
  ASSUME HostTypes, ReadsItsOwn, kind' = kind, NEW n \in Nat \ {0}, NEW s \in Slot,
         NEW levels \in {Few, Top}, NEW companion \in BOOLEAN, NEW replayed \in BOOLEAN,
         NotSubmitted(n, s, levels, companion, replayed)
  PROVE  HostTypes' /\ ReadsItsOwn'
  <1>1. /\ SlotFree(s) /\ Record(n, s, levels, companion, replayed)
        /\ host' = Recorded /\ gpu' = gpu /\ latest' = latest
    BY DEF NotSubmitted
  <1>2. Wrote(n, s, levels, companion, replayed)
    BY <1>1, RecordWrites
  <1>3. HostTypes'
    BY <1>1, <1>2, RecordedHost DEF HostTypes, Wrote
  <1>4. \A t \in Slot : t # s => constants'[t] = constants[t] /\ recorded'[t] = recorded[t]
    BY <1>2 DEF Wrote
  <1>5. \A i \in 1 .. Len(gpu) :
            LET c == gpu[i]
            IN  kind'.flow => /\ constants'[c.slot] = [levels |-> c.levels, frame |-> c.frame]
                              /\ c.replayed => recorded'[c.slot][c.parity][c.companion] = c.levels
    BY <1>1, <1>4, OthersKeepTheirs
  <1> QED
    BY <1>1, <1>3, <1>5 DEF ReadsItsOwn

LEMMA SucceedsReads ==
  ASSUME HostTypes, ReadsItsOwn, kind' = kind, NEW n \in Nat \ {0}, NEW s \in Slot,
         Succeeds(n, s)
  PROVE  HostTypes' /\ ReadsItsOwn'
  BY GeneratedReads DEF Succeeds

LEMMA FailsReads ==
  ASSUME HostTypes, ReadsItsOwn, kind' = kind, NEW n \in Nat \ {0}, NEW s \in Slot,
         NEW may, Fails(n, s, may)
  PROVE  HostTypes' /\ ReadsItsOwn' /\ gpu' = gpu
  <1>1. CASE \E levels \in {Few, Top}, companion, replayed \in BOOLEAN :
                 NotSubmitted(n, s, levels, companion, replayed)
    <2>1. PICK levels \in {Few, Top}, companion \in BOOLEAN, replayed \in BOOLEAN :
                 NotSubmitted(n, s, levels, companion, replayed)
      BY <1>1
    <2> QED
      BY <2>1, NotSubmittedReads DEF NotSubmitted
  <1>2. CASE NotBegun(s)
    BY <1>2 DEF NotBegun, HostTypes, ReadsItsOwn
  <1> QED
    BY <1>1, <1>2 DEF Fails

\* The part of the invariant that no failure disturbs.
RecordingOwn == RecordingTypes /\ ReadsItsOwn

LEMMA TypesOfHost == RecordingTypes => HostTypes
  BY DEF RecordingTypes, HostTypes

LEMMA KindIsKind ==
  ASSUME kind \in RecordingKinds
  PROVE  kind.flow \in BOOLEAN
  <1>1. CASE kind \in [flow : {TRUE}, ingest : BOOLEAN, replay : BOOLEAN]
    BY <1>1
  <1>2. CASE kind = [flow |-> FALSE, ingest |-> FALSE, replay |-> FALSE]
    BY <1>2
  <1> QED
    BY <1>1, <1>2 DEF RecordingKinds

LEMMA OwnInit == RecordingInit => RecordingOwn
  <1> SUFFICES ASSUME RecordingInit PROVE RecordingTypes /\ ReadsItsOwn
    BY DEF RecordingOwn
  <1>1. 0 \in Slot /\ 0 \in Nat
    BY LevelNumbers DEF Slot
  <1>2. MemTypes(mem)
    <2>1. mem = Blank
      BY DEF RecordingInit
    <2>2. /\ Blank.colour \in Pairs /\ Blank.luma \in Pairs /\ Blank.pyramid \in Pairs
          /\ Blank.flow = [p \in Parity |-> [k \in Level |-> Blank.flow[p][k]]]
      BY DEF Blank, Pairs
    <2>3. Blank = [general |-> Blank.general, layout |-> Blank.layout, history |-> Blank.history,
                   colour |-> Blank.colour, luma |-> Blank.luma, pyramid |-> Blank.pyramid,
                   flow |-> Blank.flow, flowOut |-> Blank.flowOut]
      BY DEF Blank
    <2> QED
      BY <2>1, <2>2, <2>3 DEF MemTypes
  <1>3. constants \in [Slot -> [levels : Nat, frame : Nat]]
        /\ recorded \in [Slot -> [Parity -> [BOOLEAN -> Nat]]]
    BY DEF RecordingInit
  <1>4. waiting \in Seq([frame : Nat \ {0}, slot : Slot]) /\ gpu \in Seq(Batches)
    BY DEF RecordingInit
  <1>5. host \in [index : Nat, ready : BOOLEAN, history : BOOLEAN, layout : {"undefined", "dst"}]
    BY DEF RecordingInit
  <1>6. RecordingTypes
    BY <1>1, <1>2, <1>3, <1>4, <1>5 DEF RecordingInit, RecordingTypes
  <1>7. ReadsItsOwn
    BY DEF RecordingInit, ReadsItsOwn
  <1> QED
    BY <1>6, <1>7

LEMMA SlotTurns ==
  ASSUME nextSlot \in Slot
  PROVE  (nextSlot + 1) % Slots \in Slot
  BY LevelNumbers DEF Slot

LEMMA HandOwn == RecordingOwn /\ Hand => RecordingOwn'
  <1> SUFFICES ASSUME RecordingTypes, ReadsItsOwn, Hand PROVE RecordingTypes' /\ ReadsItsOwn'
    BY DEF RecordingOwn
  <1> DEFINE w == [frame |-> frame + 1, slot |-> nextSlot]
             W == [frame : Nat \ {0}, slot : Slot]
  <1>1. frame \in Nat /\ nextSlot \in Slot /\ waiting \in Seq(W) /\ workerFailed \in BOOLEAN
    BY DEF RecordingTypes
  <1>2. w \in W
    BY <1>1
  <1>3. waiting' = Append(waiting, w)
    BY DEF Hand
  <1>4. waiting' \in Seq(W)
    <2> HIDE DEF w, W
    <2> QED
      BY <1>1, <1>2, <1>3, Appended
  <1>5. frame' \in Nat /\ nextSlot' \in Slot /\ enabled' \in BOOLEAN
    BY <1>1, SlotTurns DEF Hand, TakesSlot
  <1>6. RecordingTypes'
    BY <1>4, <1>5 DEF RecordingTypes, Hand
  <1>7. ReadsItsOwn'
    BY DEF ReadsItsOwn, Hand
  <1> QED
    BY <1>6, <1>7

LEMMA WorkOwn == RecordingOwn /\ Work => RecordingOwn'
  <1> SUFFICES ASSUME RecordingTypes, ReadsItsOwn, Work PROVE RecordingTypes' /\ ReadsItsOwn'
    BY DEF RecordingOwn
  <1> DEFINE w == Head(waiting)
             W == [frame : Nat \ {0}, slot : Slot]
  <1>1. waiting \in Seq(W) /\ waiting # <<>> /\ kind' = kind
    BY DEF RecordingTypes, Work
  <1>2. w \in W /\ waiting' \in Seq(W)
    <2>1. waiting' = Tail(waiting)
      BY DEF Work
    <2> HIDE DEF W
    <2> QED
      BY <1>1, <2>1, HeadAndTail
  <1>3. w.frame \in Nat \ {0} /\ w.slot \in Slot
    BY <1>2
  <1>4. HostTypes' /\ ReadsItsOwn' /\ workerFailed' \in BOOLEAN
    <2> HIDE DEF w, W
    <2>1. CASE Succeeds(w.frame, w.slot) /\ UNCHANGED workerFailed
      BY <1>1, <1>3, <2>1, TypesOfHost, SucceedsReads DEF RecordingTypes
    <2>2. CASE Fails(w.frame, w.slot, Transient) /\ workerFailed' = TRUE
      BY <1>1, <1>3, <2>2, TypesOfHost, FailsReads
    <2> QED
      BY <2>1, <2>2 DEF Work, w
  <1> QED
    BY <1>2, <1>4 DEF RecordingTypes, HostTypes, Work

LEMMA InlineOwn == RecordingOwn /\ Inline => RecordingOwn'
  <1> SUFFICES ASSUME RecordingTypes, ReadsItsOwn, Inline PROVE RecordingTypes' /\ ReadsItsOwn'
    BY DEF RecordingOwn
  <1>1. frame \in Nat /\ nextSlot \in Slot /\ kind' = kind /\ enabled \in BOOLEAN
    BY DEF RecordingTypes, Inline
  <1>2. frame + 1 \in Nat \ {0} /\ frame' \in Nat
    BY <1>1 DEF Inline
  <1>3. HostTypes' /\ ReadsItsOwn' /\ nextSlot' \in Slot /\ enabled' \in BOOLEAN
    <2>1. CASE Succeeds(frame + 1, nextSlot) /\ TakesSlot /\ UNCHANGED enabled
      BY <1>1, <1>2, <2>1, TypesOfHost, SucceedsReads, SlotTurns DEF TakesSlot
    <2>2. CASE Fails(frame + 1, nextSlot, TRUE) /\ enabled' = FALSE /\ UNCHANGED nextSlot
      BY <1>1, <1>2, <2>2, TypesOfHost, FailsReads
    <2> QED
      BY <2>1, <2>2 DEF Inline
  <1> QED
    BY <1>2, <1>3 DEF RecordingTypes, HostTypes, Inline

\* A batch at its turn, and what is left of the queue when it has run.
LEMMA FirstBatch ==
  ASSUME RecordingTypes, ReadsItsOwn, gpu # <<>>
  PROVE  /\ Head(gpu) \in Batches /\ Head(gpu) = gpu[1]
         /\ kind.flow => /\ constants[Head(gpu).slot].levels = Head(gpu).levels
                         /\ Head(gpu).replayed =>
                              recorded[Head(gpu).slot][Head(gpu).parity][Head(gpu).companion]
                                  = Head(gpu).levels
  <1>1. gpu \in Seq(Batches)
    BY DEF RecordingTypes
  <1>2. Head(gpu) \in Batches /\ Head(gpu) = gpu[1] /\ Len(gpu) \in Nat \ {0}
    BY <1>1, HeadAndTail
  <1> DEFINE b == gpu[1]
  <1>3. ASSUME kind.flow
        PROVE  /\ constants[b.slot] = [levels |-> b.levels, frame |-> b.frame]
               /\ b.replayed => recorded[b.slot][b.parity][b.companion] = b.levels
    <2>1. 1 \in 1 .. Len(gpu)
      BY <1>2
    <2> QED
      BY <1>3, <2>1 DEF ReadsItsOwn
  <1> HIDE DEF b
  <1>4. kind.flow => constants[b.slot].levels = b.levels
    BY <1>3
  <1>5. Head(gpu) = b
    BY <1>2 DEF b
  <1> QED
    BY <1>2, <1>3, <1>4, <1>5

LEMMA RunOwn == RecordingOwn /\ Run => RecordingOwn'
  <1> SUFFICES ASSUME RecordingTypes, ReadsItsOwn, Run PROVE RecordingTypes' /\ ReadsItsOwn'
    BY DEF RecordingOwn
  <1> DEFINE b == Head(gpu)
  <1>1. gpu # <<>> /\ MemTypes(mem) /\ gpu \in Seq(Batches) /\ gpu' = Tail(gpu)
    BY DEF Run, RecordingTypes
  <1>2. b \in Batches
    BY <1>1, FirstBatch
  <1>3. MemTypes(mem')
    <2>1. CASE kind.flow
      <3>1. mem' = RunFlow(b)
        BY <2>1 DEF Run
      <3>2. constants[b.slot].levels = b.levels
            /\ (b.replayed => recorded[b.slot][b.parity][b.companion] = b.levels)
        BY <1>1, <2>1, FirstBatch
      <3> HIDE DEF b
      <3> QED
        BY <1>1, <1>2, <3>1, <3>2, RunFlowLeaves
    <2>2. CASE ~kind.flow
      <3>1. mem' = [mem EXCEPT !.history = b.frame, !.layout = "dst"]
        BY <2>2 DEF Run, RunCopy
      <3> HIDE DEF b
      <3> QED
        BY <1>1, <3>1 DEF MemTypes
    <2> QED
      BY <2>1, <2>2
  <1>4. gpu' \in Seq(Batches) /\ \A n \in 1 .. Len(gpu') : gpu'[n] = gpu[n + 1] /\ n + 1 \in 1 .. Len(gpu)
    BY <1>1, HeadAndTail
  <1>5. RecordingTypes'
    BY <1>3, <1>4 DEF RecordingTypes, Run, hostVars
  <1>6. ReadsItsOwn'
    BY <1>4 DEF ReadsItsOwn, Run, hostVars
  <1> QED
    BY <1>5, <1>6

LEMMA AsideOwn == RecordingOwn /\ Aside => RecordingOwn'
  BY DEF RecordingOwn, RecordingTypes, ReadsItsOwn, Aside

LEMMA OwnNext == RecordingOwn /\ [RecordingNext]_recordingVars => RecordingOwn'
  <1>1. RecordingOwn /\ UNCHANGED recordingVars => RecordingOwn'
    BY DEF RecordingOwn, RecordingTypes, ReadsItsOwn, recordingVars, hostVars
  <1> QED
    BY <1>1, HandOwn, WorkOwn, InlineOwn, AsideOwn, RunOwn DEF RecordingNext

LEMMA OwnHolds == RecordingSpec => []RecordingOwn
  BY OwnInit, OwnNext, PTL DEF RecordingSpec

\* What a submitted batch still reads from the host's side is what was written for
\* it, whatever fails before and after: the fence of its slot keeps the next
\* recording out of the constants and of the secondaries.
THEOREM BatchesReadTheirOwn == RecordingSpec => []ReadsItsOwn
  <1>1. RecordingOwn => ReadsItsOwn
    BY DEF RecordingOwn
  <1> QED
    BY OwnHolds, <1>1, PTL

-----------------------------------------------------------------------------
(* Without a success after a failure, every batch follows the one before. *)

RecordingInv == RecordingOwn /\ Chained /\ HostFollows /\ MadeOfHistory

LEMMA InvInit == RecordingInit => RecordingInv
  <1> SUFFICES ASSUME RecordingInit PROVE Chained /\ HostFollows /\ MadeOfHistory
    BY OwnInit DEF RecordingInv
  <1>1. gpu = <<>> /\ made = NoCompanion /\ mem = Blank /\ latest = 0
        /\ host = [index |-> 0, ready |-> FALSE, history |-> FALSE, layout |-> "undefined"]
    BY DEF RecordingInit
  <1>2. Chained
    BY <1>1 DEF Chained
  <1>3. mem.colour[1] = 0 /\ mem.history = 0
    BY <1>1 DEF Blank, Parity
  <1>4. HostFollows
    <2>1. host.index % 2 = 0 /\ ~host.ready /\ ~host.history /\ host.layout = "undefined"
      BY <1>1
    <2> QED
      BY <1>1, <1>3, <2>1 DEF HostFollows, Ready, LayoutReady
  <1>5. MadeOfHistory
    BY <1>1 DEF MadeOfHistory
  <1> QED
    BY <1>2, <1>4, <1>5

\* A batch appended to those in flight follows the last of them.
LEMMA GeneratedFollows ==
  ASSUME RecordingTypes, ReadsItsOwn, Chained, HostFollows, Alive,
         kind' = kind, mem' = mem, NEW n \in Nat \ {0}, NEW s \in Slot,
         NEW levels \in {Few, Top}, NEW companion \in BOOLEAN, NEW replayed \in BOOLEAN,
         Generated(n, s, levels, companion, replayed)
  PROVE  Chained' /\ HostFollows'
  <1> DEFINE b == Batch(n, s, levels, companion, replayed)
  <1>1. /\ companion => host.history
        /\ host' = [Recorded EXCEPT !.history = TRUE] /\ gpu' = Append(gpu, b) /\ latest' = n
    BY DEF Generated, HasHistory
  <1>2. HostTypes /\ b \in Batches /\ gpu \in Seq(Batches)
    BY TypesOfHost, NewBatch DEF HostTypes
  <1>3. /\ b.frame = n /\ b.parity = host.index % 2 /\ b.before = latest /\ b.from = host.layout
        /\ b.init = (kind.flow /\ ~host.ready) /\ b.companion = companion
    BY DEF Batch
  <1> HIDE DEF b
  <1>4. /\ Len(gpu') = Len(gpu) + 1 /\ Len(gpu) \in Nat /\ gpu' # <<>>
        /\ \A i \in 1 .. Len(gpu) : gpu'[i] = gpu[i] /\ gpu[i] \in Batches
        /\ gpu'[Len(gpu) + 1] = b
    BY <1>1, <1>2, Appended
  <1>5. kind.flow \in BOOLEAN /\ host.index \in Nat
    BY KindIsKind DEF RecordingTypes
  <1>6. b.companion => b.before # 0
    BY <1>1, <1>3 DEF HostFollows
  <1>7. /\ host'.history /\ (kind.flow => host'.ready /\ host'.index % 2 = 1 - b.parity)
    <2>1. host'.history = TRUE /\ host'.ready = Recorded.ready /\ host'.index = Recorded.index
      BY <1>1, <1>2, RecordedHost
    <2>2. kind.flow => host'.ready = TRUE /\ host'.index = host.index + 1
      BY <1>2, <2>1, RecordedHost
    <2>3. (host.index + 1) % 2 = 1 - (host.index % 2)
      BY <1>5
    <2>4. host'.history
      BY <2>1
    <2>5. ASSUME kind.flow PROVE host'.ready
      BY <2>2, <2>5
    <2>6. ASSUME kind.flow PROVE host'.index % 2 = 1 - b.parity
      BY <1>3, <2>2, <2>3, <2>6
    <2> QED
      BY <2>4, <2>5, <2>6
  <1>8. HostFollows'
    BY <1>1, <1>3, <1>4, <1>7 DEF HostFollows
  <1>9. CASE gpu = <<>>
    <2>1. Len(gpu) = 0 /\ gpu'[1] = b /\ Len(gpu') = 1
      BY <1>4, <1>9
    <2>2. Ready(kind.flow, mem, host.index % 2, ~host.ready, latest) /\ LayoutReady(kind.flow, mem, host.layout)
      BY <1>9 DEF HostFollows
    <2>3. Expects(kind.flow, mem, b)
      <3>1. CASE kind.flow
        <4>1. b.init <=> ~host.ready
          BY <1>3, <3>1
        <4> QED
          BY <1>3, <2>2, <3>1, <4>1 DEF Expects, Ready, LayoutReady
      <3>2. CASE ~kind.flow
        BY <1>3, <2>2, <3>2 DEF Expects, Ready, LayoutReady
      <3> QED
        BY <1>5, <3>1, <3>2
    <2> QED
      BY <1>6, <1>8, <2>1, <2>3 DEF Chained
  <1>10. CASE gpu # <<>>
    <2> DEFINE last == gpu[Len(gpu)]
    <2>1. Len(gpu) # 0 /\ 1 \in 1 .. Len(gpu) /\ gpu'[1] = gpu[1] /\ last \in Batches /\ gpu'[Len(gpu)] = last
      BY <1>2, <1>4, <1>10
    <2>2. latest = last.frame /\ (kind.flow => host.ready /\ host.index % 2 = 1 - last.parity)
      BY <1>10 DEF HostFollows
    <2>3. Follows(kind.flow, last, b)
      BY <1>3, <1>5, <2>2 DEF Follows
    <2> HIDE DEF last
    <2>4. Expects(kind.flow, mem, gpu'[1])
      BY <1>10, <2>1 DEF Chained
    <2>5. ASSUME NEW i \in 1 .. Len(gpu') - 1 PROVE Follows(kind.flow, gpu'[i], gpu'[i + 1])
      <3>1. CASE i = Len(gpu)
        BY <1>4, <2>1, <2>3, <3>1
      <3>2. CASE i # Len(gpu)
        <4>1. i \in 1 .. Len(gpu) - 1 /\ i \in 1 .. Len(gpu) /\ i + 1 \in 1 .. Len(gpu)
          BY <1>4, <3>2
        <4>2. gpu'[i] = gpu[i] /\ gpu'[i + 1] = gpu[i + 1]
          BY <1>4, <4>1
        <4> QED
          BY <4>1, <4>2 DEF Chained
      <3> QED
        BY <3>1, <3>2
    <2>6. ASSUME NEW i \in 1 .. Len(gpu'), gpu'[i].companion PROVE gpu'[i].before # 0
      <3>1. CASE i = Len(gpu) + 1
        BY <1>4, <1>6, <2>6, <3>1
      <3>2. CASE i # Len(gpu) + 1
        <4>1. i \in 1 .. Len(gpu)
          BY <1>4, <3>2
        <4> QED
          BY <1>4, <2>6, <4>1 DEF Chained
      <3> QED
        BY <3>1, <3>2
    <2> QED
      BY <1>8, <2>4, <2>5, <2>6 DEF Chained
  <1> QED
    BY <1>9, <1>10

LEMMA SucceedsFollows ==
  ASSUME RecordingTypes, ReadsItsOwn, Chained, HostFollows, Alive,
         kind' = kind, mem' = mem, NEW n \in Nat \ {0}, NEW s \in Slot, Succeeds(n, s)
  PROVE  Chained' /\ HostFollows'
  BY GeneratedFollows DEF Succeeds

\* A failure leaves what was submitted; nothing follows it.
LEMMA FailsFollows ==
  ASSUME RecordingTypes, ReadsItsOwn, Chained, kind' = kind, mem' = mem,
         NEW n \in Nat \ {0}, NEW s \in Slot, NEW may, Fails(n, s, may), ~Alive'
  PROVE  Chained' /\ HostFollows'
  <1>1. gpu' = gpu
    BY TypesOfHost, FailsReads
  <1> QED
    BY <1>1 DEF Chained, HostFollows

LEMMA WorkInv == ~Transient /\ RecordingInv /\ Work => Chained' /\ HostFollows'
  <1> SUFFICES ASSUME ~Transient, RecordingTypes, ReadsItsOwn, Chained, HostFollows, Work
               PROVE  Chained' /\ HostFollows'
    BY DEF RecordingInv, RecordingOwn
  <1> DEFINE w == Head(waiting)
             W == [frame : Nat \ {0}, slot : Slot]
  <1>1. waiting \in Seq(W) /\ waiting # <<>> /\ kind' = kind /\ mem' = mem /\ workerFailed \in BOOLEAN
    BY DEF RecordingTypes, Work
  <1>2. w \in W
    <2> HIDE DEF W
    <2> QED
      BY <1>1, HeadAndTail
  <1>3. w.frame \in Nat \ {0} /\ w.slot \in Slot
    BY <1>2
  <1> HIDE DEF w, W
  <1>4. CASE ~workerFailed /\ Succeeds(w.frame, w.slot)
    <2>1. Alive
      BY <1>1, <1>4 DEF Alive
    <2> QED
      BY <1>1, <1>3, <1>4, <2>1, SucceedsFollows
  <1>5. CASE Fails(w.frame, w.slot, Transient) /\ workerFailed' = TRUE
    <2>1. ~Alive'
      BY <1>5 DEF Alive
    <2> QED
      BY <1>1, <1>3, <1>5, <2>1, FailsFollows
  <1> QED
    BY <1>4, <1>5 DEF Work, w

LEMMA InlineInv == ~Transient /\ RecordingInv /\ Inline => Chained' /\ HostFollows'
  <1> SUFFICES ASSUME ~Transient, RecordingTypes, ReadsItsOwn, Chained, HostFollows, Inline
               PROVE  Chained' /\ HostFollows'
    BY DEF RecordingInv, RecordingOwn
  <1>1. frame + 1 \in Nat \ {0} /\ nextSlot \in Slot /\ kind' = kind /\ mem' = mem
        /\ enabled /\ waiting' = <<>>
    BY DEF RecordingTypes, Inline
  <1>2. CASE ~workerFailed /\ Succeeds(frame + 1, nextSlot)
    <2>1. Alive
      BY <1>1, <1>2 DEF Alive
    <2> QED
      BY <1>1, <1>2, <2>1, SucceedsFollows
  <1>3. CASE Fails(frame + 1, nextSlot, TRUE) /\ enabled' = FALSE
    <2>1. ~Alive'
      BY <1>1, <1>3 DEF Alive
    <2> QED
      BY <1>1, <1>3, <2>1, FailsFollows
  <1> QED
    BY <1>2, <1>3 DEF Inline

LEMMA HandInv == RecordingInv /\ Hand => Chained' /\ HostFollows'
  <1> SUFFICES ASSUME Chained, HostFollows, Hand PROVE Chained' /\ HostFollows'
    BY DEF RecordingInv
  <1>1. Alive' => Alive
    BY DEF Hand, Alive
  <1> QED
    BY <1>1 DEF Chained, HostFollows, Hand

LEMMA AsideInv == RecordingInv /\ Aside => Chained' /\ HostFollows'
  BY DEF RecordingInv, Chained, HostFollows, Alive, Aside

-----------------------------------------------------------------------------
(* The batch at its turn finds what it expects. *)

\* The images after a batch are what the next one expects, and its companion lies
\* between the frame before it and its own.
LEMMA RunLeaves ==
  ASSUME RecordingTypes, ReadsItsOwn, Chained, Run
  PROVE  /\ \A q \in Parity, l \in {"undefined", "dst"} :
              (kind.flow => q = 1 - gpu[1].parity) =>
                 Ready(kind.flow, mem', q, FALSE, gpu[1].frame) /\ LayoutReady(kind.flow, mem', l)
         /\ made' = IF ~gpu[1].companion THEN made
                    ELSE [frame |-> gpu[1].frame, of |-> <<gpu[1].before, gpu[1].frame>>,
                          flow |-> <<gpu[1].before, gpu[1].frame, "filtered">>,
                          before |-> gpu[1].before]
  <1> DEFINE b == gpu[1]
             p == b.parity
  <1>1. gpu # <<>> /\ MemTypes(mem) /\ Expects(kind.flow, mem, b) /\ Head(gpu) = b /\ b \in Batches
    BY FirstBatch DEF Run, RecordingTypes, Chained
  <1>2. p \in Parity /\ 1 - p \in Parity /\ 1 - (1 - p) = p /\ b.frame \in Nat \ {0}
        /\ b.init \in BOOLEAN /\ b.companion \in BOOLEAN
    BY <1>1 DEF Batches, Parity
  <1>3. b.companion => b.before # 0
    <2>1. gpu \in Seq(Batches) /\ Len(gpu) \in Nat \ {0}
      BY <1>1, HeadAndTail DEF RecordingTypes
    <2> QED
      BY <2>1 DEF Chained
  <1>4. kind.flow \in BOOLEAN
    BY KindIsKind DEF RecordingTypes
  <1>5. CASE kind.flow
    <2>1. /\ constants[b.slot].levels = b.levels
          /\ b.replayed => recorded[b.slot][b.parity][b.companion] = b.levels
      BY <1>1, <1>5, FirstBatch
    <2>2. mem' = RunFlow(b) /\ made' = IF ~b.companion THEN made ELSE Interpolated(mem', b)
      BY <1>1, <1>5 DEF Run
    <2> HIDE DEF b
    <2>3. /\ mem'.general = IF b.init THEN TRUE ELSE mem.general
          /\ mem'.colour[p] = b.frame /\ mem'.luma[p] = b.frame /\ mem'.pyramid[p] = b.frame
          /\ mem'.colour[1 - p] = mem.colour[1 - p]
          /\ b.companion /\ ~b.init =>
               \A prev : mem.luma[1 - p] = prev /\ mem.pyramid[1 - p] = prev
                           => mem'.flowOut = <<prev, b.frame, "filtered">>
      BY <1>1, <2>1, <2>2, RunFlowLeaves
    <2>4. /\ mem.colour[1 - p] = b.before
          /\ b.init => b.before = 0
          /\ ~b.init => mem.general /\ mem.luma[1 - p] = b.before /\ mem.pyramid[1 - p] = b.before
      BY <1>1, <1>5 DEF Expects, Ready
    <2>5. mem'.general
      BY <2>3, <2>4
    <2>6. Ready(kind.flow, mem', 1 - p, FALSE, b.frame)
      BY <1>2, <1>5, <2>3, <2>5 DEF Ready
    <2>7. \A l : LayoutReady(kind.flow, mem', l)
      BY <1>5 DEF LayoutReady
    <2>8. ASSUME b.companion
          PROVE  mem'.flowOut = <<b.before, b.frame, "filtered">> /\ mem'.colour[1 - p] = b.before
      BY <1>3, <2>3, <2>4, <2>8
    <2>9. b.companion => made' = [frame |-> b.frame, of |-> <<b.before, b.frame>>,
                                  flow |-> <<b.before, b.frame, "filtered">>, before |-> b.before]
      BY <2>2, <2>3, <2>8 DEF Interpolated
    <2> QED
      BY <1>5, <2>2, <2>6, <2>7, <2>9 DEF b
  <1>6. CASE ~kind.flow
    <2>1. mem' = RunCopy(b) /\ made' = IF ~b.companion THEN made ELSE Repeated(b)
      BY <1>1, <1>6 DEF Run
    <2> HIDE DEF b
    <2>2. mem'.history = b.frame /\ mem'.layout = "dst"
      BY <1>1, <2>1 DEF RunCopy, MemTypes
    <2>3. mem.history = b.before
      BY <1>1, <1>6 DEF Expects, Ready
    <2>4. b.companion => made' = [frame |-> b.frame, of |-> <<b.before, b.frame>>,
                                  flow |-> <<b.before, b.frame, "filtered">>, before |-> b.before]
      BY <2>1, <2>3 DEF Repeated
    <2>5. \A q : Ready(kind.flow, mem', q, FALSE, b.frame)
      BY <1>6, <2>2 DEF Ready
    <2>6. \A l \in {"undefined", "dst"} : LayoutReady(kind.flow, mem', l)
      BY <2>2 DEF LayoutReady
    <2> QED
      BY <2>1, <2>4, <2>5, <2>6 DEF b
  <1> QED
    BY <1>4, <1>5, <1>6

LEMMA RunInv == RecordingInv /\ Run => Chained' /\ HostFollows' /\ MadeOfHistory'
  <1> SUFFICES ASSUME RecordingTypes, ReadsItsOwn, Chained, HostFollows, MadeOfHistory, Run
               PROVE  Chained' /\ HostFollows' /\ MadeOfHistory'
    BY DEF RecordingInv, RecordingOwn
  <1> DEFINE b == gpu[1]
  <1>1. gpu # <<>> /\ gpu \in Seq(Batches) /\ gpu' = Tail(gpu) /\ kind' = kind
        /\ host' = host /\ latest' = latest
    BY DEF Run, RecordingTypes, hostVars
  <1>2. /\ Len(gpu') = Len(gpu) - 1 /\ Len(gpu) \in Nat \ {0}
        /\ \A n \in 1 .. Len(gpu') : gpu'[n] = gpu[n + 1] /\ n + 1 \in 1 .. Len(gpu)
        /\ \A n \in 1 .. Len(gpu) : gpu[n] \in Batches
        /\ gpu' \in Seq(Batches)
    BY <1>1, HeadAndTail
  <1>3. /\ \A q \in Parity, l \in {"undefined", "dst"} :
             (kind.flow => q = 1 - b.parity) =>
                Ready(kind.flow, mem', q, FALSE, b.frame) /\ LayoutReady(kind.flow, mem', l)
        /\ made' = IF ~b.companion THEN made
                   ELSE [frame |-> b.frame, of |-> <<b.before, b.frame>>,
                         flow |-> <<b.before, b.frame, "filtered">>, before |-> b.before]
    BY RunLeaves
  <1>4. b \in Batches /\ (b.companion => b.before # 0)
    BY <1>2 DEF Chained
  <1> HIDE DEF b
  <1>5. MadeOfHistory'
    <2>1. CASE b.companion
      BY <1>3, <1>4, <2>1 DEF MadeOfHistory
    <2>2. CASE ~b.companion
      BY <1>3, <2>2 DEF MadeOfHistory
    <2> QED
      BY <2>1, <2>2
  <1>6. kind.flow \in BOOLEAN
    BY KindIsKind DEF RecordingTypes
  <1>7. ASSUME gpu' # <<>> PROVE Expects(kind.flow, mem', gpu'[1])
    <2> DEFINE c == gpu[2]
    <2>1. gpu'[1] = c /\ 1 \in 1 .. Len(gpu) - 1 /\ 2 \in 1 .. Len(gpu)
      <3>1. Len(gpu') # 0
        BY <1>2, <1>7
      <3> QED
        BY <1>2, <3>1
    <2>2. Follows(kind.flow, b, c) /\ c \in Batches
      BY <1>2, <2>1 DEF Chained, b
    <2> HIDE DEF c
    <2>3. c.parity \in Parity /\ c.from \in {"undefined", "dst"} /\ c.init \in BOOLEAN
      BY <2>2 DEF Batches
    <2>4. c.before = b.frame /\ (kind.flow => c.parity = 1 - b.parity /\ ~c.init)
      BY <2>2 DEF Follows
    <2>5. Ready(kind.flow, mem', c.parity, FALSE, b.frame) /\ LayoutReady(kind.flow, mem', c.from)
      BY <1>3, <2>3, <2>4
    <2>6. Ready(kind.flow, mem', c.parity, c.init, c.before)
      BY <2>4, <2>5 DEF Ready
    <2> QED
      BY <2>1, <2>5, <2>6 DEF Expects
  <1>8. Chained'
    <2>1. ASSUME NEW n \in 1 .. Len(gpu') - 1 PROVE Follows(kind.flow, gpu'[n], gpu'[n + 1])
      <3>1. n + 1 \in 1 .. Len(gpu) - 1 /\ n \in 1 .. Len(gpu') /\ n + 1 \in 1 .. Len(gpu')
        BY <1>2
      <3>2. gpu'[n] = gpu[n + 1] /\ gpu'[n + 1] = gpu[(n + 1) + 1]
        BY <1>2, <3>1
      <3> QED
        BY <3>1, <3>2 DEF Chained
    <2>2. ASSUME NEW n \in 1 .. Len(gpu') PROVE gpu'[n].companion => gpu'[n].before # 0
      BY <1>2 DEF Chained
    <2> QED
      BY <1>1, <1>7, <2>1, <2>2 DEF Chained
  <1>9. HostFollows'
    <2> SUFFICES ASSUME Alive PROVE HostFollows'
      BY DEF HostFollows, Alive, Run, hostVars
    <2>1. host.history => latest # 0
      BY DEF HostFollows
    <2>2. /\ latest = gpu[Len(gpu)].frame
          /\ kind.flow => host.ready /\ host.index % 2 = 1 - gpu[Len(gpu)].parity
      BY <1>1 DEF HostFollows
    <2>3. CASE gpu' = <<>>
      <3>1. Len(gpu) = 1
        BY <1>2, <2>3
      <3>2. latest = b.frame /\ (kind.flow => host.ready /\ host.index % 2 = 1 - b.parity)
        BY <2>2, <3>1 DEF b
      <3>3. host.index % 2 \in Parity /\ host.layout \in {"undefined", "dst"}
        BY DEF RecordingTypes, Parity
      <3>4. /\ Ready(kind.flow, mem', host.index % 2, FALSE, latest)
            /\ LayoutReady(kind.flow, mem', host.layout)
        BY <1>3, <3>2, <3>3
      <3>5. Ready(kind.flow, mem', host.index % 2, ~host.ready, latest)
        BY <3>2, <3>4 DEF Ready
      <3> QED
        BY <1>1, <2>1, <2>3, <3>4, <3>5 DEF HostFollows
    <2>4. CASE gpu' # <<>>
      <3>1. gpu'[Len(gpu')] = gpu[Len(gpu)]
        BY <1>2, <2>4
      <3> QED
        BY <1>1, <2>1, <2>2, <2>4, <3>1 DEF HostFollows
    <2> QED
      BY <2>3, <2>4
  <1> QED
    BY <1>5, <1>8, <1>9

LEMMA InvNext == ~Transient /\ RecordingInv /\ [RecordingNext]_recordingVars => RecordingInv'
  <1> SUFFICES ASSUME ~Transient, RecordingInv, [RecordingNext]_recordingVars PROVE RecordingInv'
    OBVIOUS
  <1>1. RecordingOwn'
    BY OwnNext DEF RecordingInv
  <1>2. CASE Hand
    BY <1>1, <1>2, HandInv DEF RecordingInv, MadeOfHistory, Hand
  <1>3. CASE Work
    BY <1>1, <1>3, WorkInv DEF RecordingInv, MadeOfHistory, Work
  <1>4. CASE Inline
    BY <1>1, <1>4, InlineInv DEF RecordingInv, MadeOfHistory, Inline
  <1>5. CASE Aside
    BY <1>1, <1>5, AsideInv DEF RecordingInv, MadeOfHistory, Aside
  <1>6. CASE Run
    BY <1>1, <1>6, RunInv DEF RecordingInv
  <1>7. CASE UNCHANGED recordingVars
    BY <1>1, <1>7 DEF RecordingInv, Chained, HostFollows, Alive, MadeOfHistory, recordingVars, hostVars
  <1> QED
    BY <1>2, <1>3, <1>4, <1>5, <1>6, <1>7 DEF RecordingNext

\* The inductive invariant of recording and running.
THEOREM RecordingInductive == ~Transient => (RecordingSpec => []RecordingInv)
  <1> SUFFICES ASSUME ~Transient PROVE RecordingSpec => []RecordingInv
    OBVIOUS
  <1>1. RecordingInv /\ [RecordingNext]_recordingVars => RecordingInv'
    BY InvNext
  <1> QED
    BY InvInit, <1>1, PTL DEF RecordingSpec

\* A companion lies between its own frame and the last one generated for before
\* it, in its colours and in its flow, at any number of levels, recorded anew or
\* replayed, however the host's and the GPU's steps interleave: where nothing
\* succeeds any more after a failure.
THEOREM CompanionsAreMadeOfHistory == ~Transient => (RecordingSpec => []MadeOfHistory)
  <1>1. RecordingInv => MadeOfHistory
    BY DEF RecordingInv
  <1> QED
    BY RecordingInductive, <1>1, PTL

\* And every batch finds the images in the layouts its recording took them to be in.
THEOREM LayoutsAreAsRecorded == ~Transient => (RecordingSpec => []LayoutsAsRecorded)
  <1>1. RecordingInv => LayoutsAsRecorded
    <2> SUFFICES ASSUME RecordingTypes, Chained, gpu # <<>> PROVE LayoutsAsRecorded
      BY DEF RecordingInv, RecordingOwn, LayoutsAsRecorded
    <2>1. gpu \in Seq(Batches) /\ Head(gpu) = gpu[1]
      BY HeadAndTail DEF RecordingTypes
    <2>2. Expects(kind.flow, mem, Head(gpu))
      BY <2>1 DEF Chained
    <2> QED
      BY <2>2 DEF Expects, Ready, LayoutReady, LayoutsAsRecorded
  <1> QED
    BY RecordingInductive, <1>1, PTL
=============================================================================
