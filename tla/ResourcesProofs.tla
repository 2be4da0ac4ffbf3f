--------------------------- MODULE ResourcesProofs ---------------------------
(***************************************************************************)
(* What a swapchain generates with, for every number of images and every   *)
(* order of failures: nothing outlives the swapchain, no handle of what    *)
(* was destroyed is kept, and a frame is generated only with everything it *)
(* uses, down to the views of every descriptor set and the pool the sets   *)
(* come from.  The invariant keeps account of what exists and of how far   *)
(* its making has come.                                                    *)
(***************************************************************************)
EXTENDS SwapchainResources, FiniteSetTheorems, TLAPS

USE ImagesAssumption

\* What the list of things is made of: the names of what a swapchain always has
\* and of its engine; the pool and its buffers come with the presents.
BaseNames == {"count", "arrays", "list", "sem_generated", "sem_real", "sem_app", "fence",
              "spare_fence"}
MadeNames == EngineNames \ {"secondaries"}
Asked == {"count", "list", "device"}

Things(names) == {<<n>> : n \in names} \union (names \X Nat) \union (names \X Nat \X Nat)

LEMMA ThingNamed == \A names : \A t \in Things(names) : t[1] \in names
BY DEF Things

LEMMA MoreThings == \A N, M : N \subseteq M => Things(N) \subseteq Things(M)
BY DEF Things

LEMMA ThingForms ==
    \A names : \A n \in names, i \in Nat, j \in Nat :
        <<n>> \in Things(names) /\ <<n, i>> \in Things(names) /\ <<n, i, j>> \in Things(names)
BY DEF Things

LEMMA SequencesOfThings ==
  ASSUME NEW S
  PROVE  /\ \A a \in S : <<a>> \in Seq(S)
         /\ \A a \in S, b \in S : <<a, b>> \in Seq(S)
         /\ \A a \in S, b \in S, c \in S : <<a, b, c>> \in Seq(S)
         /\ \A s \in Seq(S), t \in Seq(S) : s \o t \in Seq(S)
         /\ <<>> \in Seq(S)
OBVIOUS

LEMMA BaseThings == Base \in Seq(Things(BaseNames))
<1>1. <<<<"count">>, <<"arrays">>, <<"list">>>> \in Seq(Things(BaseNames))
  <2>1. <<"count">> \in Things(BaseNames) /\ <<"arrays">> \in Things(BaseNames) /\ <<"list">> \in Things(BaseNames)
    BY ThingForms DEF BaseNames
  <2>2. QED
    BY <2>1, SequencesOfThings, Zenon
<1>2. [n \in 1 .. 4 * Images |-> <<PerImage[1 + ((n - 1) % 4)], 1 + ((n - 1) \div 4)>>]
      \in Seq(Things(BaseNames))
  <2>1. ASSUME NEW n \in 1 .. 4 * Images
        PROVE  <<PerImage[1 + ((n - 1) % 4)], 1 + ((n - 1) \div 4)>> \in Things(BaseNames)
    <3>1. PerImage[1 + ((n - 1) % 4)] \in BaseNames
      <4>1. 1 + ((n - 1) % 4) \in {1, 2, 3, 4}
        OBVIOUS
      <4>2. QED
        BY <4>1 DEF PerImage, BaseNames
    <3>2. 1 + ((n - 1) \div 4) \in Nat
      OBVIOUS
    <3>3. QED
      BY <3>1, <3>2, ThingForms
  <2>2. 4 * Images \in Nat
    OBVIOUS
  <2>3. QED
    BY <2>1, <2>2
<1>3. <<<<"spare_fence">>>> \in Seq(Things(BaseNames))
  <2>1. <<"spare_fence">> \in Things(BaseNames)
    BY ThingForms DEF BaseNames
  <2>2. QED
    BY <2>1, SequencesOfThings, Zenon
<1>4. QED
  BY <1>1, <1>2, <1>3, SequencesOfThings, Zenon DEF Base

EngineParts == MadeNames \union {"device"}

LEMMA EnginePartNames ==
    {"fg", "device", "target", "luma", "flow", "flow_out", "scd_histogram", "scd_previous",
     "scd_temp", "scd_output", "color", "color_half", "output", "sampler", "cb", "descriptors",
     "sets", "direct_sets", "ingest_sets", "dump", "queries"} \subseteq EngineParts
BY DEF EngineParts, MadeNames, EngineNames, EngineRest, Image

\* The textures and the engine, part by part.
OfLevels ==
    [n \in 1 .. 4 * Levels |-> LET t == PerLevel[1 + ((n - 1) % 4)] IN <<t[1], t[2], (n - 1) \div 4>>]
Singles == <<<<"flow_out">>, <<"scd_histogram">>, <<"scd_previous">>, <<"scd_temp">>,
             <<"scd_output">>, <<"color", 0>>, <<"color", 1>>>>
Halved(w) == If(w.half /\ ~w.ingest, <<<<"color_half">>>>)
Output(w) == If(~w.direct, <<<<"output">>>>)
Opening == <<<<"fg">>, <<"device">>>>
Targets(w) == If(w.direct \/ w.ingest, [i \in ImageIndex |-> <<"target", i>>])
Closing == <<<<"sampler">>, <<"cb">>>>
AidThings(w) == If(w.aids, <<<<"dump">>, <<"queries">>>>)
EngineThing == Things(EngineParts)

LEMMA EngineForms ==
    /\ {<<"fg">>, <<"device">>, <<"flow_out">>, <<"scd_histogram">>, <<"scd_previous">>,
        <<"scd_temp">>, <<"scd_output">>, <<"color", 0>>, <<"color", 1>>, <<"color_half">>,
        <<"output">>, <<"sampler">>, <<"cb">>, <<"descriptors">>, <<"sets">>, <<"direct_sets">>,
        <<"ingest_sets">>, <<"dump">>, <<"queries">>} \subseteq EngineThing
    /\ \A i \in Nat : <<"target", i>> \in EngineThing
    /\ \A i \in Nat, j \in Nat : <<"luma", i, j>> \in EngineThing /\ <<"flow", i, j>> \in EngineThing
<1>1. \A n \in EngineParts : <<n>> \in EngineThing
  BY ThingForms DEF EngineThing
<1>2. \A n \in EngineParts, i \in Nat : <<n, i>> \in EngineThing
  BY ThingForms DEF EngineThing
<1>3. \A n \in EngineParts, i \in Nat, j \in Nat : <<n, i, j>> \in EngineThing
  BY ThingForms DEF EngineThing
<1>4. \A i \in Nat : <<"target", i>> \in EngineThing
  BY <1>2, EnginePartNames
<1>5. \A i \in Nat, j \in Nat : <<"luma", i, j>> \in EngineThing /\ <<"flow", i, j>> \in EngineThing
  BY <1>3, EnginePartNames
<1>6. <<"color", 0>> \in EngineThing /\ <<"color", 1>> \in EngineThing
  BY <1>2, EnginePartNames
<1>7. /\ <<"fg">> \in EngineThing /\ <<"device">> \in EngineThing /\ <<"flow_out">> \in EngineThing
      /\ <<"scd_histogram">> \in EngineThing /\ <<"scd_previous">> \in EngineThing
      /\ <<"scd_temp">> \in EngineThing /\ <<"scd_output">> \in EngineThing
      /\ <<"color_half">> \in EngineThing /\ <<"output">> \in EngineThing
      /\ <<"sampler">> \in EngineThing /\ <<"cb">> \in EngineThing
      /\ <<"descriptors">> \in EngineThing /\ <<"sets">> \in EngineThing
      /\ <<"direct_sets">> \in EngineThing /\ <<"ingest_sets">> \in EngineThing
      /\ <<"dump">> \in EngineThing /\ <<"queries">> \in EngineThing
  <2>. HIDE DEF EngineThing
  <2>1. QED
    BY <1>1, EnginePartNames
<1>8. QED
  BY <1>4, <1>5, <1>6, <1>7

LEMMA OfLevelsThings == OfLevels \in Seq(EngineThing)
<1> DEFINE At(n) == LET t == PerLevel[1 + ((n - 1) % 4)] IN <<t[1], t[2], (n - 1) \div 4>>
<1>1. ASSUME NEW n \in 1 .. 4 * Levels PROVE At(n) \in EngineThing
  <2>1. 1 + ((n - 1) % 4) \in {1, 2, 3, 4} /\ (n - 1) \div 4 \in Nat
    BY DEF Levels
  <2>2. \A k \in {1, 2, 3, 4} : PerLevel[k][1] \in {"luma", "flow"} /\ PerLevel[k][2] \in {0, 1}
    BY DEF PerLevel
  <2>3. QED
    BY <2>1, <2>2, EngineForms
<1>2. 4 * Levels \in Nat
  BY DEF Levels
<1> HIDE DEF At
<1>3. [n \in 1 .. 4 * Levels |-> At(n)] \in Seq(EngineThing)
  BY <1>1, <1>2
<1>4. QED
  BY <1>3 DEF At, OfLevels

LEMMA TargetThings == \A w \in Wants : Targets(w) \in Seq(EngineThing)
<1> DEFINE At(i) == <<"target", i>>
<1>1. ASSUME NEW i \in 1 .. Images PROVE At(i) \in EngineThing
  BY EngineForms
<1> HIDE DEF At
<1>2. [i \in 1 .. Images |-> At(i)] \in Seq(EngineThing) /\ <<>> \in Seq(EngineThing)
  BY <1>1
<1>3. QED
  BY <1>2, Zenon DEF At, Targets, If, ImageIndex

LEMMA PartsOfEngine ==
  ASSUME NEW w \in Wants
  PROVE  /\ OfLevels \in Seq(EngineThing) /\ Singles \in Seq(EngineThing)
         /\ Halved(w) \in Seq(EngineThing) /\ Output(w) \in Seq(EngineThing)
         /\ Opening \in Seq(EngineThing) /\ Targets(w) \in Seq(EngineThing)
         /\ Closing \in Seq(EngineThing) /\ DescriptorThings(w) \in Seq(EngineThing)
         /\ AidThings(w) \in Seq(EngineThing)
<1>1. Singles \in Seq(EngineThing)
  <2>1. \A a, b, c, d, e, f, g \in EngineThing : <<a, b, c, d, e, f, g>> \in Seq(EngineThing)
    OBVIOUS
  <2>2. /\ <<"flow_out">> \in EngineThing /\ <<"scd_histogram">> \in EngineThing
        /\ <<"scd_previous">> \in EngineThing /\ <<"scd_temp">> \in EngineThing
        /\ <<"scd_output">> \in EngineThing /\ <<"color", 0>> \in EngineThing
        /\ <<"color", 1>> \in EngineThing
    BY EngineForms
  <2>3. QED
    BY <2>1, <2>2, Zenon DEF Singles
<1>2. /\ <<"fg">> \in EngineThing /\ <<"device">> \in EngineThing /\ <<"color_half">> \in EngineThing
      /\ <<"output">> \in EngineThing /\ <<"sampler">> \in EngineThing /\ <<"cb">> \in EngineThing
      /\ <<"descriptors">> \in EngineThing /\ <<"sets">> \in EngineThing
      /\ <<"direct_sets">> \in EngineThing /\ <<"ingest_sets">> \in EngineThing
      /\ <<"dump">> \in EngineThing /\ <<"queries">> \in EngineThing
  BY EngineForms
<1>3. /\ Opening \in Seq(EngineThing) /\ Closing \in Seq(EngineThing)
      /\ Halved(w) \in Seq(EngineThing) /\ Output(w) \in Seq(EngineThing)
      /\ AidThings(w) \in Seq(EngineThing)
  BY <1>2, SequencesOfThings, Zenon DEF Opening, Closing, Halved, Output, AidThings, If
<1>4. DescriptorThings(w) \in Seq(EngineThing)
  BY <1>2, SequencesOfThings, Zenon DEF DescriptorThings, If
<1>5. QED
  BY <1>1, <1>3, <1>4, OfLevelsThings, TargetThings, Zenon

LEMMA EngineInParts ==
    \A w \in Wants :
        /\ Textures(w) = ((OfLevels \o Singles) \o Halved(w)) \o Output(w)
        /\ Engine(w) = ((((Opening \o Targets(w)) \o Textures(w)) \o Closing) \o DescriptorThings(w))
                       \o AidThings(w)
BY Zenon DEF Textures, Engine, OfLevels, Singles, Halved, Output, Opening, Targets, Closing, AidThings

LEMMA EngineThings ==
    \A w \in Wants : Textures(w) \in Seq(EngineThing) /\ Engine(w) \in Seq(EngineThing)
<1> SUFFICES ASSUME NEW w \in Wants
             PROVE  Textures(w) \in Seq(EngineThing) /\ Engine(w) \in Seq(EngineThing)
  OBVIOUS
<1>1. \A s \in Seq(EngineThing), t \in Seq(EngineThing) : s \o t \in Seq(EngineThing)
  BY SequencesOfThings
<1>2. ((OfLevels \o Singles) \o Halved(w)) \o Output(w) \in Seq(EngineThing)
  BY <1>1, PartsOfEngine, Zenon
<1>3. Textures(w) \in Seq(EngineThing)
  BY <1>2, EngineInParts, Zenon
<1>4. ((((Opening \o Targets(w)) \o Textures(w)) \o Closing) \o DescriptorThings(w)) \o AidThings(w)
      \in Seq(EngineThing)
  <2>1. (Opening \o Targets(w)) \o Textures(w) \in Seq(EngineThing)
    BY <1>1, <1>3, PartsOfEngine, Zenon
  <2>2. (((Opening \o Targets(w)) \o Textures(w)) \o Closing) \o DescriptorThings(w) \in Seq(EngineThing)
    BY <1>1, <2>1, PartsOfEngine, Zenon
  <2>3. QED
    BY <1>1, <2>2, PartsOfEngine, Zenon
<1>5. QED
  BY <1>3, <1>4, EngineInParts, Zenon

LEMMA ListThings ==
  ASSUME NEW w \in Wants
  PROVE  /\ Len(Base) \in Nat /\ Len(Engine(w)) \in Nat
         /\ DOMAIN Base = 1 .. Len(Base) /\ DOMAIN Engine(w) = 1 .. Len(Engine(w))
         /\ Len(List(w)) = Len(Base) + IF w.interpolate THEN Len(Engine(w)) ELSE 0
         /\ \A n \in 1 .. Len(Base) : List(w)[n] = Base[n] /\ Base[n][1] \in BaseNames
         /\ \A n \in 1 .. Len(Engine(w)) : Engine(w)[n][1] \in EngineParts
         /\ w.interpolate =>
                \A n \in 1 .. Len(Engine(w)) : List(w)[Len(Base) + n] = Engine(w)[n]
<1>1. Base \in Seq(Things(BaseNames)) /\ Engine(w) \in Seq(Things(EngineParts))
  BY BaseThings, EngineThings DEF EngineThing
<1>2. \A n \in 1 .. Len(Base) : Base[n][1] \in BaseNames
  BY <1>1, ThingNamed
<1>3. \A n \in 1 .. Len(Engine(w)) : Engine(w)[n][1] \in EngineParts
  BY <1>1, ThingNamed
<1> DEFINE Both == Things(BaseNames \union EngineParts)
<1>4. Things(BaseNames) \subseteq Both /\ Things(EngineParts) \subseteq Both
  BY MoreThings
<1> HIDE DEF Both
<1>5. Base \in Seq(Both) /\ Engine(w) \in Seq(Both) /\ <<>> \in Seq(Both)
  BY <1>1, <1>4
<1>6. CASE w.interpolate
  <2>1. List(w) = Base \o Engine(w)
    BY <1>6 DEF List, If
  <2>2. QED
    BY <1>2, <1>3, <1>5, <1>6, <2>1
<1>7. CASE ~w.interpolate
  <2>1. List(w) = Base \o <<>>
    BY <1>7 DEF List, If
  <2>2. QED
    BY <1>2, <1>3, <1>5, <1>7, <2>1
<1>8. QED
  BY <1>6, <1>7

-----------------------------------------------------------------------------
\* The handles of a thing carry its name, and what is only asked has none.
LEMMA HandlesNamed ==
  ASSUME NEW t, NEW h \in Handles(t)
  PROVE  h[1] = t /\ t[1] \notin Asked
<1>1. h[1] = t
  BY DEF Handles
<1>2. t[1] \notin Asked
  <2>1. t[1] \in Asked => Parts(t) = <<>>
    BY DEF Asked, Parts, Image
  <2>2. DOMAIN <<>> = {}
    OBVIOUS
  <2>3. QED
    BY <2>1, <2>2 DEF Handles
<1>3. QED
  BY <1>1, <1>2

LEMMA LeftoversOwn ==
  ASSUME NEW t, NEW left \in Leftovers(t), NEW h \in left
  PROVE  h[1] = t /\ t[1] \notin Asked
<1>1. CASE t[1] = "arrays"
  <2>1. h \in Handles(t)
    BY <1>1 DEF Leftovers
  <2>2. QED
    BY <2>1, HandlesNamed
<1>2. CASE t[1] = "queries"
  BY <1>2 DEF Leftovers, Asked
<1>3. CASE t[1] # "arrays" /\ t[1] # "queries"
  <2>1. PICK m \in {0} \union (1 .. Len(Parts(t)) - 1)
                  \union (IF t[1] \in MaybeWhole THEN {Len(Parts(t))} ELSE {}) :
            left = {<<t, Parts(t)[n]>> : n \in 1 .. m}
    BY <1>3 DEF Leftovers
  <2>2. t[1] \in Asked => m = 0
    BY DEF Asked, Parts, Image, MaybeWhole
  <2>3. QED
    BY <2>1, <2>2
<1>4. QED
  BY <1>1, <1>2, <1>3

-----------------------------------------------------------------------------
Stages == {"ask", "making", "engine failed", "failed", "up", "released", "gone"}
Creating == {"making", "engine failed"}
Own == TheSwapchain \union TheRecord

ResourceTypes ==
    /\ wants \in Wants /\ progress \in Stages /\ done \in 0 .. Len(List(wants))
    /\ generating \in BOOLEAN /\ drew \in BOOLEAN
    /\ progress = "ask" => done = 0 /\ ~generating

\* What exists is what the layer holds; it is all of the teardown's names, and
\* while the list is made all of the list's.
Accounted ==
    /\ held = alive
    /\ \A h \in alive : h \in Own \/ h[1][1] \in TeardownNames
    /\ progress \in Creating => \A h \in alive : h \in Own \/ h[1][1] \in BaseNames \union MadeNames
    /\ progress = "released" => alive \subseteq Own
    /\ progress \in {"ask", "gone"} => alive = {}

BaseMade(m) == \A n \in 1 .. Len(Base) : n =< m => Exists(Base[n])
EngineMade(m) ==
    \A n \in 1 .. Len(Engine(wants)) :
        Len(Base) + n =< m => Engine(wants)[n][1] \in Aids \/ Exists(Engine(wants)[n])

\* The list's things exist as far as the making has come, unless the engine was
\* given back; a swapchain that generates has what it generates with.
Whole ==
    /\ progress \in Creating => BaseMade(done) /\ (HaveEngine => wants.interpolate)
    /\ progress = "engine failed" => done >= Len(Base)
    /\ progress = "making" => EngineMade(done) \/ (done = Len(List(wants)) /\ ~HaveEngine)
    /\ progress = "up" /\ generating =>
           /\ BaseMade(Len(Base))
           /\ IF HaveEngine THEN EngineWhole ELSE Exists(<<"history">>)
           /\ HavePool => Cmds(Images) \subseteq alive /\ stamped = ImageIndex
    /\ drew => progress = "up" /\ generating /\ HavePool

ResourcesInv == ResourceTypes /\ Accounted /\ Whole

LEMMA NamesApart ==
    /\ BaseNames \ Asked \subseteq TeardownNames /\ MadeNames \subseteq TeardownNames
    /\ BaseNames \intersect EngineNames = {} /\ "fg" \notin BaseNames /\ "fg" \in EngineNames
    /\ BaseNames \intersect Aids = {} /\ "fg" \notin Aids
    /\ "pool" \notin BaseNames \union MadeNames
    /\ {"pool", "cmd", "secondaries", "history"} \subseteq TeardownNames
    /\ \A h \in Own : h[1][1] \in {"swapchain", "sc"}
BY DEF BaseNames, Asked, TeardownNames, MadeNames, EngineNames, EngineRest, Image, Aids, Own,
   TheSwapchain, TheRecord

\* The next thing of the list is one of what a swapchain always has, or of the
\* engine it wants.
LEMMA NextThing ==
  ASSUME ResourceTypes, Making
  PROVE  /\ ~InEngine => This = Base[done + 1] /\ done + 1 \in 1 .. Len(Base)
                         /\ This[1] \in BaseNames
         /\ InEngine => /\ wants.interpolate /\ done + 1 - Len(Base) \in 1 .. Len(Engine(wants))
                        /\ This = Engine(wants)[done + 1 - Len(Base)] /\ This[1] \in EngineParts
         /\ This[1] \notin Asked => This[1] \in (BaseNames \union MadeNames) \intersect TeardownNames
<1>1. wants \in Wants /\ done \in Nat /\ done < Len(List(wants))
  BY ListThings DEF ResourceTypes, Making
<1>2. CASE ~InEngine
  <2>1. done + 1 \in 1 .. Len(Base)
    BY <1>1, <1>2, ListThings DEF InEngine
  <2>2. This = Base[done + 1] /\ This[1] \in BaseNames
    BY <1>1, <2>1, ListThings DEF This
  <2>3. QED
    BY <1>2, <2>1, <2>2, NamesApart
<1>3. CASE InEngine
  <2> DEFINE n == done + 1 - Len(Base)
  <2>1. wants.interpolate /\ n \in 1 .. Len(Engine(wants)) /\ done + 1 = Len(Base) + n
    BY <1>1, <1>3, ListThings DEF InEngine
  <2>2. This = Engine(wants)[n] /\ This[1] \in EngineParts
    <3>1. List(wants)[Len(Base) + n] = Engine(wants)[n]
      BY <1>1, <2>1, ListThings
    <3>2. QED
      BY <1>1, <2>1, <3>1, ListThings DEF This
  <2>3. EngineParts \ Asked \subseteq MadeNames
    BY DEF EngineParts, Asked
  <2>4. QED
    BY <1>3, <2>1, <2>2, <2>3, NamesApart
<1>4. QED
  BY <1>2, <1>3

\* Nothing made is lost while only more is kept.
LEMMA MoreIsKept ==
  ASSUME NEW more, Keep(more)
  PROVE  /\ alive \subseteq alive'
         /\ \A t : Exists(t) => Handles(t) \subseteq alive'
         /\ held = alive => held' = alive'
BY DEF Keep, Exists

\* What a call for the next thing leaves is the list's, and it is the engine's
\* record only in the engine.
LEMMA NextKept ==
  ASSUME ResourcesInv, Making, NEW more, Keep(more),
         \A h \in more : h[1] = This /\ This[1] \notin Asked
  PROVE  /\ held' = alive'
         /\ \A h \in alive' : h \in Own \/ h[1][1] \in TeardownNames
         /\ \A h \in alive' : h \in Own \/ h[1][1] \in BaseNames \union MadeNames
         /\ HaveEngine' => wants.interpolate
<1>1. ResourceTypes /\ progress = "making" /\ held = alive
  BY DEF ResourcesInv, Accounted, Making
<1>2. \A h \in alive : h \in Own \/ h[1][1] \in TeardownNames
  BY DEF ResourcesInv, Accounted
<1>3. \A h \in alive : h \in Own \/ h[1][1] \in BaseNames \union MadeNames
  BY <1>1 DEF ResourcesInv, Accounted, Creating
<1>4. \A h \in more : h[1][1] \in TeardownNames /\ h[1][1] \in BaseNames \union MadeNames
  BY <1>1, NextThing
<1>5. alive' = alive \union more /\ held' = held \union more
  BY DEF Keep
<1>6. HaveEngine' => wants.interpolate
  <2>1. ASSUME <<<<"fg">>, "handle">> \in more PROVE wants.interpolate
    <3>1. This[1] = "fg"
      <4>1. This = <<"fg">>
        BY <2>1
      <4>2. QED
        BY <4>1
    <3>2. QED
      BY <1>1, <3>1, NextThing, NamesApart
  <2>2. HaveEngine => wants.interpolate
    BY <1>1 DEF ResourcesInv, Whole, Creating
  <2>3. QED
    BY <1>5, <2>1, <2>2 DEF HaveEngine
<1>7. QED
  BY <1>1, <1>2, <1>3, <1>4, <1>5, <1>6

LEMMA StartResources == ResourcesInit => ResourcesInv
<1> SUFFICES ASSUME ResourcesInit PROVE ResourcesInv
  OBVIOUS
<1>1. wants \in Wants /\ Len(List(wants)) \in Nat
  BY ListThings DEF ResourcesInit
<1>2. ResourceTypes
  <2>1. progress = "ask" /\ done = 0 /\ generating = FALSE /\ drew = FALSE
    BY DEF ResourcesInit
  <2>2. done \in 0 .. Len(List(wants))
    BY <1>1, <2>1
  <2>3. QED
    BY <1>1, <2>1, <2>2, Zenon DEF ResourceTypes, Stages
<1>3. Accounted
  BY DEF ResourcesInit, Accounted, Creating
<1>4. Whole
  <2>1. progress = "ask" /\ ~drew
    BY DEF ResourcesInit
  <2>2. QED
    BY <2>1 DEF Whole, Creating
<1>5. QED
  BY <1>2, <1>3, <1>4 DEF ResourcesInv

LEMMA MakeThingKeeps == ResourcesInv /\ MakeThing => ResourcesInv'
<1> SUFFICES ASSUME ResourcesInv, MakeThing PROVE ResourcesInv'
  OBVIOUS
<1>1. /\ Making /\ Keep(Handles(This)) /\ done' = done + 1
      /\ UNCHANGED <<wants, progress, generating, poolFamily, stamped, drew>>
  BY DEF MakeThing
<1>2. /\ ResourceTypes /\ progress = "making" /\ done \in Nat /\ done < Len(List(wants))
      /\ wants \in Wants
  BY <1>1, ListThings DEF ResourcesInv, ResourceTypes, Making
<1>3. ResourceTypes'
  BY <1>1, <1>2, ListThings DEF ResourceTypes, Stages
<1>4. \A h \in Handles(This) : h[1] = This /\ This[1] \notin Asked
  BY HandlesNamed
<1>5. Accounted' /\ (HaveEngine' => wants.interpolate)
  BY <1>1, <1>2, <1>4, NextKept DEF Accounted
<1>6. Handles(This) \subseteq alive' /\ \A t : Exists(t) => Handles(t) \subseteq alive'
  BY <1>1, MoreIsKept DEF Keep
<1>7. BaseMade(done)'
  <2>1. ASSUME NEW n \in 1 .. Len(Base), n =< done + 1 PROVE Handles(Base[n]) \subseteq alive'
    <3>1. CASE n =< done
      BY <1>2, <1>6, <3>1 DEF ResourcesInv, Whole, Creating, BaseMade
    <3>2. CASE n = done + 1
      BY <1>1, <1>2, <1>6, <3>2, NextThing, ListThings DEF InEngine
    <3>3. QED
      BY <1>2, <2>1, <3>1, <3>2, ListThings
  <2>2. QED
    BY <1>1, <2>1 DEF BaseMade, Exists
<1>8. EngineMade(done)'
  <2>1. EngineMade(done)
    BY <1>2 DEF ResourcesInv, Whole
  <2>2. ASSUME NEW n \in 1 .. Len(Engine(wants)), Len(Base) + n =< done + 1
        PROVE  Engine(wants)[n][1] \in Aids \/ Handles(Engine(wants)[n]) \subseteq alive'
    <3>1. CASE Len(Base) + n =< done
      BY <1>6, <2>1, <3>1 DEF EngineMade
    <3>2. CASE Len(Base) + n = done + 1
      <4>1. InEngine /\ n = done + 1 - Len(Base)
        BY <1>2, <3>2, ListThings DEF InEngine
      <4>2. This = Engine(wants)[n]
        BY <1>1, <1>2, <4>1, NextThing
      <4>3. QED
        BY <1>6, <4>2
    <3>3. QED
      BY <1>2, <2>2, <3>1, <3>2, ListThings
  <2>3. QED
    BY <1>1, <2>2 DEF EngineMade, Exists
<1>9. Whole'
  <2>1. progress' = "making" /\ wants' = wants
    BY <1>1, <1>2
  <2>2. ~drew'
    BY <1>1, <1>2 DEF Whole, ResourcesInv
  <2>3. QED
    BY <1>5, <1>7, <1>8, <2>1, <2>2, Zenon DEF Whole, Creating
<1>10. QED
  BY <1>3, <1>5, <1>9 DEF ResourcesInv

LEMMA ThingFailsKeeps == ResourcesInv /\ ThingFails => ResourcesInv'
<1> SUFFICES ASSUME ResourcesInv, ThingFails PROVE ResourcesInv'
  OBVIOUS
<1>1. PICK left \in Leftovers(This) : Keep(left)
  BY DEF ThingFails
<1>2. Making /\ UNCHANGED <<wants, generating, poolFamily, stamped, drew>>
  BY DEF ThingFails
<1>3. /\ ResourceTypes /\ progress = "making" /\ done \in Nat /\ done < Len(List(wants))
      /\ wants \in Wants /\ ~drew
  BY <1>2, ListThings DEF ResourcesInv, ResourceTypes, Making, Whole
<1>4. \A h \in left : h[1] = This /\ This[1] \notin Asked
  BY <1>1, LeftoversOwn
<1>5. /\ held' = alive'
      /\ \A h \in alive' : h \in Own \/ h[1][1] \in TeardownNames
      /\ \A h \in alive' : h \in Own \/ h[1][1] \in BaseNames \union MadeNames
      /\ HaveEngine' => wants.interpolate
  BY <1>1, <1>2, <1>4, NextKept
<1>6. \A t : Exists(t) => Handles(t) \subseteq alive'
  BY <1>1, MoreIsKept
<1>7. BaseMade(done)
  BY <1>3 DEF ResourcesInv, Whole, Creating
<1>8. CASE This[1] \in Aids /\ done' = done + 1 /\ UNCHANGED progress
  <2>1. ResourceTypes'
    BY <1>2, <1>3, <1>8, ListThings DEF ResourceTypes, Stages
  <2>2. Accounted'
    BY <1>3, <1>5, <1>8 DEF Accounted
  <2>3. InEngine
    BY <1>2, <1>3, <1>8, NextThing, NamesApart
  <2>4. BaseMade(done)'
    <3>1. ASSUME NEW n \in 1 .. Len(Base) PROVE Handles(Base[n]) \subseteq alive'
      <4>1. n =< done
        BY <1>3, <2>3, ListThings DEF InEngine
      <4>2. QED
        BY <1>6, <1>7, <4>1 DEF BaseMade
    <3>2. QED
      BY <3>1 DEF BaseMade, Exists
  <2>5. EngineMade(done)'
    <3>1. EngineMade(done)
      BY <1>3 DEF ResourcesInv, Whole
    <3>2. ASSUME NEW n \in 1 .. Len(Engine(wants)), Len(Base) + n =< done + 1
          PROVE  Engine(wants)[n][1] \in Aids \/ Handles(Engine(wants)[n]) \subseteq alive'
      <4>1. CASE Len(Base) + n =< done
        BY <1>6, <3>1, <4>1 DEF EngineMade
      <4>2. CASE Len(Base) + n = done + 1
        <5>1. n = done + 1 - Len(Base)
          BY <1>3, <4>2, ListThings
        <5>2. This = Engine(wants)[n]
          BY <1>2, <1>3, <2>3, <5>1, NextThing
        <5>3. QED
          BY <1>8, <5>2
      <4>3. QED
        BY <1>3, <3>2, <4>1, <4>2, ListThings
    <3>3. QED
      BY <1>2, <1>8, <3>2 DEF EngineMade, Exists
  <2>6. Whole'
    <3>1. progress' = "making" /\ wants' = wants /\ ~drew'
      BY <1>2, <1>3, <1>8
    <3>2. QED
      BY <1>5, <2>4, <2>5, <3>1, Zenon DEF Whole, Creating
  <2>7. QED
    BY <2>1, <2>2, <2>6 DEF ResourcesInv
<1>9. CASE InEngine /\ progress' = "engine failed" /\ UNCHANGED done
  <2>1. ResourceTypes'
    BY <1>2, <1>3, <1>9 DEF ResourceTypes, Stages
  <2>2. Accounted'
    BY <1>5, <1>9 DEF Accounted
  <2>3. BaseMade(done)'
    BY <1>6, <1>7, <1>9 DEF BaseMade, Exists
  <2>4. Whole'
    <3>1. progress' = "engine failed" /\ wants' = wants /\ ~drew' /\ done' >= Len(Base)
      BY <1>2, <1>3, <1>9 DEF InEngine
    <3>2. QED
      BY <1>5, <2>3, <3>1, Zenon DEF Whole, Creating
  <2>5. QED
    BY <2>1, <2>2, <2>4 DEF ResourcesInv
<1>10. CASE ~InEngine /\ progress' = "failed" /\ UNCHANGED done
  <2>1. ResourceTypes'
    BY <1>2, <1>3, <1>10 DEF ResourceTypes, Stages
  <2>2. Accounted'
    BY <1>5, <1>10 DEF Accounted, Creating
  <2>3. Whole'
    <3>1. progress' = "failed" /\ ~drew'
      BY <1>2, <1>3, <1>10
    <3>2. QED
      BY <3>1 DEF Whole, Creating
  <2>4. QED
    BY <2>1, <2>2, <2>3 DEF ResourcesInv
<1>11. QED
  BY <1>8, <1>9, <1>10 DEF ThingFails

LEMMA GiveUpEngineKeeps == ResourcesInv /\ GiveUpEngine => ResourcesInv'
<1> SUFFICES ASSUME ResourcesInv, GiveUpEngine PROVE ResourcesInv'
  OBVIOUS
<1>1. /\ progress = "engine failed" /\ DestroyEngine
      /\ progress' = "making" /\ done' = Len(List(wants))
      /\ UNCHANGED <<wants, generating, poolFamily, stamped, drew>>
  BY DEF GiveUpEngine
<1>2. /\ ResourceTypes /\ wants \in Wants /\ done \in Nat
      /\ held = alive /\ Len(List(wants)) \in Nat
  BY ListThings DEF ResourcesInv, ResourceTypes, Accounted
<1>10. done >= Len(Base) /\ ~drew
  BY <1>1 DEF ResourcesInv, Whole
<1>3. ResourceTypes'
  <2>1. done' \in 0 .. Len(List(wants)) /\ wants' = wants /\ wants' \in Wants
    <3>1. \A k \in Nat : k \in 0 .. k
      OBVIOUS
    <3>2. Len(List(wants)) \in 0 .. Len(List(wants))
      BY <1>2, <3>1, Zenon
    <3>3. QED
      BY <1>1, <1>2, <3>2, Zenon
  <2>2. done' \in 0 .. Len(List(wants'))
    BY <2>1, Zenon
  <2>3. progress' = "making" /\ generating' \in BOOLEAN /\ drew' \in BOOLEAN
    BY <1>1, <1>2 DEF ResourceTypes
  <2>4. QED
    BY <2>1, <2>2, <2>3, Zenon DEF ResourceTypes, Stages
<1>4. alive' \subseteq alive /\ held' = alive'
      /\ \A h \in alive : h \in alive' <=> h[1][1] \notin EngineNames
  BY <1>1, <1>2 DEF DestroyEngine, Named
<1>5. Accounted'
  BY <1>1, <1>4 DEF Accounted, Creating, ResourcesInv
<1>6. ~HaveEngine'
  <2>1. <<<<"fg">>, "handle">> \notin alive'
    BY <1>4, NamesApart
  <2>2. QED
    BY <1>4, <2>1 DEF HaveEngine
<1>7. BaseMade(done)'
  <2>1. ASSUME NEW n \in 1 .. Len(Base) PROVE Handles(Base[n]) \subseteq alive'
    <3>1. Handles(Base[n]) \subseteq alive
      <4>1. n =< done
        BY <1>2, <1>10, ListThings
      <4>2. QED
        BY <1>1, <4>1 DEF ResourcesInv, Whole, Creating, BaseMade, Exists
    <3>2. Base[n][1] \notin EngineNames
      BY <1>2, ListThings, NamesApart
    <3>3. \A h \in Handles(Base[n]) : h[1] = Base[n]
      BY HandlesNamed
    <3>4. QED
      BY <1>4, <3>1, <3>2, <3>3
  <2>2. QED
    BY <2>1 DEF BaseMade, Exists
<1>8. Whole'
  <2>1. wants' = wants /\ ~drew'
    BY <1>1, <1>10
  <2>2. QED
    BY <1>1, <1>6, <1>7, <2>1, Zenon DEF Whole, Creating
<1>9. QED
  BY <1>3, <1>5, <1>8 DEF ResourcesInv

-----------------------------------------------------------------------------
LEMMA TypesStay ==
  ASSUME ResourceTypes, UNCHANGED <<wants, done>>, progress' \in Stages \ {"ask"},
         generating' \in BOOLEAN, drew' \in BOOLEAN
  PROVE  ResourceTypes'
<1>1. done' \in 0 .. Len(List(wants')) /\ wants' \in Wants
  BY Zenon DEF ResourceTypes
<1>2. QED
  BY <1>1, Zenon DEF ResourceTypes

\* A swapchain that neither is being made nor generates promises nothing.
LEMMA Quiet ==
  ASSUME progress' \in Stages \ Creating, progress' = "up" => ~generating', ~drew'
  PROVE  Whole'
BY Zenon DEF Whole, Creating, Stages

LEMMA BeginKeeps == ResourcesInv /\ BeginSwapchain => ResourcesInv'
<1> SUFFICES ASSUME ResourcesInv, BeginSwapchain PROVE ResourcesInv'
  OBVIOUS
<1>1. /\ progress = "ask" /\ alive' = Own /\ held' = alive'
      /\ UNCHANGED <<wants, done, poolFamily, stamped, drew>>
  BY DEF BeginSwapchain, Own
<1>2. ResourceTypes /\ done = 0 /\ ~generating /\ wants \in Wants
  BY <1>1 DEF ResourcesInv, ResourceTypes
<1>3. ~drew
  BY <1>1 DEF ResourcesInv, Whole
<1>4. /\ progress' \in {"making", "up"} /\ generating' \in BOOLEAN
      /\ progress' = "up" => ~generating'
  <2>1. \/ progress' = "making" /\ generating' = TRUE
        \/ progress' = "up" /\ generating' = generating
    BY DEF BeginSwapchain
  <2>2. generating = FALSE
    BY <1>2, Zenon DEF ResourceTypes
  <2>3. QED
    BY <2>1, <2>2
<1>5. ResourceTypes'
  <2>1. progress' \in Stages \ {"ask"} /\ drew' \in BOOLEAN
    BY <1>1, <1>2, <1>4 DEF Stages, ResourceTypes
  <2>2. QED
    BY <1>1, <1>2, <1>4, <2>1, TypesStay
<1>6. Accounted'
  BY <1>1, <1>4 DEF Accounted
<1>7. CASE progress' = "up"
  BY <1>1, <1>3, <1>4, <1>5, <1>6, <1>7, Quiet DEF ResourcesInv, Stages, Creating
<1>8. CASE progress' = "making"
  <2>1. BaseMade(done)' /\ EngineMade(done)'
    <3>1. Len(Base) \in Nat /\ done' = 0 /\ wants' = wants
      BY <1>1, <1>2, ListThings
    <3>2. QED
      BY <3>1 DEF BaseMade, EngineMade
  <2>2. ~HaveEngine'
    <3>1. <<<<"fg">>, "handle">> \notin Own
      BY NamesApart
    <3>2. QED
      BY <1>1, <3>1 DEF HaveEngine
  <2>3. Whole'
    <3>1. ~drew'
      BY <1>1, <1>3
    <3>2. QED
      BY <1>8, <2>1, <2>2, <3>1, Zenon DEF Whole, Creating
  <2>4. QED
    BY <1>5, <1>6, <2>3 DEF ResourcesInv
<1>9. QED
  BY <1>4, <1>7, <1>8

LEMMA MadeWithEngineKeeps == ResourcesInv /\ MadeWithEngine => ResourcesInv'
<1> SUFFICES ASSUME ResourcesInv, MadeWithEngine PROVE ResourcesInv'
  OBVIOUS
<1>1. /\ progress = "making" /\ done = Len(List(wants)) /\ HaveEngine /\ progress' = "up"
      /\ UNCHANGED <<wants, done, alive, held, generating, poolFamily, stamped, drew>>
  BY DEF MadeWithEngine, Made
<1>2. ResourceTypes /\ wants \in Wants /\ generating \in BOOLEAN /\ drew \in BOOLEAN
  BY DEF ResourcesInv, ResourceTypes
<1>3. /\ BaseMade(done) /\ wants.interpolate /\ EngineMade(done) /\ ~drew
  BY <1>1 DEF ResourcesInv, Whole, Creating
<1>4. ResourceTypes'
  <2>1. progress' \in Stages \ {"ask"} /\ generating' \in BOOLEAN /\ drew' \in BOOLEAN
    BY <1>1, <1>2 DEF Stages
  <2>2. QED
    BY <1>1, <1>2, <2>1, TypesStay
<1>5. Accounted'
  BY <1>1 DEF ResourcesInv, Accounted, Creating
<1>6. BaseMade(Len(Base))'
  <2>1. \A n \in 1 .. Len(Base) : n =< done
    BY <1>1, <1>2, <1>3, ListThings
  <2>2. QED
    BY <1>1, <1>3, <2>1 DEF BaseMade, Exists
<1>7. EngineWhole'
  <2>1. \A n \in 1 .. Len(Engine(wants)) : Len(Base) + n =< done
    BY <1>1, <1>2, <1>3, ListThings
  <2>2. EngineWhole
    BY <1>2, <1>3, <2>1, ListThings DEF EngineMade, EngineWhole
  <2>3. QED
    BY <1>1, <2>2 DEF EngineWhole, Exists
<1>8. ~HavePool'
  <2>1. <<<<"pool">>, "handle">> \notin held
    BY <1>1, NamesApart DEF ResourcesInv, Accounted, Creating
  <2>2. QED
    BY <1>1, <2>1 DEF HavePool, ThePool
<1>9. Whole'
  <2>1. HaveEngine' /\ ~drew'
    BY <1>1, <1>3 DEF HaveEngine
  <2>2. QED
    BY <1>1, <1>6, <1>7, <1>8, <2>1, Zenon DEF Whole, Creating
<1>10. QED
  BY <1>4, <1>5, <1>9 DEF ResourcesInv

LEMMA MakeHistoryKeeps == ResourcesInv /\ MakeHistory => ResourcesInv'
<1> SUFFICES ASSUME ResourcesInv, MakeHistory PROVE ResourcesInv'
  OBVIOUS
<1> DEFINE thing == <<"history">>
<1>1. /\ progress = "making" /\ done = Len(List(wants)) /\ ~HaveEngine
      /\ UNCHANGED <<wants, done, generating, poolFamily, stamped, drew>>
  BY DEF MakeHistory, Made
<1>2. PICK more : /\ Keep(more) /\ \A h \in more : h[1] = thing
                  /\ \/ more = Handles(thing) /\ progress' = "up"
                     \/ progress' = "failed"
  <2>1. CASE Keep(Handles(thing)) /\ progress' = "up"
    BY <2>1, HandlesNamed
  <2>2. CASE (\E left \in Leftovers(thing) : Keep(left)) /\ progress' = "failed"
    BY <2>2, LeftoversOwn
  <2>3. QED
    BY <2>1, <2>2 DEF MakeHistory
<1>3. ResourceTypes /\ wants \in Wants /\ generating \in BOOLEAN /\ drew \in BOOLEAN
  BY DEF ResourcesInv, ResourceTypes
<1>4. BaseMade(done) /\ ~drew
  BY <1>1 DEF ResourcesInv, Whole, Creating
<1>5. ResourceTypes'
  <2>1. progress' \in Stages \ {"ask"} /\ generating' \in BOOLEAN /\ drew' \in BOOLEAN
    BY <1>1, <1>2, <1>3 DEF Stages
  <2>2. QED
    BY <1>1, <1>3, <2>1, TypesStay
<1>6. alive' = alive \union more /\ held' = held \union more /\ held = alive
  BY <1>2 DEF Keep, ResourcesInv, Accounted
<1>7. \A h \in more : h[1][1] = "history"
  BY <1>2
<1>8. Accounted'
  <2>1. \A h \in alive' : h \in Own \/ h[1][1] \in TeardownNames
    BY <1>6, <1>7, NamesApart DEF ResourcesInv, Accounted
  <2>2. QED
    BY <1>2, <1>6, <2>1 DEF Accounted, Creating
<1>9. CASE progress' = "failed"
  BY <1>1, <1>4, <1>5, <1>8, <1>9, Quiet DEF ResourcesInv, Stages, Creating
<1>10. CASE more = Handles(thing) /\ progress' = "up"
  <2>1. BaseMade(Len(Base))'
    <3>1. \A n \in 1 .. Len(Base) : n =< done
      BY <1>1, <1>3, ListThings
    <3>2. QED
      BY <1>4, <1>6, <3>1 DEF BaseMade, Exists
  <2>2. ~HaveEngine'
    <3>1. <<<<"fg">>, "handle">> \notin more
      BY <1>7
    <3>2. QED
      BY <1>1, <1>6, <3>1 DEF HaveEngine
  <2>3. Exists(thing)'
    BY <1>6, <1>10 DEF Exists
  <2>4. ~HavePool'
    <3>1. <<<<"pool">>, "handle">> \notin held
      BY <1>1, NamesApart DEF ResourcesInv, Accounted, Creating
    <3>2. <<<<"pool">>, "handle">> \notin more
      BY <1>7
    <3>3. QED
      BY <1>6, <3>1, <3>2 DEF HavePool, ThePool
  <2>5. ~drew'
    BY <1>1, <1>4
  <2>6. Whole'
    BY <1>10, <2>1, <2>2, <2>3, <2>4, <2>5, Zenon DEF Whole, Creating
  <2>7. QED
    BY <1>5, <1>8, <2>6 DEF ResourcesInv
<1>11. QED
  BY <1>2, <1>9, <1>10

LEMMA GiveUpKeeps == ResourcesInv /\ GiveUp => ResourcesInv'
<1> SUFFICES ASSUME ResourcesInv, GiveUp PROVE ResourcesInv'
  OBVIOUS
<1>1. /\ progress = "failed" /\ Teardown /\ progress' = "up" /\ generating' = FALSE
      /\ UNCHANGED <<wants, done, poolFamily, drew>>
  BY DEF GiveUp, Teardown
<1>2. ResourceTypes /\ drew \in BOOLEAN
  BY DEF ResourcesInv, ResourceTypes
<1>3. ~drew
  BY <1>1 DEF ResourcesInv, Whole
<1>4. ResourceTypes'
  <2>1. progress' \in Stages \ {"ask"} /\ generating' \in BOOLEAN /\ drew' \in BOOLEAN
    BY <1>1, <1>2 DEF Stages
  <2>2. QED
    BY <1>1, <1>2, <2>1, TypesStay
<1>5. Accounted'
  BY <1>1 DEF Teardown, Forgotten, Named, ResourcesInv, Accounted, Creating
<1>6. Whole'
  BY <1>1, <1>3, Quiet DEF Stages, Creating
<1>7. QED
  BY <1>4, <1>5, <1>6 DEF ResourcesInv

LEMMA EndKeeps == ResourcesInv /\ (EndSwapchain \/ FreeSwapchain \/ NoSwapchain) => ResourcesInv'
<1> SUFFICES ASSUME ResourcesInv, EndSwapchain \/ FreeSwapchain \/ NoSwapchain
             PROVE  ResourcesInv'
  OBVIOUS
<1>1. ResourceTypes /\ generating \in BOOLEAN /\ drew \in BOOLEAN
  BY DEF ResourcesInv, ResourceTypes
<1>2. CASE EndSwapchain
  <2>1. /\ Teardown /\ progress' = "released" /\ generating' = FALSE /\ drew' = FALSE
        /\ UNCHANGED <<wants, done>>
    BY <1>2 DEF EndSwapchain, Teardown
  <2>2. ResourceTypes'
    BY <1>1, <2>1, TypesStay DEF Stages
  <2>3. Accounted'
    <3>1. alive' = {h \in alive : h[1][1] \notin TeardownNames} /\ held' = alive'
      BY <2>1 DEF Teardown, Forgotten, Named, ResourcesInv, Accounted
    <3>2. alive' \subseteq Own
      BY <3>1 DEF ResourcesInv, Accounted
    <3>3. QED
      BY <2>1, <3>1, <3>2 DEF Accounted, Creating
  <2>4. Whole'
    BY <2>1, Quiet DEF Stages, Creating
  <2>5. QED
    BY <2>2, <2>3, <2>4 DEF ResourcesInv
<1>3. CASE FreeSwapchain
  <2>1. /\ progress = "released" /\ alive' = alive \ Own /\ held' = {} /\ progress' = "gone"
        /\ UNCHANGED <<wants, done, generating, poolFamily, stamped, drew>>
    BY <1>3 DEF FreeSwapchain, Own
  <2>2. alive' = {}
    BY <2>1 DEF ResourcesInv, Accounted
  <2>3. ~drew
    BY <2>1 DEF ResourcesInv, Whole
  <2>4. ResourceTypes'
    BY <1>1, <2>1, TypesStay DEF Stages
  <2>5. Accounted'
    BY <2>1, <2>2 DEF Accounted, Creating
  <2>6. Whole'
    BY <2>1, <2>3, Quiet DEF Stages, Creating
  <2>7. QED
    BY <2>4, <2>5, <2>6 DEF ResourcesInv
<1>4. CASE NoSwapchain
  <2>1. /\ progress = "ask" /\ progress' = "gone"
        /\ UNCHANGED <<wants, done, alive, held, generating, poolFamily, stamped, drew>>
    BY <1>4 DEF NoSwapchain
  <2>2. ~drew
    BY <2>1 DEF ResourcesInv, Whole
  <2>3. ResourceTypes'
    BY <1>1, <2>1, TypesStay DEF Stages
  <2>4. Accounted'
    BY <2>1 DEF ResourcesInv, Accounted, Creating
  <2>5. Whole'
    BY <2>1, <2>2, Quiet DEF Stages, Creating
  <2>6. QED
    BY <2>3, <2>4, <2>5 DEF ResourcesInv
<1>5. QED
  BY <1>2, <1>3, <1>4

LEMMA UnfitKeeps ==
  ASSUME ResourcesInv, Disable \/ \E f \in PresentFamilies : PresentUnfit(f)
  PROVE  ResourcesInv'
<1>1. /\ progress = "up" /\ generating' = FALSE /\ drew' = FALSE
      /\ UNCHANGED <<wants, progress, done>>
  BY DEF Disable, PresentUnfit, Unfit, Up
<1>2. ResourceTypes'
  <2>1. ResourceTypes /\ progress' \in Stages \ {"ask"}
    BY <1>1 DEF ResourcesInv, Stages
  <2>2. QED
    BY <1>1, <2>1, TypesStay
<1>3. held' = alive' /\ \A h \in alive' : h \in alive \/ h[1][1] \in {"pool", "cmd"}
  <2>1. CASE UNCHANGED <<alive, held>>
    BY <2>1 DEF ResourcesInv, Accounted
  <2>2. CASE ~UNCHANGED <<alive, held>>
    <3>1. PICK n \in 0 .. Images : Keep(ThePool \union Cmds(n))
      <4>1. PICK f \in PresentFamilies : PresentUnfit(f)
        BY <2>2 DEF Disable
      <4>2. PoolFails(f)
        BY <2>2, <4>1 DEF PresentUnfit
      <4>3. QED
        BY <2>2, <4>2 DEF PoolFails
    <3>2. \A h \in ThePool \union Cmds(n) : h[1][1] \in {"pool", "cmd"}
      BY DEF ThePool, Cmds
    <3>3. QED
      BY <3>1, <3>2 DEF Keep, ResourcesInv, Accounted
  <2>3. QED
    BY <2>1, <2>2
<1>4. Accounted'
  <2>1. \A h \in alive' : h \in Own \/ h[1][1] \in TeardownNames
    BY <1>3, NamesApart DEF ResourcesInv, Accounted
  <2>2. QED
    BY <1>1, <1>3, <2>1 DEF Accounted, Creating
<1>5. Whole'
  BY <1>1, Quiet DEF Stages, Creating
<1>6. QED
  BY <1>2, <1>4, <1>5 DEF ResourcesInv

LEMMA GeneratedKeeps ==
  ASSUME ResourcesInv, NEW f \in PresentFamilies, PresentGenerated(f)
  PROVE  ResourcesInv'
<1>1. /\ progress = "up" /\ generating = TRUE /\ drew' = TRUE
      /\ UNCHANGED <<wants, progress, done, generating>>
  <2>1. generating \in BOOLEAN
    BY DEF ResourcesInv, ResourceTypes
  <2>2. QED
    BY <2>1 DEF PresentGenerated, Up
<1>2. ResourceTypes'
  <2>1. ResourceTypes /\ progress' \in Stages \ {"ask"}
    BY <1>1 DEF ResourcesInv, Stages
  <2>2. QED
    BY <1>1, <2>1, TypesStay
<1>3. /\ BaseMade(Len(Base)) /\ IF HaveEngine THEN EngineWhole ELSE Exists(<<"history">>)
      /\ HavePool => Cmds(Images) \subseteq alive /\ stamped = ImageIndex
  BY <1>1, Zenon DEF ResourcesInv, Whole
<1>4. PICK more : /\ alive' = alive \union more /\ held' = held \union more
                  /\ \A h \in more : h[1][1] \in {"pool", "cmd", "secondaries"}
                  /\ HavePool' /\ Cmds(Images) \subseteq alive' /\ stamped' = ImageIndex
  <2>1. CASE HavePool /\ UNCHANGED <<alive, held, stamped>>
    <3>1. alive' = alive \union {} /\ held' = held \union {} /\ HavePool'
      BY <2>1 DEF HavePool
    <3>2. QED
      BY <1>3, <2>1, <3>1, SMTT(30)
  <2>2. CASE SetFamily(ThePool \union Cmds(Images)) /\ stamped' = ImageIndex
    <3>1. PICK more \in {ThePool \union Cmds(Images),
                         (ThePool \union Cmds(Images)) \union TheSecondaries} : Keep(more)
      BY <2>2 DEF SetFamily
    <3>2. \A h \in more : h[1][1] \in {"pool", "cmd", "secondaries"}
      <4>1. \A h \in ThePool \union Cmds(Images) : h[1][1] \in {"pool", "cmd"}
        BY DEF ThePool, Cmds
      <4>2. \A h \in TheSecondaries : h[1] = <<"secondaries">>
        BY HandlesNamed DEF TheSecondaries
      <4>3. QED
        BY <4>1, <4>2
    <3>3. alive' = alive \union more /\ held' = held \union more
          /\ ThePool \subseteq more /\ Cmds(Images) \subseteq more
      BY <3>1 DEF Keep
    <3>4. HavePool' /\ Cmds(Images) \subseteq alive'
      BY <3>3 DEF HavePool
    <3>5. QED
      BY <2>2, <3>2, <3>3, <3>4
  <2>3. QED
    BY <2>1, <2>2 DEF PresentGenerated
<1>5. Accounted'
  <2>1. held' = alive'
    BY <1>4 DEF ResourcesInv, Accounted
  <2>2. \A h \in alive' : h \in Own \/ h[1][1] \in TeardownNames
    BY <1>4, NamesApart DEF ResourcesInv, Accounted
  <2>3. QED
    BY <1>1, <2>1, <2>2 DEF Accounted, Creating
<1>6. BaseMade(Len(Base))' /\ (EngineWhole => EngineWhole') /\ \A t : Exists(t) => Exists(t)'
  BY <1>1, <1>3, <1>4 DEF BaseMade, EngineWhole, Exists
<1>7. HaveEngine' <=> HaveEngine
  <2>1. <<<<"fg">>, "handle">> \notin more
    BY <1>4
  <2>2. QED
    BY <1>4, <2>1 DEF HaveEngine
<1>8. Whole'
  BY <1>1, <1>3, <1>4, <1>6, <1>7, Zenon DEF Whole, Creating
<1>9. QED
  BY <1>2, <1>5, <1>8 DEF ResourcesInv

LEMMA ResourcesStep == ResourcesInv /\ [ResourcesNext]_resourceVars => ResourcesInv'
<1> SUFFICES ASSUME ResourcesInv, [ResourcesNext]_resourceVars PROVE ResourcesInv'
  OBVIOUS
<1>1. CASE ResourcesNext
  BY <1>1, BeginKeeps, MakeThingKeeps, ThingFailsKeeps, GiveUpEngineKeeps, MadeWithEngineKeeps,
     MakeHistoryKeeps, GiveUpKeeps, EndKeeps, UnfitKeeps, GeneratedKeeps, Zenon DEF ResourcesNext
<1>2. CASE UNCHANGED resourceVars
  BY <1>2 DEF resourceVars, ResourcesInv, ResourceTypes, Accounted, Whole, BaseMade, EngineMade,
     EngineWhole, Exists, HaveEngine, HavePool
<1>3. QED
  BY <1>1, <1>2

\* What exists is what the swapchain holds, all of it under the teardown's names,
\* and it has what it generates with.
THEOREM ResourcesInductive == ResourcesSpec => []ResourcesInv
BY StartResources, ResourcesStep, PTL DEF ResourcesSpec

\* No handle of something destroyed is kept, and nothing outlives the swapchain,
\* whichever of its calls failed.
THEOREM NothingOutlives == ResourcesSpec => []NothingLeft
<1>1. ResourcesInv => NothingLeft
  BY DEF ResourcesInv, Accounted, NothingLeft
<1>2. QED
  BY <1>1, ResourcesInductive, PTL

-----------------------------------------------------------------------------
(* What the descriptor pool has room for. *)

Counted ==
    [prepare |-> [sampled |-> 1, storage |-> 1, combined |-> 0, ubo |-> 1],
     pyramid |-> [sampled |-> 0, storage |-> 7, combined |-> 0, ubo |-> 2],
     scd_histogram |-> [sampled |-> 1, storage |-> 1, combined |-> 0, ubo |-> 1],
     scd_divergence |-> [sampled |-> 0, storage |-> 4, combined |-> 0, ubo |-> 1],
     search |-> [sampled |-> 2, storage |-> 2, combined |-> 0, ubo |-> 1],
     filter |-> [sampled |-> 1, storage |-> 1, combined |-> 0, ubo |-> 1],
     scale |-> [sampled |-> 3, storage |-> 2, combined |-> 0, ubo |-> 1],
     interpolate |-> [sampled |-> 1, storage |-> 2, combined |-> 2, ubo |-> 0],
     downsample |-> [sampled |-> 0, storage |-> 1, combined |-> 1, ubo |-> 0],
     ingest |-> [sampled |-> 1, storage |-> 2, combined |-> 0, ubo |-> 0]]

LEMMA SmallSets ==
    /\ Cardinality({}) = 0 /\ \A a : Cardinality({a}) = 1
    /\ \A a, b : a # b => Cardinality({a, b}) = 2
    /\ \A k \in Nat : Cardinality(1 .. k) = k
<1>1. Cardinality({}) = 0 /\ \A a : Cardinality({a}) = 1
  BY FS_EmptySet, FS_Singleton
<1>2. ASSUME NEW a, NEW b, a # b PROVE Cardinality({a, b}) = 2
  <2>1. IsFiniteSet({a}) /\ Cardinality({a}) = 1 /\ b \notin {a} /\ {a} \union {b} = {a, b}
    BY <1>2, FS_Singleton
  <2>2. Cardinality({a} \union {b}) = 2
    BY <2>1, FS_AddElement
  <2>3. QED
    BY <2>1, <2>2, Zenon
<1>3. \A k \in Nat : Cardinality(1 .. k) = k
  BY FS_Interval
<1>4. QED
  BY <1>1, <1>2, <1>3, Zenon

LEMMA BindingCounts ==
    \A type \in DOMAIN PoolSizes, pass \in DOMAIN Bindings :
        Occurrences(type, pass) = Counted[pass][type]
<1> DEFINE Of(type, pass) == {n \in DOMAIN Bindings[pass] : Bindings[pass][n] = type}
<1>a. \A type, pass : Occurrences(type, pass) = Cardinality(Of(type, pass))
  BY DEF Occurrences
<1> HIDE DEF Of
<1>b. /\ Cardinality({}) = 0
      /\ Cardinality(1 .. 3) = 3 /\ Cardinality(1 .. 4) = 4 /\ Cardinality(1 .. 7) = 7
  BY SmallSets
<1>c. /\ Cardinality({1}) = 1 /\ Cardinality({2}) = 1 /\ Cardinality({3}) = 1 /\ Cardinality({5}) = 1
      /\ Cardinality({6}) = 1
  BY SmallSets, Zenon
<1>d. /\ Cardinality({1, 2}) = 2 /\ Cardinality({2, 3}) = 2 /\ Cardinality({3, 4}) = 2
      /\ Cardinality({4, 5}) = 2 /\ Cardinality({8, 9}) = 2
  <2>1. 1 # 2 /\ 2 # 3 /\ 3 # 4 /\ 4 # 5 /\ 8 # 9
    OBVIOUS
  <2>2. \A m, n : m # n => Cardinality({m, n}) = 2
    BY SmallSets, Zenon
  <2>3. QED
    BY <2>1, <2>2, Zenon
<1>1. ASSUME NEW type \in DOMAIN PoolSizes PROVE Occurrences(type, "prepare") = Counted["prepare"][type]
  <2>1. Bindings["prepare"] = <<"sampled", "storage", "ubo">>
    BY DEF Bindings
  <2>2. /\ Of("sampled", "prepare") = {1} /\ Of("storage", "prepare") = {2}
        /\ Of("combined", "prepare") = {} /\ Of("ubo", "prepare") = {3}
    BY <2>1 DEF Of
  <2>3. type \in {"sampled", "storage", "combined", "ubo"}
    BY DEF PoolSizes
  <2>4. /\ Occurrences("sampled", "prepare") = 1 /\ Occurrences("storage", "prepare") = 1
        /\ Occurrences("combined", "prepare") = 0 /\ Occurrences("ubo", "prepare") = 1
    BY <1>a, <1>b, <1>c, <1>d, <2>2
  <2>5. QED
    BY <2>3, <2>4 DEF Counted
<1>2. ASSUME NEW type \in DOMAIN PoolSizes PROVE Occurrences(type, "pyramid") = Counted["pyramid"][type]
  <2>1. Bindings["pyramid"] = [n \in 1 .. 9 |-> IF n =< 7 THEN "storage" ELSE "ubo"]
    BY DEF Bindings, Levels
  <2>2. /\ Of("sampled", "pyramid") = {} /\ Of("storage", "pyramid") = 1 .. 7
        /\ Of("combined", "pyramid") = {} /\ Of("ubo", "pyramid") = {8, 9}
    BY <2>1 DEF Of
  <2>3. type \in {"sampled", "storage", "combined", "ubo"}
    BY DEF PoolSizes
  <2>4. /\ Occurrences("sampled", "pyramid") = 0 /\ Occurrences("storage", "pyramid") = 7
        /\ Occurrences("combined", "pyramid") = 0 /\ Occurrences("ubo", "pyramid") = 2
    BY <1>a, <1>b, <1>c, <1>d, <2>2
  <2>5. QED
    BY <2>3, <2>4 DEF Counted
<1>3. ASSUME NEW type \in DOMAIN PoolSizes PROVE Occurrences(type, "scd_histogram") = Counted["scd_histogram"][type]
  <2>1. Bindings["scd_histogram"] = <<"sampled", "storage", "ubo">>
    BY DEF Bindings
  <2>2. /\ Of("sampled", "scd_histogram") = {1} /\ Of("storage", "scd_histogram") = {2}
        /\ Of("combined", "scd_histogram") = {} /\ Of("ubo", "scd_histogram") = {3}
    BY <2>1 DEF Of
  <2>3. type \in {"sampled", "storage", "combined", "ubo"}
    BY DEF PoolSizes
  <2>4. /\ Occurrences("sampled", "scd_histogram") = 1 /\ Occurrences("storage", "scd_histogram") = 1
        /\ Occurrences("combined", "scd_histogram") = 0 /\ Occurrences("ubo", "scd_histogram") = 1
    BY <1>a, <1>b, <1>c, <1>d, <2>2
  <2>5. QED
    BY <2>3, <2>4 DEF Counted
<1>4. ASSUME NEW type \in DOMAIN PoolSizes PROVE Occurrences(type, "scd_divergence") = Counted["scd_divergence"][type]
  <2>1. Bindings["scd_divergence"] = <<"storage", "storage", "storage", "storage", "ubo">>
    BY DEF Bindings
  <2>2. /\ Of("sampled", "scd_divergence") = {} /\ Of("storage", "scd_divergence") = 1 .. 4
        /\ Of("combined", "scd_divergence") = {} /\ Of("ubo", "scd_divergence") = {5}
    BY <2>1 DEF Of
  <2>3. type \in {"sampled", "storage", "combined", "ubo"}
    BY DEF PoolSizes
  <2>4. /\ Occurrences("sampled", "scd_divergence") = 0 /\ Occurrences("storage", "scd_divergence") = 4
        /\ Occurrences("combined", "scd_divergence") = 0 /\ Occurrences("ubo", "scd_divergence") = 1
    BY <1>a, <1>b, <1>c, <1>d, <2>2
  <2>5. QED
    BY <2>3, <2>4 DEF Counted
<1>5. ASSUME NEW type \in DOMAIN PoolSizes PROVE Occurrences(type, "search") = Counted["search"][type]
  <2>1. Bindings["search"] = <<"sampled", "sampled", "storage", "storage", "ubo">>
    BY DEF Bindings
  <2>2. /\ Of("sampled", "search") = {1, 2} /\ Of("storage", "search") = {3, 4}
        /\ Of("combined", "search") = {} /\ Of("ubo", "search") = {5}
    BY <2>1 DEF Of
  <2>3. type \in {"sampled", "storage", "combined", "ubo"}
    BY DEF PoolSizes
  <2>4. /\ Occurrences("sampled", "search") = 2 /\ Occurrences("storage", "search") = 2
        /\ Occurrences("combined", "search") = 0 /\ Occurrences("ubo", "search") = 1
    BY <1>a, <1>b, <1>c, <1>d, <2>2
  <2>5. QED
    BY <2>3, <2>4 DEF Counted
<1>6. ASSUME NEW type \in DOMAIN PoolSizes PROVE Occurrences(type, "filter") = Counted["filter"][type]
  <2>1. Bindings["filter"] = <<"sampled", "storage", "ubo">>
    BY DEF Bindings
  <2>2. /\ Of("sampled", "filter") = {1} /\ Of("storage", "filter") = {2}
        /\ Of("combined", "filter") = {} /\ Of("ubo", "filter") = {3}
    BY <2>1 DEF Of
  <2>3. type \in {"sampled", "storage", "combined", "ubo"}
    BY DEF PoolSizes
  <2>4. /\ Occurrences("sampled", "filter") = 1 /\ Occurrences("storage", "filter") = 1
        /\ Occurrences("combined", "filter") = 0 /\ Occurrences("ubo", "filter") = 1
    BY <1>a, <1>b, <1>c, <1>d, <2>2
  <2>5. QED
    BY <2>3, <2>4 DEF Counted
<1>7. ASSUME NEW type \in DOMAIN PoolSizes PROVE Occurrences(type, "scale") = Counted["scale"][type]
  <2>1. Bindings["scale"] = <<"sampled", "sampled", "sampled", "storage", "storage", "ubo">>
    BY DEF Bindings
  <2>2. /\ Of("sampled", "scale") = 1 .. 3 /\ Of("storage", "scale") = {4, 5}
        /\ Of("combined", "scale") = {} /\ Of("ubo", "scale") = {6}
    BY <2>1 DEF Of
  <2>3. type \in {"sampled", "storage", "combined", "ubo"}
    BY DEF PoolSizes
  <2>4. /\ Occurrences("sampled", "scale") = 3 /\ Occurrences("storage", "scale") = 2
        /\ Occurrences("combined", "scale") = 0 /\ Occurrences("ubo", "scale") = 1
    BY <1>a, <1>b, <1>c, <1>d, <2>2
  <2>5. QED
    BY <2>3, <2>4 DEF Counted
<1>8. ASSUME NEW type \in DOMAIN PoolSizes PROVE Occurrences(type, "interpolate") = Counted["interpolate"][type]
  <2>1. Bindings["interpolate"] = <<"combined", "combined", "sampled", "storage", "storage">>
    BY DEF Bindings
  <2>2. /\ Of("sampled", "interpolate") = {3} /\ Of("storage", "interpolate") = {4, 5}
        /\ Of("combined", "interpolate") = {1, 2} /\ Of("ubo", "interpolate") = {}
    BY <2>1 DEF Of
  <2>3. type \in {"sampled", "storage", "combined", "ubo"}
    BY DEF PoolSizes
  <2>4. /\ Occurrences("sampled", "interpolate") = 1 /\ Occurrences("storage", "interpolate") = 2
        /\ Occurrences("combined", "interpolate") = 2 /\ Occurrences("ubo", "interpolate") = 0
    BY <1>a, <1>b, <1>c, <1>d, <2>2
  <2>5. QED
    BY <2>3, <2>4 DEF Counted
<1>9. ASSUME NEW type \in DOMAIN PoolSizes PROVE Occurrences(type, "downsample") = Counted["downsample"][type]
  <2>1. Bindings["downsample"] = <<"combined", "storage">>
    BY DEF Bindings
  <2>2. /\ Of("sampled", "downsample") = {} /\ Of("storage", "downsample") = {2}
        /\ Of("combined", "downsample") = {1} /\ Of("ubo", "downsample") = {}
    BY <2>1 DEF Of
  <2>3. type \in {"sampled", "storage", "combined", "ubo"}
    BY DEF PoolSizes
  <2>4. /\ Occurrences("sampled", "downsample") = 0 /\ Occurrences("storage", "downsample") = 1
        /\ Occurrences("combined", "downsample") = 1 /\ Occurrences("ubo", "downsample") = 0
    BY <1>a, <1>b, <1>c, <1>d, <2>2
  <2>5. QED
    BY <2>3, <2>4 DEF Counted
<1>10. ASSUME NEW type \in DOMAIN PoolSizes PROVE Occurrences(type, "ingest") = Counted["ingest"][type]
  <2>1. Bindings["ingest"] = <<"sampled", "storage", "storage">>
    BY DEF Bindings
  <2>2. /\ Of("sampled", "ingest") = {1} /\ Of("storage", "ingest") = {2, 3}
        /\ Of("combined", "ingest") = {} /\ Of("ubo", "ingest") = {}
    BY <2>1 DEF Of
  <2>3. type \in {"sampled", "storage", "combined", "ubo"}
    BY DEF PoolSizes
  <2>4. /\ Occurrences("sampled", "ingest") = 1 /\ Occurrences("storage", "ingest") = 2
        /\ Occurrences("combined", "ingest") = 0 /\ Occurrences("ubo", "ingest") = 0
    BY <1>a, <1>b, <1>c, <1>d, <2>2
  <2>5. QED
    BY <2>3, <2>4 DEF Counted
<1>11. QED
  BY <1>1, <1>2, <1>3, <1>4, <1>5, <1>6, <1>7, <1>8, <1>9, <1>10 DEF Bindings

\* The descriptor pool, its sizes counted by hand, has room for the sets of every
\* number of images, whichever of the direct outputs there are.
LEMMA PoolHasRoom == wants \in Wants => SetsFit
<1> SUFFICES ASSUME wants \in Wants PROVE SetsFit
  OBVIOUS
<1> DEFINE direct == IF wants.direct THEN Images ELSE 0
           ingest == IF wants.ingest THEN Images ELSE 0
<1>1. direct \in Nat /\ ingest \in Nat /\ DirectSets = 2 * direct /\ IngestSets = 2 * ingest
  BY ImagesAssumption DEF DirectSets, IngestSets
<1>2. /\ SetsAllocated["prepare"] = 1 /\ SetsAllocated["pyramid"] = 1
      /\ SetsAllocated["scd_histogram"] = 1 /\ SetsAllocated["scd_divergence"] = 1
      /\ SetsAllocated["search"] = 7 /\ SetsAllocated["filter"] = 7 /\ SetsAllocated["scale"] = 6
      /\ SetsAllocated["interpolate"] = 1 + direct /\ SetsAllocated["downsample"] = 1
      /\ SetsAllocated["ingest"] = ingest
  BY DEF SetsAllocated, Bindings, Levels
<1> HIDE DEF direct, ingest
<1>3. ASSUME NEW type \in DOMAIN PoolSizes
      PROVE  Needed(OfType(type)) =< PoolSizes[type]
  <2>1. \A pass \in DOMAIN Bindings : Occurrences(type, pass) = Counted[pass][type]
    BY BindingCounts
  <2>2. /\ OfType(type)["prepare"] = Counted["prepare"][type]
        /\ OfType(type)["pyramid"] = Counted["pyramid"][type]
        /\ OfType(type)["scd_histogram"] = Counted["scd_histogram"][type]
        /\ OfType(type)["scd_divergence"] = Counted["scd_divergence"][type]
        /\ OfType(type)["search"] = 7 * Counted["search"][type]
        /\ OfType(type)["filter"] = 7 * Counted["filter"][type]
        /\ OfType(type)["scale"] = 6 * Counted["scale"][type]
        /\ OfType(type)["interpolate"] = (1 + direct) * Counted["interpolate"][type]
        /\ OfType(type)["downsample"] = Counted["downsample"][type]
        /\ OfType(type)["ingest"] = ingest * Counted["ingest"][type]
    BY <1>1, <1>2, <2>1 DEF OfType, Bindings, Counted, PoolSizes
  <2>3. CASE type = "sampled"
    BY <1>1, <2>2, <2>3 DEF Needed, PoolSizes, Counted
  <2>4. CASE type = "storage"
    BY <1>1, <2>2, <2>4 DEF Needed, PoolSizes, Counted
  <2>5. CASE type = "combined"
    BY <1>1, <2>2, <2>5 DEF Needed, PoolSizes, Counted
  <2>6. CASE type = "ubo"
    BY <1>1, <2>2, <2>6 DEF Needed, PoolSizes, Counted
  <2>7. QED
    BY <2>3, <2>4, <2>5, <2>6 DEF PoolSizes
<1>4. Needed(SetsAllocated) =< PoolSets
  BY <1>1, <1>2 DEF Needed, PoolSets
<1>5. QED
  BY <1>3, <1>4 DEF SetsFit

-----------------------------------------------------------------------------
(* What the descriptor sets are written with. *)

Has(s, t) == \E n \in DOMAIN s : s[n] = t

LEMMA HasJoined ==
  ASSUME NEW S, NEW s \in Seq(S), NEW t \in Seq(S), NEW x, Has(s, x) \/ Has(t, x)
  PROVE  Has(s \o t, x)
<1>1. CASE Has(s, x)
  <2>1. PICK n \in 1 .. Len(s) : s[n] = x
    BY <1>1 DEF Has
  <2>2. n \in DOMAIN (s \o t) /\ (s \o t)[n] = x
    BY <2>1
  <2>3. QED
    BY <2>2 DEF Has
<1>2. CASE Has(t, x)
  <2>1. PICK n \in 1 .. Len(t) : t[n] = x
    BY <1>2 DEF Has
  <2>2. Len(s) + n \in DOMAIN (s \o t) /\ (s \o t)[Len(s) + n] = x
    BY <2>1
  <2>3. QED
    BY <2>2 DEF Has
<1>3. QED
  BY <1>1, <1>2

LEMMA TexturesHave ==
  ASSUME NEW w \in Wants
  PROVE  /\ \A p \in Parities, k \in 0 .. Levels - 1 :
                Has(Textures(w), <<"luma", p, k>>) /\ Has(Textures(w), <<"flow", p, k>>)
         /\ \A t \in {<<"flow_out">>, <<"scd_histogram">>, <<"scd_previous">>, <<"scd_temp">>,
                      <<"scd_output">>, <<"color", 0>>, <<"color", 1>>} : Has(Textures(w), t)
         /\ w.half /\ ~w.ingest => Has(Textures(w), <<"color_half">>)
         /\ ~w.direct => Has(Textures(w), <<"output">>)
<1>1. OfLevels \in Seq(EngineThing) /\ Singles \in Seq(EngineThing)
      /\ Halved(w) \in Seq(EngineThing) /\ Output(w) \in Seq(EngineThing)
  BY PartsOfEngine
<1>2. Textures(w) = ((OfLevels \o Singles) \o Halved(w)) \o Output(w)
  BY EngineInParts
<1>3. ASSUME NEW p \in Parities, NEW k \in 0 .. Levels - 1
      PROVE  Has(OfLevels, <<"luma", p, k>>) /\ Has(OfLevels, <<"flow", p, k>>)
  <2> DEFINE n == 4 * k + 2 * p + 1
  <2>1. /\ p \in {0, 1} /\ k \in 0 .. 6 /\ n \in 1 .. 28 /\ n + 1 \in 1 .. 28
        /\ 1 + ((n - 1) % 4) = 1 + 2 * p /\ (n - 1) \div 4 = k
        /\ 1 + (((n + 1) - 1) % 4) = 2 + 2 * p /\ ((n + 1) - 1) \div 4 = k
    BY DEF Parities, Levels
  <2> HIDE DEF n
  <2>2. PerLevel[1 + 2 * p] = <<"luma", p>> /\ PerLevel[2 + 2 * p] = <<"flow", p>>
    BY <2>1 DEF PerLevel
  <2>3. OfLevels[n] = <<"luma", p, k>> /\ OfLevels[n + 1] = <<"flow", p, k>>
        /\ n \in DOMAIN OfLevels /\ n + 1 \in DOMAIN OfLevels
    BY <2>1, <2>2 DEF OfLevels, Levels
  <2>4. QED
    BY <2>3 DEF Has
<1>4. \A t \in {<<"flow_out">>, <<"scd_histogram">>, <<"scd_previous">>, <<"scd_temp">>,
                <<"scd_output">>, <<"color", 0>>, <<"color", 1>>} : Has(Singles, t)
  <2>1. /\ DOMAIN Singles = 1 .. 7
        /\ Singles[1] = <<"flow_out">> /\ Singles[2] = <<"scd_histogram">>
        /\ Singles[3] = <<"scd_previous">> /\ Singles[4] = <<"scd_temp">>
        /\ Singles[5] = <<"scd_output">> /\ Singles[6] = <<"color", 0>> /\ Singles[7] = <<"color", 1>>
    BY DEF Singles
  <2>2. QED
    BY <2>1 DEF Has
<1>5. (w.half /\ ~w.ingest => Has(Halved(w), <<"color_half">>)) /\ (~w.direct => Has(Output(w), <<"output">>))
  BY DEF Halved, Output, If, Has
<1>6. \A x : Has(OfLevels, x) \/ Has(Singles, x) \/ Has(Halved(w), x) \/ Has(Output(w), x) => Has(Textures(w), x)
  <2> SUFFICES ASSUME NEW x, Has(OfLevels, x) \/ Has(Singles, x) \/ Has(Halved(w), x) \/ Has(Output(w), x)
               PROVE  Has(((OfLevels \o Singles) \o Halved(w)) \o Output(w), x)
    BY <1>2
  <2>1. OfLevels \o Singles \in Seq(EngineThing) /\ (OfLevels \o Singles) \o Halved(w) \in Seq(EngineThing)
    BY <1>1
  <2>2. Has(OfLevels, x) \/ Has(Singles, x) => Has(OfLevels \o Singles, x)
    BY <1>1, HasJoined
  <2>3. Has(OfLevels \o Singles, x) \/ Has(Halved(w), x) => Has((OfLevels \o Singles) \o Halved(w), x)
    BY <1>1, <2>1, HasJoined
  <2>4. Has((OfLevels \o Singles) \o Halved(w), x) \/ Has(Output(w), x)
        => Has(((OfLevels \o Singles) \o Halved(w)) \o Output(w), x)
    BY <1>1, <2>1, HasJoined
  <2>5. QED
    BY <2>2, <2>3, <2>4
<1>7. QED
  BY <1>3, <1>4, <1>5, <1>6

LEMMA EngineHas ==
  ASSUME NEW w \in Wants
  PROVE  /\ \A x : Has(Textures(w), x) => Has(Engine(w), x)
         /\ Has(Engine(w), <<"cb">>)
         /\ w.direct \/ w.ingest => \A i \in ImageIndex : Has(Engine(w), <<"target", i>>)
<1>1. /\ Opening \in Seq(EngineThing) /\ Targets(w) \in Seq(EngineThing)
      /\ Closing \in Seq(EngineThing) /\ AidThings(w) \in Seq(EngineThing)
      /\ Textures(w) \in Seq(EngineThing) /\ DescriptorThings(w) \in Seq(EngineThing)
  BY PartsOfEngine, EngineThings
<1>2. Engine(w) = ((((Opening \o Targets(w)) \o Textures(w)) \o Closing) \o DescriptorThings(w))
                  \o AidThings(w)
  BY EngineInParts
<1>3. Has(Closing, <<"cb">>)
  <2>1. DOMAIN Closing = 1 .. 2 /\ Closing[2] = <<"cb">>
    BY DEF Closing
  <2>2. QED
    BY <2>1 DEF Has
<1>4. w.direct \/ w.ingest => \A i \in ImageIndex : Has(Targets(w), <<"target", i>>)
  BY DEF Targets, If, Has
<1>5. ASSUME NEW x, Has(Targets(w), x) \/ Has(Textures(w), x) \/ Has(Closing, x)
      PROVE  Has(Engine(w), x)
  <2> DEFINE s1 == Opening \o Targets(w)
             s2 == s1 \o Textures(w)
             s3 == s2 \o Closing
             s4 == s3 \o DescriptorThings(w)
  <2>1. s1 \in Seq(EngineThing) /\ (Has(Targets(w), x) => Has(s1, x))
    BY <1>1, HasJoined
  <2> HIDE DEF s1
  <2>2. s2 \in Seq(EngineThing) /\ (Has(s1, x) \/ Has(Textures(w), x) => Has(s2, x))
    BY <1>1, <2>1, HasJoined
  <2> HIDE DEF s2
  <2>3. s3 \in Seq(EngineThing) /\ (Has(s2, x) \/ Has(Closing, x) => Has(s3, x))
    BY <1>1, <2>2, HasJoined
  <2> HIDE DEF s3
  <2>4. s4 \in Seq(EngineThing) /\ (Has(s3, x) => Has(s4, x))
    BY <1>1, <2>3, HasJoined
  <2> HIDE DEF s4
  <2>5. Has(s4 \o AidThings(w), x)
    BY <1>1, <1>5, <2>1, <2>2, <2>3, <2>4, HasJoined
  <2>6. QED
    BY <1>2, <2>5 DEF s4, s3, s2, s1
<1>6. QED
  BY <1>3, <1>4, <1>5

-----------------------------------------------------------------------------
\* What the passes' views are made of exists in an engine without gaps.
EngineExists ==
    /\ \A p \in Parities, k \in 0 .. Levels - 1 :
           Exists(<<"luma", p, k>>) /\ Exists(<<"flow", p, k>>)
    /\ \A p \in Parities : Exists(<<"color", p>>)
    /\ Exists(<<"flow_out">>) /\ Exists(<<"scd_histogram">>) /\ Exists(<<"scd_previous">>)
    /\ Exists(<<"scd_temp">>) /\ Exists(<<"scd_output">>) /\ Exists(<<"cb">>)
    /\ wants.half /\ ~wants.ingest => Exists(<<"color_half">>)
    /\ ~wants.direct => Exists(<<"output">>)
    /\ wants.direct \/ wants.ingest => \A i \in ImageIndex : Exists(<<"target", i>>)

LEMMA WholeEngineExists == wants \in Wants /\ EngineWhole => EngineExists
<1> SUFFICES ASSUME wants \in Wants, EngineWhole PROVE EngineExists
  OBVIOUS
<1>1. \A t : Has(Engine(wants), t) /\ t[1] \notin Aids => Exists(t)
  BY Zenon DEF EngineWhole, Has
<1>2. \A t : Has(Textures(wants), t) => Has(Engine(wants), t)
  BY EngineHas
<1>3. ASSUME NEW p \in Parities, NEW k \in 0 .. Levels - 1
      PROVE  Exists(<<"luma", p, k>>) /\ Exists(<<"flow", p, k>>)
  <2>1. Has(Engine(wants), <<"luma", p, k>>) /\ Has(Engine(wants), <<"flow", p, k>>)
    BY <1>2, TexturesHave
  <2>2. <<"luma", p, k>>[1] \notin Aids /\ <<"flow", p, k>>[1] \notin Aids
    BY DEF Aids
  <2>3. QED
    BY <1>1, <2>1, <2>2
<1>4. ASSUME NEW t \in {<<"flow_out">>, <<"scd_histogram">>, <<"scd_previous">>, <<"scd_temp">>,
                       <<"scd_output">>, <<"color", 0>>, <<"color", 1>>}
      PROVE  Exists(t)
  <2>1. Has(Engine(wants), t)
    BY <1>2, TexturesHave
  <2>2. t[1] \notin Aids
    BY DEF Aids
  <2>3. QED
    BY <1>1, <2>1, <2>2
<1>5. \A p \in Parities : Exists(<<"color", p>>)
  <2>1. Exists(<<"color", 0>>) /\ Exists(<<"color", 1>>)
    BY <1>4
  <2>2. QED
    BY <2>1 DEF Parities
<1>6. Exists(<<"cb">>)
  <2>1. <<"cb">>[1] \notin Aids
    BY DEF Aids
  <2>2. QED
    BY <1>1, <2>1, EngineHas
<1>7. wants.half /\ ~wants.ingest => Exists(<<"color_half">>)
  <2>1. <<"color_half">>[1] \notin Aids
    BY DEF Aids
  <2>2. QED
    BY <1>1, <1>2, <2>1, TexturesHave
<1>8. ~wants.direct => Exists(<<"output">>)
  <2>1. <<"output">>[1] \notin Aids
    BY DEF Aids
  <2>2. QED
    BY <1>1, <1>2, <2>1, TexturesHave
<1>9. wants.direct \/ wants.ingest => \A i \in ImageIndex : Exists(<<"target", i>>)
  <2>1. \A i : <<"target", i>>[1] \notin Aids
    BY DEF Aids
  <2>2. QED
    BY <1>1, <2>1, EngineHas
<1>10. QED
  BY <1>3, <1>4, <1>5, <1>6, <1>7, <1>8, <1>9 DEF EngineExists

Sound(types, views) ==
    /\ Len(views) = Len(types)
    /\ \A n \in DOMAIN views : Exists(views[n])
    /\ \A m, n \in DOMAIN views :
           types[m] \in {"sampled", "combined"} /\ types[n] = "storage" => views[m] # views[n]

\* Views of different names are different, and so are those of different indices.
LEMMA ViewsTell ==
    /\ \A a, b : a[1] # b[1] => a # b
    /\ \A a, b : a[2] # b[2] => a # b
    /\ \A a, b : a[3] # b[3] => a # b
OBVIOUS

LEMMA PrepareSound ==
  ASSUME EngineExists, NEW p \in Parities, NEW k, ~wants.ingest
  PROVE  Sound(Bindings["prepare"], Written("prepare", p, k))
<1> DEFINE v1 == Source(p, k)
           v2 == <<"luma", p, 0>>
           v3 == <<"cb">>
<1>1. Bindings["prepare"] = <<"sampled", "storage", "ubo">>
  BY DEF Bindings
<1>2. Written("prepare", p, k) = <<v1, v2, v3>>
  BY Zenon DEF Written
<1>0. 0 \in 0 .. Levels - 1
  BY DEF Levels
<1>3. Exists(v1) /\ Exists(v2) /\ Exists(v3)
  BY <1>0, Zenon DEF EngineExists, Source
<1>4. v1 # v2
  BY ViewsTell DEF Source
<1> HIDE DEF v1, v2, v3
<1>5. QED
  BY <1>1, <1>2, <1>3, <1>4 DEF Sound

LEMMA HistogramSound ==
  ASSUME EngineExists, NEW p \in Parities, NEW k
  PROVE  Sound(Bindings["scd_histogram"], Written("scd_histogram", p, k))
<1> DEFINE v1 == <<"luma", p, 0>>
           v2 == <<"scd_histogram">>
           v3 == <<"cb">>
<1>1. Bindings["scd_histogram"] = <<"sampled", "storage", "ubo">>
  BY DEF Bindings
<1>2. Written("scd_histogram", p, k) = <<v1, v2, v3>>
  BY Zenon DEF Written
<1>0. 0 \in 0 .. Levels - 1
  BY DEF Levels
<1>3. Exists(v1) /\ Exists(v2) /\ Exists(v3)
  BY <1>0, Zenon DEF EngineExists
<1>4. v1 # v2
  BY ViewsTell
<1> HIDE DEF v1, v2, v3
<1>5. QED
  BY <1>1, <1>2, <1>3, <1>4 DEF Sound

LEMMA DivergenceSound ==
  ASSUME EngineExists, NEW p \in Parities, NEW k
  PROVE  Sound(Bindings["scd_divergence"], Written("scd_divergence", p, k))
<1> DEFINE v1 == <<"scd_histogram">>
           v2 == <<"scd_previous">>
           v3 == <<"scd_temp">>
           v4 == <<"scd_output">>
           v5 == <<"cb">>
<1>1. Bindings["scd_divergence"] = <<"storage", "storage", "storage", "storage", "ubo">>
  BY DEF Bindings
<1>2. Written("scd_divergence", p, k) = <<v1, v2, v3, v4, v5>>
  BY Zenon DEF Written
<1>3. Exists(v1) /\ Exists(v2) /\ Exists(v3) /\ Exists(v4) /\ Exists(v5)
  BY Zenon DEF EngineExists
<1> HIDE DEF v1, v2, v3, v4, v5
<1>5. QED
  BY <1>1, <1>2, <1>3 DEF Sound

LEMMA SearchSound ==
  ASSUME EngineExists, NEW p \in Parities, NEW k \in 0 .. Levels - 1
  PROVE  Sound(Bindings["search"], Written("search", p, k))
<1> DEFINE v1 == <<"luma", p, k>>
           v2 == <<"luma", 1 - p, k>>
           v3 == <<"flow", SearchTarget(p, k), k>>
           v4 == <<"scd_output">>
           v5 == <<"cb">>
<1>1. Bindings["search"] = <<"sampled", "sampled", "storage", "storage", "ubo">>
  BY DEF Bindings
<1>2. Written("search", p, k) = <<v1, v2, v3, v4, v5>>
  BY Zenon DEF Written
<1>0. 1 - p \in Parities /\ SearchTarget(p, k) \in Parities
  BY DEF Parities, SearchTarget
<1>3. Exists(v1) /\ Exists(v2) /\ Exists(v3) /\ Exists(v4) /\ Exists(v5)
  BY <1>0, Zenon DEF EngineExists
<1>4. v1 # v3 /\ v1 # v4 /\ v2 # v3 /\ v2 # v4
  BY ViewsTell
<1> HIDE DEF v1, v2, v3, v4, v5
<1>5. QED
  BY <1>1, <1>2, <1>3, <1>4 DEF Sound

LEMMA FilterSound ==
  ASSUME EngineExists, NEW p \in Parities, NEW k \in 0 .. Levels - 1
  PROVE  Sound(Bindings["filter"], Written("filter", p, k))
<1> DEFINE v1 == <<"flow", SearchTarget(p, k), k>>
           v2 == IF k = 0 THEN <<"flow_out">> ELSE <<"flow", 1 - SearchTarget(p, k), k>>
           v3 == <<"cb">>
<1>1. Bindings["filter"] = <<"sampled", "storage", "ubo">>
  BY DEF Bindings
<1>2. Written("filter", p, k) = <<v1, v2, v3>>
  BY Zenon DEF Written
<1>0. SearchTarget(p, k) \in Parities /\ 1 - SearchTarget(p, k) \in Parities
  BY DEF Parities, SearchTarget
<1>3. Exists(v1) /\ Exists(v2) /\ Exists(v3)
  BY <1>0, Zenon DEF EngineExists
<1>4. v1 # v2
  BY ViewsTell DEF Parities, SearchTarget, Levels
<1> HIDE DEF v1, v2, v3
<1>5. QED
  BY <1>1, <1>2, <1>3, <1>4 DEF Sound

LEMMA ScaleSound ==
  ASSUME EngineExists, NEW p \in Parities, NEW k \in 1 .. Levels - 1
  PROVE  Sound(Bindings["scale"], Written("scale", p, k))
<1> DEFINE v1 == <<"luma", p, k>>
           v2 == <<"luma", 1 - p, k>>
           v3 == <<"flow", 1 - SearchTarget(p, k), k>>
           v4 == <<"flow", 1 - SearchTarget(p, k), k - 1>>
           v5 == <<"scd_output">>
           v6 == <<"cb">>
<1>1. Bindings["scale"] = <<"sampled", "sampled", "sampled", "storage", "storage", "ubo">>
  BY DEF Bindings
<1>2. Written("scale", p, k) = <<v1, v2, v3, v4, v5, v6>>
  BY Zenon DEF Written
<1>0. /\ 1 - p \in Parities /\ 1 - SearchTarget(p, k) \in Parities
      /\ k \in 0 .. Levels - 1 /\ k - 1 \in 0 .. Levels - 1
  BY DEF Parities, SearchTarget, Levels
<1>3. Exists(v1) /\ Exists(v2) /\ Exists(v3) /\ Exists(v4) /\ Exists(v5) /\ Exists(v6)
  BY <1>0, Zenon DEF EngineExists
<1>4. v1 # v4 /\ v1 # v5 /\ v2 # v4 /\ v2 # v5 /\ v3 # v4 /\ v3 # v5
  BY ViewsTell DEF Parities, SearchTarget, Levels
<1> HIDE DEF v1, v2, v3, v4, v5, v6
<1>5. QED
  BY <1>1, <1>2, <1>3, <1>4 DEF Sound

LEMMA InterpolateSound ==
  ASSUME EngineExists, NEW p \in Parities, NEW k \in IF wants.direct THEN ImageIndex ELSE {0}
  PROVE  Sound(Bindings["interpolate"], Written("interpolate", p, k))
<1> DEFINE v1 == <<"color", 1 - p>>
           v2 == <<"color", p>>
           v3 == <<"flow_out">>
           v4 == <<"scd_output">>
           v5 == IF wants.direct THEN <<"target", k>> ELSE <<"output">>
<1>1. Bindings["interpolate"] = <<"combined", "combined", "sampled", "storage", "storage">>
  BY DEF Bindings
<1>2. Written("interpolate", p, k) = <<v1, v2, v3, v4, v5>>
  BY Zenon DEF Written
<1>0. 1 - p \in Parities
  BY DEF Parities
<1>3. Exists(v1) /\ Exists(v2) /\ Exists(v3) /\ Exists(v4) /\ Exists(v5)
  BY <1>0, Zenon DEF EngineExists
<1>4. v1 # v4 /\ v1 # v5 /\ v2 # v4 /\ v2 # v5 /\ v3 # v4 /\ v3 # v5
  BY ViewsTell
<1> HIDE DEF v1, v2, v3, v4, v5
<1>5. QED
  BY <1>1, <1>2, <1>3, <1>4 DEF Sound

LEMMA DownsampleSound ==
  ASSUME EngineExists, NEW p \in Parities, NEW k, wants.half, ~wants.ingest
  PROVE  Sound(Bindings["downsample"], Written("downsample", p, k))
<1> DEFINE v1 == <<"color", p>>
           v2 == <<"color_half">>
<1>1. Bindings["downsample"] = <<"combined", "storage">>
  BY DEF Bindings
<1>2. Written("downsample", p, k) = <<v1, v2>>
  BY Zenon DEF Written
<1>3. Exists(v1) /\ Exists(v2)
  BY Zenon DEF EngineExists
<1>4. v1 # v2
  BY ViewsTell
<1> HIDE DEF v1, v2
<1>5. QED
  BY <1>1, <1>2, <1>3, <1>4 DEF Sound

LEMMA IngestSound ==
  ASSUME EngineExists, NEW p \in Parities, NEW k \in ImageIndex, wants.ingest
  PROVE  Sound(Bindings["ingest"], Written("ingest", p, k))
<1> DEFINE v1 == <<"target", k>>
           v2 == <<"color", p>>
           v3 == <<"luma", p, 0>>
<1>1. Bindings["ingest"] = <<"sampled", "storage", "storage">>
  BY DEF Bindings
<1>2. Written("ingest", p, k) = <<v1, v2, v3>>
  BY Zenon DEF Written
<1>0. 0 \in 0 .. Levels - 1
  BY DEF Levels
<1>3. Exists(v1) /\ Exists(v2) /\ Exists(v3)
  BY <1>0, Zenon DEF EngineExists
<1>4. v1 # v2 /\ v1 # v3
  BY ViewsTell
<1> HIDE DEF v1, v2, v3
<1>5. QED
  BY <1>1, <1>2, <1>3, <1>4 DEF Sound

LEMMA JoinedAt ==
  ASSUME NEW S, NEW s \in Seq(S), NEW t \in Seq(S)
  PROVE  /\ Len(s \o t) = Len(s) + Len(t) /\ DOMAIN (s \o t) = 1 .. Len(s) + Len(t)
         /\ \A n \in 1 .. Len(s) : (s \o t)[n] = s[n]
         /\ \A n \in 1 .. Len(t) : (s \o t)[Len(s) + n] = t[n]
OBVIOUS

LEMMA PyramidSound ==
  ASSUME EngineExists, NEW p \in Parities, NEW k
  PROVE  Sound(Bindings["pyramid"], Written("pyramid", p, k))
<1>1. Bindings["pyramid"] = [n \in 1 .. 9 |-> IF n =< 7 THEN "storage" ELSE "ubo"]
  BY DEF Bindings, Levels
<1>2. Written("pyramid", p, k) = [n \in 1 .. Levels |-> <<"luma", p, n - 1>>] \o <<<<"cb">>, <<"cb">>>>
  BY DEF Written
<1>3. /\ Len(Written("pyramid", p, k)) = 9 /\ DOMAIN Written("pyramid", p, k) = 1 .. 9
      /\ \A n \in 1 .. 9 :
             Written("pyramid", p, k)[n] = IF n =< 7 THEN <<"luma", p, n - 1>> ELSE <<"cb">>
  <2> DEFINE At(n) == <<"luma", p, n - 1>>
             block == <<"cb">>
             images == [n \in 1 .. 7 |-> At(n)]
             blocks == <<block, block>>
             S == {At(n) : n \in 1 .. 7} \union {block}
             s == images \o blocks
  <2>1. Written("pyramid", p, k) = s
    BY <1>2 DEF Levels
  <2> HIDE DEF At, block
  <2>2. Len(images) = 7 /\ \A n \in 1 .. 7 : images[n] = At(n)
    OBVIOUS
  <2>3. Len(blocks) = 2 /\ blocks[1] = block /\ blocks[2] = block
    OBVIOUS
  <2>4. images \in Seq(S) /\ blocks \in Seq(S)
    OBVIOUS
  <2> HIDE DEF images, blocks, S
  <2>5. /\ Len(s) = Len(images) + Len(blocks) /\ DOMAIN s = 1 .. Len(images) + Len(blocks)
        /\ \A n \in 1 .. Len(images) : s[n] = images[n]
        /\ \A n \in 1 .. Len(blocks) : s[Len(images) + n] = blocks[n]
    BY <2>4, JoinedAt
  <2> HIDE DEF s
  <2>6. Len(s) = 9 /\ DOMAIN s = 1 .. 9 /\ (\A n \in 1 .. 7 : s[n] = At(n))
        /\ s[8] = block /\ s[9] = block
    BY <2>2, <2>3, <2>5
  <2>7. \A n \in 1 .. 9 : s[n] = IF n =< 7 THEN At(n) ELSE block
    <3>1. \A n \in 1 .. 9 : (n =< 7 /\ n \in 1 .. 7) \/ n = 8 \/ n = 9
      OBVIOUS
    <3>2. ~(8 =< 7) /\ ~(9 =< 7)
      OBVIOUS
    <3>3. QED
      BY <2>6, <3>1, <3>2, Zenon
  <2>8. QED
    BY <2>1, <2>6, <2>7, Zenon DEF At, block
<1>4. ASSUME NEW n \in 1 .. 9 PROVE Exists(Written("pyramid", p, k)[n])
  <2>1. CASE n =< 7
    <3>1. n - 1 \in 0 .. Levels - 1
      BY <2>1 DEF Levels
    <3>2. Exists(<<"luma", p, n - 1>>)
      BY <3>1, Zenon DEF EngineExists
    <3>3. QED
      BY <1>3, <2>1, <3>2, Zenon
  <2>2. CASE ~(n =< 7)
    <3>1. Written("pyramid", p, k)[n] = <<"cb">>
      BY <1>3, <2>2, Zenon
    <3>2. Exists(<<"cb">>)
      BY Zenon DEF EngineExists
    <3>3. QED
      BY <3>1, <3>2, Zenon
  <2>3. QED
    BY <2>1, <2>2
<1>5. QED
  BY <1>1, <1>3, <1>4 DEF Sound

\* An engine without gaps has every view its passes' sets are written with, and
\* no pass stores into an image it samples.
LEMMA PassesAreSound == wants \in Wants /\ EngineWhole => SetsSound
<1> SUFFICES ASSUME wants \in Wants, EngineWhole, NEW p \in Parities, NEW s \in Bound
             PROVE  Sound(Bindings[s[1]], Written(s[1], p, s[2]))
  BY Zenon DEF SetsSound, Sound
<1>1. EngineExists
  BY WholeEngineExists
<1>2. CASE s \in {<<"pyramid", 0>>, <<"scd_histogram", 0>>, <<"scd_divergence", 0>>}
  BY <1>1, <1>2, PyramidSound, HistogramSound, DivergenceSound
<1>3. CASE s \in {"search", "filter"} \X (0 .. Levels - 1)
  BY <1>1, <1>3, SearchSound, FilterSound
<1>4. CASE s \in {"scale"} \X (1 .. Levels - 1)
  BY <1>1, <1>4, ScaleSound
<1>5. CASE s \in {"interpolate"} \X (IF wants.direct THEN ImageIndex ELSE {0})
  BY <1>1, <1>5, InterpolateSound
<1>6. CASE s \in IF wants.ingest THEN {"ingest"} \X ImageIndex ELSE {<<"prepare", 0>>}
  BY <1>1, <1>6, IngestSound, PrepareSound
<1>7. CASE s \in IF wants.half /\ ~wants.ingest THEN {<<"downsample", 0>>} ELSE {}
  BY <1>1, <1>7, DownsampleSound
<1>8. QED
  BY <1>2, <1>3, <1>4, <1>5, <1>6, <1>7, Zenon DEF Bound

\* With the engine or the history image, whatever failed on the way, a frame is
\* generated only with everything that it uses.
THEOREM GeneratesInFull == ResourcesSpec => []GeneratesWhole
<1>1. ASSUME ResourcesInv, drew PROVE GeneratesWhole
  <2>1. /\ wants \in Wants /\ held = alive /\ progress = "up" /\ generating /\ HavePool
        /\ BaseMade(Len(Base)) /\ (IF HaveEngine THEN EngineWhole ELSE Exists(<<"history">>))
        /\ Cmds(Images) \subseteq alive /\ stamped = ImageIndex
    BY <1>1, Zenon DEF ResourcesInv, ResourceTypes, Accounted, Whole
  <2>2. \A n \in DOMAIN Base : Exists(Base[n])
    <3>1. DOMAIN Base = 1 .. Len(Base) /\ Len(Base) \in Nat
      BY <2>1, ListThings
    <3>2. QED
      BY <2>1, <3>1 DEF BaseMade
  <2>3. \A t : t[1] \in {"pool", "cmd"} => Handles(t) = {<<t, "handle">>}
    <3>1. \A t : t[1] \in {"pool", "cmd"} => Parts(t) = <<"handle">>
      BY DEF Parts, Image
    <3>2. DOMAIN <<"handle">> = {1} /\ <<"handle">>[1] = "handle"
      OBVIOUS
    <3>3. QED
      BY <3>1, <3>2 DEF Handles
  <2>4. Exists(<<"pool">>)
    <3>1. Handles(<<"pool">>) = ThePool
      BY <2>3 DEF ThePool
    <3>2. QED
      BY <2>1, <3>1 DEF Exists, HavePool
  <2>5. ASSUME NEW i \in ImageIndex PROVE Exists(<<"cmd", i>>)
    <3>1. Handles(<<"cmd", i>>) = {<<<<"cmd", i>>, "handle">>}
      BY <2>3
    <3>2. <<<<"cmd", i>>, "handle">> \in Cmds(Images)
      BY Zenon DEF Cmds, ImageIndex
    <3>3. QED
      BY <2>1, <3>1, <3>2, Zenon DEF Exists
  <2>6. HaveEngine => EngineWhole /\ SetsFit /\ SetsSound
    BY <2>1, PoolHasRoom, PassesAreSound
  <2>7. QED
    BY <2>1, <2>2, <2>4, <2>5, <2>6, Zenon DEF GeneratesWhole
<1>2. ResourcesInv => GeneratesWhole
  BY <1>1 DEF GeneratesWhole
<1>3. QED
  BY <1>2, ResourcesInductive, PTL
=============================================================================
