----------------------------- MODULE PartsProofs -----------------------------
(***************************************************************************)
(* The small parts of the layer, each for every value of its constants:    *)
(* the record a device is found by, the device created with what the layer *)
(* adds, the present modes of a moved swapchain, the pipelines compiled on *)
(* a thread of their own, and the governor with its cadence.  They share   *)
(* nothing but this module.                                                *)
(***************************************************************************)
EXTENDS Registry, DeviceCreation, PresentModes, PipelineCompile, MCGovernor,
        SequenceTheorems, WellFoundedInduction, TLAPS

-----------------------------------------------------------------------------
(* Registry: a table in which every device finds its own record. *)

Lives == {"none", "made", "live", "taken", "gone"}

RegistryTypes ==
    /\ entries \in Seq(Devices)
    /\ key \in [Devices -> Keys]
    /\ state \in [Devices -> Lives]
    /\ found \in [Devices -> Devices \union {Nobody}]
    /\ taken \in [Devices -> Devices \union {Nobody}]

\* The table holds the devices that are alive, each once, and no two devices the
\* driver has share a dispatch pointer.
TableOfLiving ==
    /\ \A d, e \in Exist : key[d] = key[e] => d = e
    /\ \A n \in 1 .. Len(entries) : state[entries[n]] = "live"
    /\ \A m, n \in 1 .. Len(entries) : entries[m] = entries[n] => m = n
    /\ \A d \in Devices : state[d] = "live" => \E n \in 1 .. Len(entries) : entries[n] = d

RegistryInv ==
    /\ RegistryTypes /\ TableOfLiving /\ FindsOwn
    /\ \A d \in Devices : state[d] \in {"none", "made", "live"} => taken[d] = Nobody

LEMMA RegistryFirst == RegistryInit => RegistryInv
  <1> SUFFICES ASSUME RegistryInit PROVE RegistryInv
    OBVIOUS
  <1>1. RegistryTypes
    BY DEF RegistryInit, RegistryTypes, Lives
  <1>2. TableOfLiving
    BY DEF RegistryInit, TableOfLiving, Exist
  <1>3. FindsOwn /\ \A d \in Devices : taken[d] = Nobody
    BY DEF RegistryInit, FindsOwn
  <1> QED
    BY <1>1, <1>2, <1>3 DEF RegistryInv

\* The record with a living device's dispatch pointer is its own.
LEMMA FoundIsOwn ==
  ASSUME RegistryInv, NEW d \in Devices, state[d] = "live"
  PROVE  /\ WithKey(d) = d
         /\ Hit(d) \in 1 .. Len(entries) /\ entries[Hit(d)] = d /\ Hits(d) # {}
  <1>1. entries \in Seq(Devices) /\ DOMAIN entries = 1 .. Len(entries)
    BY DEF RegistryInv, RegistryTypes
  <1>2. PICK n \in 1 .. Len(entries) : entries[n] = d
    BY DEF RegistryInv, TableOfLiving
  <1>3. Hits(d) = {n}
    <2>1. ASSUME NEW m \in 1 .. Len(entries), key[entries[m]] = key[d] PROVE m = n
      <3>1. entries[m] \in Devices
        BY <1>1
      <3>2. entries[m] \in Exist /\ d \in Exist
        BY <3>1 DEF RegistryInv, TableOfLiving, Exist
      <3> QED
        BY <1>2, <2>1, <3>2 DEF RegistryInv, TableOfLiving
    <2> QED
      BY <1>1, <1>2, <2>1 DEF Hits
  <1>4. Hit(d) = n
    BY <1>2, <1>3 DEF Hit
  <1> QED
    BY <1>2, <1>3, <1>4 DEF WithKey

\* Taking its record out leaves the others in the table.
LEMMA TakenOut ==
  ASSUME RegistryInv, NEW d \in Devices, state[d] = "live"
  PROVE  /\ Without(d) \in Seq(Devices)
         /\ \A e \in Devices : (\E n \in 1 .. Len(Without(d)) : Without(d)[n] = e)
                                 <=> e # d /\ \E n \in 1 .. Len(entries) : entries[n] = e
         /\ \A m, n \in 1 .. Len(Without(d)) : Without(d)[m] = Without(d)[n] => m = n
  <1> DEFINE h == Hit(d)
             old(n) == IF n < h THEN n ELSE n + 1
             w == [n \in 1 .. Len(entries) - 1 |-> entries[old(n)]]
  <1>1. /\ h \in 1 .. Len(entries) /\ entries[h] = d /\ entries \in Seq(Devices) /\ Len(entries) \in Nat
        /\ Without(d) = w
    BY FoundIsOwn DEF RegistryInv, RegistryTypes, Without
  <1>2. \A m, n \in 1 .. Len(entries) : entries[m] = entries[n] => m = n
    BY DEF RegistryInv, TableOfLiving
  <1> HIDE DEF h
  <1>3. \A n \in 1 .. Len(entries) - 1 : old(n) \in 1 .. Len(entries) /\ old(n) # h /\ w[n] = entries[old(n)]
    BY <1>1
  <1>4. w \in Seq(Devices) /\ Len(w) = Len(entries) - 1
    <2>1. \A n \in 1 .. Len(entries) - 1 : entries[old(n)] \in Devices
      BY <1>1, <1>3
    <2>2. Len(entries) - 1 \in Nat
      BY <1>1
    <2> QED
      BY <2>1, <2>2
  <1>5. \A m, n \in 1 .. Len(w) : w[m] = w[n] => m = n
    <2> SUFFICES ASSUME NEW m \in 1 .. Len(w), NEW n \in 1 .. Len(w), w[m] = w[n] PROVE m = n
      OBVIOUS
    <2>1. old(m) = old(n)
      BY <1>2, <1>3, <1>4
    <2> QED
      BY <1>1, <1>4, <2>1
  <1>6. ASSUME NEW e \in Devices
        PROVE  (\E n \in 1 .. Len(w) : w[n] = e) <=> e # d /\ \E n \in 1 .. Len(entries) : entries[n] = e
    <2>1. ASSUME NEW n \in 1 .. Len(w), w[n] = e
          PROVE  e # d /\ \E m \in 1 .. Len(entries) : entries[m] = e
      <3>1. old(n) \in 1 .. Len(entries) /\ old(n) # h /\ entries[old(n)] = e
        BY <1>3, <1>4, <2>1
      <3> QED
        BY <1>1, <1>2, <3>1
    <2>2. ASSUME e # d, NEW m \in 1 .. Len(entries), entries[m] = e
          PROVE  \E n \in 1 .. Len(w) : w[n] = e
      <3> DEFINE n == IF m < h THEN m ELSE m - 1
      <3>1. m # h
        BY <1>1, <2>2
      <3>2. n \in 1 .. Len(entries) - 1 /\ old(n) = m
        BY <1>1, <3>1
      <3> HIDE DEF n
      <3> QED
        BY <1>3, <1>4, <2>2, <3>2
    <2> QED
      BY <2>1, <2>2
  <1> HIDE DEF w
  <1>7. \A e \in Devices : (\E n \in 1 .. Len(w) : w[n] = e)
                             <=> e # d /\ \E n \in 1 .. Len(entries) : entries[n] = e
    BY <1>6, Zenon
  <1>8. Without(d) = w
    BY <1>1
  <1>9. w \in Seq(Devices)
    BY <1>4
  <1> HIDE DEF h
  <1> QED
    BY <1>5, <1>7, <1>8, <1>9, Zenon

LEMMA RegistryStep == RegistryInv /\ [RegistryNext]_registryVars => RegistryInv'
  <1> SUFFICES ASSUME RegistryInv, [RegistryNext]_registryVars PROVE RegistryInv'
    OBVIOUS
  <1>1. RegistryTypes /\ TableOfLiving /\ FindsOwn
    BY DEF RegistryInv
  <1>2. ASSUME NEW d \in Devices, Make(d) PROVE RegistryInv'
    <2>1. PICK k \in Keys : (\A e \in Exist : key[e] # k) /\ key' = [key EXCEPT ![d] = k]
      BY <1>2 DEF Make
    <2>2. /\ state[d] = "none" /\ state' = [state EXCEPT ![d] = "made"]
          /\ UNCHANGED <<entries, found, taken>>
      BY <1>2 DEF Make, Became
    <2>3. RegistryTypes'
      BY <1>1, <2>1, <2>2 DEF RegistryTypes, Lives
    <2>4. state \in [Devices -> Lives] /\ key \in [Devices -> Keys] /\ entries \in Seq(Devices)
      BY <1>1 DEF RegistryTypes
    <2>5. Exist' = Exist \union {d} /\ d \notin Exist
      BY <2>2, <2>4 DEF Exist
    <2>6. \A e, f \in Exist' : key'[e] = key'[f] => e = f
      <3>1. Exist \subseteq Devices
        BY DEF Exist
      <3>2. \A e \in Exist : key'[e] = key[e] /\ key'[e] # k
        BY <2>1, <2>4, <2>5, <3>1
      <3>3. key'[d] = k
        BY <2>1, <2>4
      <3> QED
        BY <1>1, <2>5, <3>2, <3>3 DEF TableOfLiving
    <2>7. \A e \in Devices : state'[e] = "live" <=> state[e] = "live"
      BY <2>2, <2>4
    <2>8. TableOfLiving'
      BY <1>1, <2>2, <2>4, <2>6, <2>7 DEF TableOfLiving
    <2>9. FindsOwn' /\ \A e \in Devices : state'[e] \in {"none", "made", "live"} => taken'[e] = Nobody
      BY <2>2, <2>4 DEF RegistryInv, FindsOwn
    <2> QED
      BY <2>3, <2>8, <2>9 DEF RegistryInv
  <1>3. ASSUME NEW d \in Devices, Unmake(d) PROVE RegistryInv'
    BY <1>1, <1>3 DEF Unmake, Became, RegistryInv, RegistryTypes, TableOfLiving, FindsOwn, Exist, Lives
  <1>4. ASSUME NEW d \in Devices, Register(d) PROVE RegistryInv'
    <2>1. /\ state[d] = "made" /\ state' = [state EXCEPT ![d] = "live"]
          /\ entries' = <<d>> \o entries /\ key' = key /\ found' = found /\ taken' = taken
      BY <1>4 DEF Register, Became
    <2>2. entries \in Seq(Devices) /\ Len(entries) \in Nat /\ state \in [Devices -> Lives]
      BY <1>1 DEF RegistryTypes
    <2>3. /\ entries' \in Seq(Devices) /\ Len(entries') = Len(entries) + 1 /\ entries'[1] = d
          /\ \A n \in 2 .. Len(entries') : entries'[n] = entries[n - 1] /\ n - 1 \in 1 .. Len(entries)
          /\ \A n \in 1 .. Len(entries) : entries'[n + 1] = entries[n] /\ n + 1 \in 1 .. Len(entries')
      BY <2>1, <2>2
    <2>4. \A n \in 1 .. Len(entries) : entries[n] # d /\ entries[n] \in Devices
      BY <1>1, <2>1, <2>2 DEF TableOfLiving
    <2>5. RegistryTypes'
      BY <1>1, <2>1, <2>3 DEF RegistryTypes, Lives
    <2>6. TableOfLiving'
      <3>1. \A e, f \in Exist' : key'[e] = key'[f] => e = f
        BY <1>1, <2>1, <2>2 DEF TableOfLiving, Exist
      <3>2. ASSUME NEW n \in 1 .. Len(entries') PROVE state'[entries'[n]] = "live"
        BY <1>1, <2>1, <2>2, <2>3, <2>4, <3>2 DEF TableOfLiving
      <3>3. ASSUME NEW m \in 1 .. Len(entries'), NEW n \in 1 .. Len(entries'), entries'[m] = entries'[n]
            PROVE  m = n
        <4>1. CASE m = 1 \/ n = 1
          <5>1. \A i \in 2 .. Len(entries') : entries'[i] # d
            BY <2>3, <2>4
          <5>2. entries'[1] = d
            BY <2>3
          <5>3. m \notin 2 .. Len(entries') /\ n \notin 2 .. Len(entries')
            BY <3>3, <4>1, <5>1, <5>2
          <5> QED
            BY <2>2, <2>3, <5>3
        <4>2. CASE m # 1 /\ n # 1
          <5>1. m \in 2 .. Len(entries') /\ n \in 2 .. Len(entries')
            BY <2>2, <2>3, <4>2
          <5>2. entries[m - 1] = entries[n - 1] /\ m - 1 \in 1 .. Len(entries) /\ n - 1 \in 1 .. Len(entries)
            BY <2>3, <3>3, <5>1
          <5>3. m - 1 = n - 1
            BY <1>1, <5>2 DEF TableOfLiving
          <5> QED
            BY <5>3, <2>2, <2>3
        <4> QED
          BY <4>1, <4>2
      <3>4. ASSUME NEW e \in Devices, state'[e] = "live"
            PROVE  \E n \in 1 .. Len(entries') : entries'[n] = e
        <4>1. CASE e = d
          BY <2>2, <2>3, <4>1
        <4>2. CASE e # d
          <5>1. state[e] = "live"
            BY <2>1, <2>2, <3>4, <4>2
          <5>2. PICK n \in 1 .. Len(entries) : entries[n] = e
            BY <1>1, <5>1 DEF TableOfLiving
          <5> QED
            BY <2>3, <5>2
        <4> QED
          BY <4>1, <4>2
      <3> QED
        BY <3>1, <3>2, <3>3, <3>4 DEF TableOfLiving
    <2>7. FindsOwn' /\ \A e \in Devices : state'[e] \in {"none", "made", "live"} => taken'[e] = Nobody
      BY <2>1, <2>2 DEF RegistryInv, FindsOwn
    <2> QED
      BY <2>5, <2>6, <2>7 DEF RegistryInv
  <1>5. ASSUME NEW d \in Devices, Call(d) PROVE RegistryInv'
    <2>1. WithKey(d) = d
      BY <1>5, FoundIsOwn DEF Call
    <2> QED
      BY <1>1, <1>5, <2>1 DEF Call, RegistryInv, RegistryTypes, TableOfLiving, FindsOwn, Exist
  <1>6. ASSUME NEW d \in Devices, Take(d) PROVE RegistryInv'
    <2>1. /\ state[d] = "live" /\ state' = [state EXCEPT ![d] = "taken"]
          /\ taken' = [taken EXCEPT ![d] = WithKey(d)] /\ entries' = Without(d)
          /\ key' = key /\ found' = found
      BY <1>6 DEF Take, Became, Ending
    <2>2. WithKey(d) = d
      BY <2>1, FoundIsOwn
    <2>3. /\ entries' \in Seq(Devices)
          /\ \A e \in Devices : (\E n \in 1 .. Len(entries') : entries'[n] = e)
                                  <=> e # d /\ \E n \in 1 .. Len(entries) : entries[n] = e
          /\ \A m, n \in 1 .. Len(entries') : entries'[m] = entries'[n] => m = n
      BY <2>1, TakenOut
    <2>4. state \in [Devices -> Lives] /\ taken \in [Devices -> Devices \union {Nobody}]
      BY <1>1 DEF RegistryTypes
    <2>5. RegistryTypes'
      BY <1>1, <2>1, <2>2, <2>3 DEF RegistryTypes, Lives
    <2>6. TableOfLiving'
      <3>1. \A e, f \in Exist' : key'[e] = key'[f] => e = f
        BY <1>1, <2>1, <2>4 DEF TableOfLiving, Exist
      <3>2. ASSUME NEW n \in 1 .. Len(entries') PROVE state'[entries'[n]] = "live"
        <4>1. entries'[n] \in Devices
          BY <2>3
        <4>2. entries'[n] # d /\ \E m \in 1 .. Len(entries) : entries[m] = entries'[n]
          BY <2>3, <4>1
        <4>3. state[entries'[n]] = "live"
          BY <1>1, <4>2 DEF TableOfLiving
        <4> QED
          BY <2>1, <2>4, <4>1, <4>2, <4>3
      <3>3. ASSUME NEW e \in Devices, state'[e] = "live"
            PROVE  \E n \in 1 .. Len(entries') : entries'[n] = e
        <4>1. e # d /\ state[e] = "live"
          BY <2>1, <2>4, <3>3
        <4> QED
          BY <1>1, <2>3, <4>1 DEF TableOfLiving
      <3> QED
        BY <2>3, <3>1, <3>2, <3>3 DEF TableOfLiving
    <2>7. FindsOwn' /\ \A e \in Devices : state'[e] \in {"none", "made", "live"} => taken'[e] = Nobody
      BY <2>1, <2>2, <2>4 DEF RegistryInv, FindsOwn
    <2> QED
      BY <2>5, <2>6, <2>7 DEF RegistryInv
  <1>7. ASSUME NEW d \in Devices, Destroyed(d) PROVE RegistryInv'
    BY <1>1, <1>7 DEF Destroyed, Became, Ending, RegistryInv, RegistryTypes, TableOfLiving, FindsOwn, Exist, Lives
  <1>8. CASE UNCHANGED registryVars
    BY <1>8 DEF registryVars, RegistryInv, RegistryTypes, TableOfLiving, FindsOwn, Exist
  <1> QED
    BY <1>2, <1>3, <1>4, <1>5, <1>6, <1>7, <1>8 DEF RegistryNext

\* Every call finds its own device's record and every destruction takes its own.
THEOREM EveryoneFindsOwn == RegistrySpec => []FindsOwn
  <1>1. RegistryInv => FindsOwn
    BY DEF RegistryInv
  <1> QED
    BY RegistryFirst, RegistryStep, <1>1, PTL DEF RegistrySpec

-----------------------------------------------------------------------------
(* DeviceCreation: the layer knows its device, and is never in the way. *)

AppOK == app \in Requests
Asking == {"first", "second", "third"}
There == {"load", "loaded", "fetch", "up"}

\* The family the layer's own queue is asked for has one to spare, and the index
\* is the one behind the application's.
FamilyOK ==
    family # NoFamily => family \in Compute /\ HasSpare(family) /\ index = IndexIn(family)

\* The request sent is the application's with what the layer believes it added.
SentOK ==
    /\ sent.queues = WithExtra(family)
    /\ sent.high = IF high THEN family ELSE NoFamily
    /\ high => family # NoFamily /\ app.queues[family].plain = 0
    /\ int16 => sent.int16
    /\ sent.exists
    /\ sent = [queues |-> sent.queues, high |-> sent.high, int16 |-> sent.int16,
               exists |-> sent.exists]

SharedOK ==
    /\ family \in Compute /\ Shareable(family) /\ index = app.queues[family].plain - 1
    /\ sent.queues = app.queues /\ sent.high = NoFamily /\ ~high
    /\ int16 => sent.int16

CreatedOK == IF phase \in There THEN created = sent /\ sent.exists ELSE ~created.exists

PhaseOK ==
    /\ phase \in {"start", "failed"} \union Asking \union There
    /\ phase = "start" => sent = NoDevice /\ ~shared /\ family = NoFamily
    /\ phase \in Asking \union {"load", "loaded"} => ~shared /\ FamilyOK /\ SentOK
    /\ phase = "second" => high
    /\ phase = "third" => ~high
    /\ phase = "fetch" => IF shared THEN SharedOK ELSE FamilyOK /\ SentOK
    /\ phase = "up" =>
        /\ queue \in {"own", "shared", "none"}
        /\ queue = "own" => family # NoFamily /\ FamilyOK /\ SentOK
        /\ queue = "shared" => SharedOK
        /\ queue = "none" => SharedOK \/ (FamilyOK /\ SentOK)

CreationInv == AppOK /\ PhaseOK /\ CreatedOK /\ NeverInTheWay

-----------------------------------------------------------------------------
(* What is asked for. *)

LEMMA Requested ==
  ASSUME app \in Requests, NEW f \in Families
  PROVE  /\ app.queues \in [Families -> [plain : 0 .. 2, protected : 0 .. 1]]
         /\ app.queues[f].plain \in Nat /\ app.queues[f].protected \in Nat
         /\ Total(app.queues, f) \in Nat /\ Count[f] \in Nat
         /\ Total(app.queues, f) <= Count[f]
         /\ f # NoFamily
  BY FamiliesAssumption DEF Requests, Total, NoFamily

LEMMA LeastFamily ==
  ASSUME NEW F, F \subseteq Families, F # {}
  PROVE  \E f \in F : \A g \in F : f <= g
  <1>1. Families \subseteq Nat
    BY FamiliesAssumption
  <1>2. PICK f \in F : \A g \in F : ~(<<g, f>> \in OpToRel(<, Nat))
    BY <1>1, WFMin, NatLessThanWellFounded
  <1>3. \A g \in F : ~(g < f)
    BY <1>1, <1>2 DEF OpToRel
  <1> QED
    BY <1>1, <1>3

LEMMA ChosenFits ==
  ASSUME Chosen # NoFamily
  PROVE  Chosen \in Compute /\ HasSpare(Chosen)
  <1> DEFINE F == Preferred({f \in Families : HasSpare(f)})
  <1>1. \A f \in F : f \in Compute /\ f \in Families /\ HasSpare(f)
    BY DEF Preferred
  <1>2. F # {} /\ Chosen = CHOOSE f \in F : \A g \in F : f <= g
    BY DEF Chosen
  <1> HIDE DEF F
  <1>3. Chosen \in F
    BY <1>1, <1>2, LeastFamily
  <1> QED
    BY <1>1, <1>3

\* A request with one queue more is one the device can have.
LEMMA ExtraFits ==
  ASSUME app \in Requests, family # NoFamily => family \in Families /\ HasSpare(family)
  PROVE  /\ \A f \in Families : Total(WithExtra(family), f) <= Count[f]
         /\ family # NoFamily => WithExtra(family)[family].plain = app.queues[family].plain + 1
         /\ family = NoFamily => WithExtra(family) = app.queues
  <1>1. ASSUME NEW f \in Families PROVE Total(WithExtra(family), f) <= Count[f]
    <2>1. CASE family = NoFamily \/ f # family
      BY <2>1, Requested DEF WithExtra, Total
    <2>2. CASE family # NoFamily /\ f = family
      BY <2>2, Requested DEF WithExtra, Total, HasSpare
    <2> QED
      BY <2>1, <2>2
  <1>2. CASE family # NoFamily
    <2>1. family \in Families
      BY <1>2
    <2>2. WithExtra(family)[family].plain = app.queues[family].plain + 1
      BY <1>2, <2>1, Requested DEF WithExtra
    <2> QED
      BY <1>1, <1>2, <2>2
  <1>3. CASE family = NoFamily
    BY <1>1, <1>3 DEF WithExtra
  <1> QED
    BY <1>2, <1>3

\* SentValid, from what is known of the request.
LEMMA SentFits == AppOK /\ FamilyOK /\ SentOK => SentValid
  <1> SUFFICES ASSUME app \in Requests, FamilyOK, SentOK PROVE SentValid
    BY DEF AppOK
  <1>1. family # NoFamily => family \in Families /\ HasSpare(family)
    BY FamiliesAssumption DEF FamilyOK
  <1> QED
    BY <1>1, ExtraFits DEF SentValid, SentOK

LEMMA AsItCameFits ==
  ASSUME app \in Requests
  PROVE  \A f \in Families : Total(app.queues, f) <= Count[f]
  BY Requested

-----------------------------------------------------------------------------
(* Every step. *)

LEMMA CreationInitInv == CreationInit => CreationInv
  <1> SUFFICES ASSUME CreationInit PROVE CreationInv
    OBVIOUS
  <1> USE DEF CreationInit, Start, AtRest
  <1>1. PhaseOK /\ CreatedOK
    BY DEF PhaseOK, CreatedOK, Asking, There, NoDevice
  <1>2. SentValid
    <2>1. \A f \in Families : Total(sent.queues, f) = 0 /\ Count[f] \in Nat \ {0}
      BY FamiliesAssumption DEF NoDevice, Total
    <2> QED
      BY <2>1 DEF SentValid, NoDevice
  <1> QED
    BY <1>1, <1>2 DEF CreationInv, AppOK, NeverInTheWay

LEMMA AskForKeeps ==
  ASSUME CreationInv, AskFor
  PROVE  CreationInv'
  <1>1. PICK f \in {Chosen, NoFamily}, h \in BOOLEAN :
            /\ family' = f
            /\ index' = IF f = NoFamily THEN 0 ELSE IndexIn(f)
            /\ h => f # NoFamily /\ app.queues[f].plain = 0
            /\ high' = h
            /\ sent' = [queues |-> WithExtra(f), high |-> IF h THEN f ELSE NoFamily,
                        int16 |-> app.int16 \/ Adds, exists |-> TRUE]
    BY DEF AskFor
  <1>2. family' = f /\ UNCHANGED <<app, refuses, offers, shared, queue, created, broke>>
        /\ int16' = ("sad" \in offers /\ (app.int16 \/ Adds)) /\ phase' = "first" /\ phase = "start"
        /\ (f # NoFamily => index' = IndexIn(f))
    BY <1>1 DEF AskFor, input
  <1>3. FamilyOK'
    BY <1>1, <1>2, ChosenFits DEF FamilyOK, HasSpare, IndexIn
  <1>4. SentOK'
    BY <1>1, <1>2 DEF SentOK, WithExtra
  <1>5. AppOK'
    BY <1>2 DEF CreationInv, AppOK
  <1>6. SentValid'
    BY <1>3, <1>4, <1>5, SentFits, PTL
  <1> QED
    BY <1>2, <1>3, <1>4, <1>5, <1>6 DEF CreationInv, PhaseOK, CreatedOK, NeverInTheWay, Asking, There

\* An attempt that does not fail leaves the request it made, and one that does
\* leads on, or back to the application with what its own request met.
LEMMA FirstKeeps ==
  ASSUME CreationInv, First
  PROVE  CreationInv'
  <1> USE DEF CreationInv, NeverInTheWay, input, remembered
  <1>1. /\ phase = "first" /\ FamilyOK /\ SentOK /\ ~shared /\ AppOK
        /\ UNCHANGED <<app, refuses, family, index, int16, high, shared, queue, broke, sent>>
    BY DEF First, PhaseOK, Asking, Attempt
  <1>2. FamilyOK' /\ SentOK' /\ SentValid' /\ AppOK'
    BY <1>1 DEF AppOK, FamilyOK, SentOK, SentValid, HasSpare, IndexIn, WithExtra
  <1>3. \/ created' = sent /\ phase' = "load"
        \/ ~Grants(sent) /\ ~created'.exists
             /\ phase' = IF high THEN "second" ELSE IF Added(sent) THEN "third" ELSE "failed"
    BY DEF First, Attempt, Restored, NoDevice
  <1>4. ~Grants(sent) /\ ~high /\ ~Added(sent) => "app" \in refuses
    BY <1>1 DEF Grants, Added, SentOK, WithExtra
  <1>5. PhaseOK' /\ CreatedOK'
    BY <1>1, <1>2, <1>3 DEF PhaseOK, CreatedOK, Asking, There, SentOK
  <1> QED
    BY <1>1, <1>2, <1>3, <1>4, <1>5

LEMMA SecondKeeps ==
  ASSUME CreationInv, Second
  PROVE  CreationInv'
  <1> USE DEF CreationInv, NeverInTheWay, input
  <1>1. /\ phase = "second" /\ FamilyOK /\ SentOK /\ high /\ ~shared /\ AppOK
        /\ UNCHANGED <<app, refuses, family, index, int16, shared, queue, broke>>
    BY DEF Second, PhaseOK, Asking
  <1>2. high' = FALSE /\ sent' = [sent EXCEPT !.high = NoFamily]
    BY DEF Second, Attempt
  <1>3. sent'.queues = sent.queues /\ sent'.high = NoFamily /\ sent'.int16 = sent.int16 /\ sent'.exists
    BY <1>1, <1>2 DEF SentOK
  <1>4. FamilyOK' /\ SentOK' /\ AppOK'
    BY <1>1, <1>2, <1>3 DEF AppOK, FamilyOK, SentOK, HasSpare, IndexIn, WithExtra
  <1>5. SentValid'
    BY <1>4, SentFits, PTL
  <1>6. \/ created' = sent' /\ phase' = "load"
        \/ ~created'.exists /\ phase' = "third"
    BY <1>1 DEF Second, Attempt, NoDevice, Added, SentOK
  <1> QED
    BY <1>1, <1>2, <1>3, <1>4, <1>5, <1>6 DEF PhaseOK, CreatedOK, Asking, There

LEMMA ThirdKeeps ==
  ASSUME CreationInv, Third
  PROVE  CreationInv'
  <1> USE DEF CreationInv, NeverInTheWay, input
  <1>1. /\ phase = "third" /\ ~high /\ ~shared /\ AppOK
        /\ UNCHANGED <<app, refuses, index, high, shared, queue, broke>>
    BY DEF Third, PhaseOK, Asking
  <1>2. family' = NoFamily /\ sent' = AsItCame /\ (int16' => app.int16)
    BY DEF Third, Attempt, Int16Kept
  <1>3. FamilyOK' /\ SentOK' /\ AppOK'
    BY <1>1, <1>2 DEF AppOK, FamilyOK, SentOK, WithExtra, AsItCame
  <1>4. SentValid'
    BY <1>3, SentFits, PTL
  <1>5. \/ created' = sent' /\ phase' = "load"
        \/ ~created'.exists /\ phase' = "failed" /\ "app" \in refuses
    BY <1>2 DEF Third, Attempt, NoDevice, Grants, Restored, AsItCame
  <1> QED
    BY <1>1, <1>2, <1>3, <1>4, <1>5 DEF PhaseOK, CreatedOK, Asking, There, SentOK

LEMMA ShareKeeps ==
  ASSUME CreationInv, Share
  PROVE  CreationInv'
  <1> USE DEF CreationInv, NeverInTheWay, input
  <1>1. /\ phase = "loaded" /\ phase' = "fetch" /\ FamilyOK /\ SentOK /\ ~shared /\ AppOK
        /\ UNCHANGED <<app, refuses, sent, int16, high, queue, created, broke>>
    BY DEF Share, PhaseOK, Asking
  <1>2. SentValid' /\ AppOK' /\ CreatedOK' /\ sent.exists
    BY <1>1 DEF AppOK, SentValid, CreatedOK, There
  <1>3. CASE UNCHANGED <<family, index, shared>>
    <2>1. FamilyOK' /\ SentOK'
      BY <1>1, <1>3 DEF AppOK, FamilyOK, SentOK, HasSpare, IndexIn, WithExtra
    <2> QED
      BY <1>1, <1>2, <1>3, <2>1 DEF PhaseOK, Asking, There
  <1>4. CASE ~UNCHANGED <<family, index, shared>>
    <2>1. /\ family = NoFamily /\ shared' = TRUE
          /\ family' \in Preferred({f \in Families : Shareable(f)})
          /\ index' = app.queues[family'].plain - 1
      BY <1>4 DEF Share
    <2>2. family' \in Compute /\ app.queues[family'].plain > 0
      BY <2>1 DEF Preferred, Shareable
    <2>3. SharedOK'
      BY <1>1, <2>1, <2>2 DEF SharedOK, SentOK, WithExtra, Shareable
    <2> QED
      BY <1>1, <1>2, <2>1, <2>3 DEF PhaseOK, Asking, There
  <1> QED
    BY <1>3, <1>4

LEMMA FetchKeeps ==
  ASSUME CreationInv, Fetch
  PROVE  CreationInv'
  <1> USE DEF CreationInv, NeverInTheWay, input
  <1>1. /\ phase = "fetch" /\ phase' = "up" /\ AppOK
        /\ UNCHANGED <<app, refuses, sent, family, index, int16, high, created, broke>>
        /\ queue' \in {"none", IF family = NoFamily THEN "none" ELSE IF shared THEN "shared" ELSE "own"}
    BY DEF Fetch
  <1>2. SentValid' /\ AppOK' /\ CreatedOK'
    BY <1>1 DEF AppOK, SentValid, CreatedOK, There
  <1>3. CASE shared
    <2>1. SharedOK /\ SharedOK'
      BY <1>1, <1>3 DEF PhaseOK, SharedOK, Shareable
    <2> QED
      BY <1>1, <1>2, <1>3, <2>1 DEF PhaseOK, Asking, There
  <1>4. CASE ~shared
    <2>1. FamilyOK' /\ SentOK'
      BY <1>1, <1>4 DEF PhaseOK, FamilyOK, SentOK, HasSpare, IndexIn, WithExtra
    <2> QED
      BY <1>1, <1>2, <1>4, <2>1 DEF PhaseOK, Asking, There
  <1> QED
    BY <1>3, <1>4

LEMMA CreationStep == CreationInv /\ [CreationNext]_creationVars => CreationInv'
  <1> SUFFICES ASSUME CreationInv, [CreationNext]_creationVars PROVE CreationInv'
    OBVIOUS
  <1>1. CASE NoMemory
    BY <1>1 DEF NoMemory, AppOK, CreationInv, PhaseOK, CreatedOK, NeverInTheWay, SentValid, input, Asking,
                There
  <1>2. CASE Load
    <2>1. /\ phase = "load" /\ FamilyOK /\ SentOK /\ ~shared
          /\ UNCHANGED <<app, refuses, offers, sent, family, index, int16, high, shared, queue>>
      BY <1>2 DEF Load, CreationInv, PhaseOK, Asking, input, remembered
    <2>2. FamilyOK' /\ SentOK' /\ SentValid'
      BY <2>1 DEF AppOK, FamilyOK, SentOK, SentValid, HasSpare, IndexIn, WithExtra, CreationInv,
                  NeverInTheWay
    <2>3. \/ phase' = "loaded" /\ UNCHANGED <<created, broke>>
          \/ phase' = "failed" /\ ~created'.exists /\ broke'
      BY <1>2 DEF Load, NoDevice
    <2> QED
      BY <2>1, <2>2, <2>3 DEF CreationInv, AppOK, PhaseOK, CreatedOK, NeverInTheWay, Asking, There
  <1>3. CASE UNCHANGED creationVars
    BY <1>3 DEF creationVars, input, remembered, AppOK, CreationInv, PhaseOK, CreatedOK, NeverInTheWay,
                SentValid, FamilyOK, SentOK, SharedOK, HasSpare, IndexIn, WithExtra, Shareable
  <1> QED
    BY <1>1, <1>2, <1>3, AskForKeeps, FirstKeeps, SecondKeeps, ThirdKeeps, ShareKeeps, FetchKeeps
    DEF CreationNext

LEMMA InvRemembers == CreationInv => RemembersDevice
  <1> SUFFICES ASSUME CreationInv, phase = "up" PROVE RemembersDevice
    BY DEF RemembersDevice
  <1>1. created = sent /\ sent.exists /\ AppOK
    BY DEF CreationInv, CreatedOK, There
  <1>2. SharedOK \/ SentOK
    BY DEF CreationInv, PhaseOK
  <1>3. (int16 => created.int16) /\ (high => created.high = family)
    BY <1>1, <1>2 DEF SharedOK, SentOK
  <1>4. CASE queue = "own"
    <2>1. family \in Compute /\ HasSpare(family) /\ SentOK /\ index = app.queues[family].plain
      BY <1>4 DEF CreationInv, PhaseOK, FamilyOK, IndexIn
    <2>2. family \in Families
      BY <2>1, FamiliesAssumption
    <2>3. created.queues[family].plain = app.queues[family].plain + 1
      BY <1>1, <1>4, <2>1, <2>2, ExtraFits DEF AppOK, SentOK, CreationInv, PhaseOK
    <2>4. app.queues[family].plain \in Nat
      BY <1>1, <2>2, Requested DEF AppOK
    <2> QED
      BY <1>1, <1>3, <1>4, <2>1, <2>3, <2>4 DEF RemembersDevice
  <1>5. CASE queue = "shared"
    <2>1. SharedOK /\ family \in Families
      BY <1>5, FamiliesAssumption DEF CreationInv, PhaseOK, SharedOK
    <2>2. app.queues[family].plain \in Nat
      BY <1>1, <2>1, Requested DEF AppOK
    <2> QED
      BY <1>1, <1>3, <1>5, <2>1, <2>2 DEF RemembersDevice, SharedOK, Shareable
  <1>6. CASE queue = "none"
    BY <1>1, <1>3, <1>6 DEF RemembersDevice
  <1> QED
    BY <1>4, <1>5, <1>6 DEF CreationInv, PhaseOK

\* The layer remembers of the device what the attempt that worked had asked
\* for (layer_device.c:129-161,180-191), whatever the driver refused first.
THEOREM DeviceRemembered == CreationSpec => []RemembersDevice
  BY CreationInitInv, CreationStep, InvRemembers, PTL DEF CreationSpec

\* A device fails for no reason of the layer's but its own memory and entry
\* points (layer_device.c:134-135,153-156), leaves nothing behind then, and
\* no request the layer sends is one the application's was not.
THEOREM LayerNotInTheWay == CreationSpec => []NeverInTheWay
  <1>1. CreationInv => NeverInTheWay
    BY DEF CreationInv
  <1> QED
    BY <1>1, CreationInitInv, CreationStep, PTL DEF CreationSpec

-----------------------------------------------------------------------------
(* PresentModes: what a moved swapchain is created with and presented in. *)

AskedOK ==
    /\ asked.chain \in Seq(Kinds)
    /\ ~HasList(asked.chain) => asked.list = {}

\* The copy has what it went past, or has not begun.
CopyOK ==
    /\ next \in 1 .. Len(asked.chain) + 1
    /\ out = IF next = 1 THEN asked.chain ELSE SubSeq(asked.chain, 1, next - 1)

\* The list is cut down before the chain is copied, and for no other chain.
ListOK == IF HasList(asked.chain) /\ stage # "ask" THEN modes \in {{}, CutDown} ELSE modes = {}

StageOK ==
    /\ stage \in {"ask", "copy", "create", "alive"}
    /\ stage = "ask" => next = 1
    /\ stage = "copy" => HasList(asked.chain) /\ asked.mode \in Fifo /\ modes = CutDown
    /\ stage \in {"ask", "copy"} => ~moved /\ shown = "none"

\* Once moved: the whole chain, the list that was cut down, and what is shown
\* is in it.
MovedOK ==
    moved =>
        /\ out = asked.chain
        /\ HasList(asked.chain) => next > 1 /\ modes = CutDown
        /\ shown = "none" \/ (shown \in modes \ Fifo) \/ shown = "mailbox"

ModesInv == AskedOK /\ CopyOK /\ ListOK /\ StageOK /\ MovedOK

LEMMA ModesInitInv == ModesInit => ModesInv
  <1> SUFFICES ASSUME ModesInit PROVE ModesInv
    OBVIOUS
  <1>1. AskedOK
    BY DEF ModesInit, AskedOK, Chains
  <1>2. next \in 1 .. Len(asked.chain) + 1
    BY <1>1 DEF ModesInit, AskedOK
  <1> QED
    BY <1>1, <1>2 DEF ModesInit, ModesInv, CopyOK, ListOK, StageOK, MovedOK

\* One node more.
LEMMA CopyGrows ==
  ASSUME ModesInv, CopyNode
  PROVE  CopyOK'
  <1>1. asked.chain \in Seq(Kinds) /\ next \in 1 .. Len(asked.chain) /\ next' = next + 1
    BY DEF ModesInv, AskedOK, CopyOK, CopyNode, Copyable
  <1>2. CASE next = 1
    <2>1. out' = <<asked.chain[1]>> /\ next' - 1 = 1
      BY <1>1, <1>2 DEF CopyNode, Linked
    <2>2. SubSeq(asked.chain, 1, 1) = <<asked.chain[1]>>
      <3> DEFINE one == SubSeq(asked.chain, 1, 1)
      <3>1. one \in Seq(Kinds) /\ Len(one) = 1 /\ one[1] = asked.chain[1] /\ asked.chain[1] \in Kinds
        BY <1>1, <1>2, SubSeqProperties
      <3>2. <<asked.chain[1]>> \in Seq(Kinds) /\ Len(<<asked.chain[1]>>) = 1
        BY <3>1
      <3>3. \A i \in 1 .. Len(one) : one[i] = <<asked.chain[1]>>[i]
        BY <3>1
      <3> HIDE DEF one
      <3>4. one = <<asked.chain[1]>>
        BY <3>1, <3>2, <3>3, SeqEqual, Zenon
      <3> QED
        BY <3>4 DEF one
    <2>3. next' = 2 /\ asked' = asked /\ 2 \in 1 .. Len(asked.chain) + 1
      BY <1>1, <1>2 DEF CopyNode
    <2> QED
      BY <2>1, <2>2, <2>3 DEF CopyOK
  <1>3. CASE next # 1
    <2>1. out = SubSeq(asked.chain, 1, next - 1)
      BY <1>3 DEF ModesInv, CopyOK
    <2>2. out' = Append(out, asked.chain[next])
      BY <1>3 DEF CopyNode, Linked
    <2>3. SubSeq(asked.chain, 1, next) = Append(SubSeq(asked.chain, 1, next - 1), asked.chain[next])
      BY <1>1, <1>3, SubSeqRecursiveSecond, SubSeqProperties, AppendIsConcat
    <2> QED
      BY <1>1, <1>3, <2>1, <2>2, <2>3 DEF CopyOK, CopyNode
  <1> QED
    BY <1>2, <1>3

LEMMA ModesStep == ModesInv /\ [ModesNext]_modesVars => ModesInv'
  <1> SUFFICES ASSUME ModesInv, [ModesNext]_modesVars PROVE ModesInv'
    OBVIOUS
  <1> USE DEF ModesInv, AskedOK, ListOK, StageOK, MovedOK, To, CutDown
  <1>1. CASE Leave \/ Create
    <2>1. stage' \in {"create", "alive"} /\ UNCHANGED <<asked, compatible, next, out, modes, moved, shown>>
      BY <1>1 DEF Leave, Create
    <2>2. CopyOK' /\ AskedOK' /\ StageOK' /\ MovedOK'
      BY <2>1 DEF CopyOK
    <2>3. ListOK'
      BY <2>1
    <2> QED
      BY <2>2, <2>3
  <1>2. CASE MoveBare
    BY <1>2 DEF MoveBare, CopyOK
  <1>3. CASE CutList \/ RefuseList \/ RefuseCopy
    BY <1>3 DEF CutList, RefuseList, RefuseCopy, CopyOK
  <1>4. CASE CopyNode
    BY <1>4, CopyGrows DEF CopyNode
  <1>5. CASE CopyDone
    <2>1. asked.chain \in Seq(Kinds) /\ Len(asked.chain) # 0 /\ next = Len(asked.chain) + 1
      BY <1>5 DEF CopyDone, HasList, CopyOK
    <2>2. out = SubSeq(asked.chain, 1, Len(asked.chain)) /\ next > 1
      BY <2>1 DEF CopyOK
    <2>3. out = asked.chain
      BY <2>1, <2>2, SubSeqProperties
    <2> QED
      BY <1>5, <2>2, <2>3 DEF CopyDone, CopyOK
  <1>6. CASE Present
    <2>1. moved => shown' \in modes \ Fifo \/ shown' = "mailbox"
      BY <1>6 DEF Present, Mode, Rewritten
    <2> QED
      BY <1>6, <2>1 DEF Present, CopyOK
  <1>7. CASE UNCHANGED modesVars
    BY <1>7 DEF modesVars, CopyOK
  <1> QED
    BY <1>1, <1>2, <1>3, <1>4, <1>5, <1>6, <1>7 DEF ModesNext

\* A swapchain moved to MAILBOX is created with the application's whole chain
\* (wsi_present_mode.c, copy_chain): no node is lost or comes out of order,
\* wherever the list of modes is in it.
THEOREM MovedChainCarried == ModesSpec => []ChainCarried
  <1>1. ModesInv => ChainCarried
    BY DEF ModesInv, MovedOK, ChainCarried
  <1> QED
    BY <1>1, ModesInitInv, ModesStep, PTL DEF ModesSpec

\* It is told modes the surface allows beside MAILBOX and nothing else, and is
\* presented in those alone.
THEOREM MovedPresentedAllowed == ModesSpec => []PresentedAllowed
  <1>1. ModesInv => PresentedAllowed
    <2> SUFFICES ASSUME ModesInv, stage = "alive", moved
                 PROVE  /\ Mode \in Allowed /\ Allowed \subseteq compatible \union {"mailbox"}
                        /\ shown = "none" \/ shown \in Allowed \ Fifo
      BY DEF PresentedAllowed
    <2> USE DEF ModesInv, MovedOK, Mode, Fifo
    <2>1. CASE HasList(asked.chain)
      <3>1. Allowed = modes /\ modes = CutDown
        BY <2>1 DEF Allowed, Copied
      <3> QED
        BY <3>1 DEF CutDown
    <2>2. CASE ~HasList(asked.chain)
      <3>1. Allowed = {"mailbox"} /\ modes = {}
        BY <2>2 DEF Allowed, ListOK
      <3> QED
        BY <3>1
    <2> QED
      BY <2>1, <2>2
  <1> QED
    BY <1>1, ModesInitInv, ModesStep, PTL DEF ModesSpec

-----------------------------------------------------------------------------
(* PipelineCompile: swapchains created one at a time read nothing half written. *)

Joining == {"joining", "endJoining"}
\* Where a creation has the thread behind it.
Alone == {"look", "create", "compile", "store", "check", "rejoin", "destroy", "endDestroy", "gone"}

Typed ==
    /\ sets \in [Sets -> {"none", "compiling", "whole", "broken", "freed"}]
    /\ at = [c \in Compilers |-> at[c]]
    /\ local = [c \in Compilers |-> local[c]]
    /\ pipelines \in Sets \union {NoSet}
    /\ result \in {"success", "failed"}
    /\ running \in BOOLEAN

OneAtATime ==
    /\ \A c, d \in Creators : Busy(c) /\ Busy(d) => c = d
    /\ \A c \in Creators : at[c] \in {"idle", "join", "endJoin"} \union Joining \union Alone
    /\ \A c \in Creators : at[c] = "gone" => device = "gone"
    /\ device = "new" => \A c \in Creators : ~Busy(c)

\* The thread runs or is joined; while it runs, nobody is past the join.
ThreadOK ==
    /\ at[Background] \in IF running THEN {"create", "compile", "store", "ended"}
                                     ELSE {"idle", "ended"}
    /\ device = "new" => ~running /\ at[Background] = "idle" /\ joiners = <<>>
                         /\ pipelines = NoSet /\ given = {}
    /\ running => given = {} /\ \A c \in Creators : at[c] \notin Alone
    /\ \A c \in Creators : at[c] \in Joining => running /\ joiners = <<c>>
    /\ joiners # <<>> => \/ ~running /\ \E c \in Creators : joiners = <<c>>
                         \/ \E c \in Creators : at[c] \in Joining

Working(c) == at[c] \in {"create", "compile", "store"}

\* One set at a time: the device's.
OthersGone == \A n \in Sets : n # pipelines => sets[n] \in {"none", "freed"}

\* It is the one that a compilation works on.
WorkOK ==
    \A c \in Compilers :
        /\ at[c] = "create" => pipelines = NoSet
        /\ at[c] \in {"compile", "store"} => pipelines \in Sets /\ local[c] = pipelines
        /\ at[c] = "store" => sets[pipelines] \in {"whole", "broken"}

\* Nobody compiles: it is settled, and the result is its own.
NoneWorks == \A c \in Compilers : ~Working(c)
Settled ==
    pipelines # NoSet /\ NoneWorks =>
        sets[pipelines] = IF result = "success" THEN "whole" ELSE "broken"

\* What was given is still the device's.
GivenOK ==
    /\ given \subseteq {pipelines} \ {NoSet}
    /\ given # {} => result = "success" /\ NoneWorks
PlacesOK ==
    \A c \in Creators :
        /\ at[c] = "check" => pipelines # NoSet \/ result = "failed"
        /\ at[c] \in {"rejoin", "destroy"} => result = "failed"
        /\ at[c] \in {"endJoin", "endJoining", "endDestroy", "gone"} => given = {}

EndOK ==
    device = "gone" => pipelines = NoSet /\ ~running /\ \A c \in Creators : at[c] \in {"idle", "gone"}

CompileInv ==
    /\ Typed /\ OneAtATime /\ ThreadOK /\ EndOK
    /\ OthersGone /\ WorkOK /\ Settled /\ GivenOK /\ PlacesOK

-----------------------------------------------------------------------------

LEMMA CompileInitInv == CompileInit => CompileInv
  BY DEF CompileInit, CompileInv, Typed, OneAtATime, ThreadOK, OthersGone, WorkOK, Settled, GivenOK,
         PlacesOK, EndOK, NoneWorks, Busy, Working, Compilers, NoSet, Sets, Joining, Alone

LEMMA StepMoves ==
  ASSUME Typed, NEW c \in Compilers, NEW from, NEW to, Step(c, from, to)
  PROVE  /\ at' = [d \in Compilers |-> at'[d]]
         /\ \A d \in Compilers : at'[d] = IF d = c THEN to ELSE at[d]
         /\ at[c] = from
  BY DEF Typed, Step

LEMMA PrepareKeeps ==
  ASSUME CompileInv, Serialised, Prepare
  PROVE  CompileInv'
  <1> USE BackgroundAssumption DEF CompileInv, Compilers, Prepare
  <1>0. \A d \in Compilers : at'[d] = at[d] \/ (d = Background /\ at[d] = "idle" /\ at'[d] = "create")
    BY StepMoves DEF After
  <1>1. Typed'
    BY StepMoves DEF Typed, NoSet, After, Begun
  <1>2. OneAtATime'
    BY <1>0 DEF OneAtATime, Busy, Joining, Alone, After
  <1>3. ThreadOK'
    <2>1. \A c \in Creators : at'[c] = "idle"
      BY <1>0 DEF OneAtATime, Busy
    <2>2. /\ device' # "new" /\ joiners' = <<>> /\ given' = {}
          /\ running' = TRUE => at'[Background] = "create"
          /\ running' = FALSE => at'[Background] = "idle"
      BY StepMoves DEF ThreadOK
    <2>3. running' \in BOOLEAN
      BY <1>1 DEF Typed
    <2> QED
      BY <2>1, <2>2, <2>3 DEF ThreadOK, Alone, Joining
  <1>4. OthersGone'
    BY <1>0 DEF Typed, OthersGone, WorkOK, NoSet
  <1>5. WorkOK'
    BY <1>0 DEF Typed, WorkOK, OneAtATime, ThreadOK, Busy, Alone, Joining, NoSet, After
  <1>6. Settled'
    BY <1>0 DEF Typed, WorkOK, OthersGone, Settled, NoneWorks, Working, NoSet, After
  <1>7. GivenOK'
    BY DEF ThreadOK, GivenOK
  <1>8. PlacesOK'
    BY <1>0 DEF Typed, OneAtATime, Busy, PlacesOK, GivenOK, NoSet, After, Usable
  <1>9. EndOK'
    BY <1>0 DEF OneAtATime, ThreadOK, EndOK, Busy, Alone, Joining, After
  <1> QED
    BY <1>1, <1>2, <1>3, <1>4, <1>5, <1>6, <1>7, <1>8, <1>9

LEMMA BeginKeeps ==
  ASSUME CompileInv, Serialised, NEW c \in Compilers, Begin(c)
  PROVE  CompileInv'
  <1> USE BackgroundAssumption DEF CompileInv, Compilers, Begin
  <1>0. at[c] = "create" /\ at'[c] \in {"compile", After(c)} /\ \A d \in Compilers \ {c} : at'[d] = at[d]
    BY StepMoves DEF After
  <1>1. Typed'
    BY StepMoves DEF Typed, NoSet, After, Begun
  <1>2. OneAtATime'
    BY <1>0 DEF OneAtATime, Busy, Joining, Alone, After
  <1>3. ThreadOK'
    BY <1>0 DEF OneAtATime, ThreadOK, Busy, Joining, Alone, After, GivenOK
  <1>4. OthersGone'
    <2>1. \A n \in Sets : sets[n] \in {"none", "freed"}
      <3>1. pipelines = NoSet
        BY <1>0 DEF WorkOK
      <3> QED
        BY <3>1, CompileAssumption DEF OthersGone, NoSet, Sets
    <2> QED
      BY <1>0, <2>1 DEF Typed, OthersGone
  <1>5. WorkOK'
    <2>1. \A d \in Compilers \ {c} : at[d] \notin {"create", "compile", "store"}
      BY <1>0 DEF OneAtATime, ThreadOK, Busy, Alone
    <2>2. at'[c] = "compile" => pipelines' \in Sets /\ local'[c] = pipelines'
      BY <1>0, StepMoves, SMTT(30) DEF Typed, After
    <2> QED
      BY <1>0, <2>1, <2>2 DEF After, WorkOK
  <1>6. Settled'
    <2>1. CASE at'[c] = "compile"
      BY <2>1 DEF Settled, NoneWorks, Working
    <2>2. CASE at'[c] # "compile"
      <3>1. UNCHANGED pipelines /\ pipelines = NoSet
        BY <1>0, <2>2, StepMoves DEF WorkOK
      <3> QED
        BY <3>1 DEF Settled
    <2> QED
      BY <2>1, <2>2
  <1>7. GivenOK'
    BY <1>0 DEF Typed, GivenOK, PlacesOK, NoneWorks, Working, NoSet, After, Usable
  <1>8. PlacesOK'
    <2>1. given = {}
      BY <1>0 DEF WorkOK, GivenOK
    <2>2. at'[c] \in {"compile", "ended"} \/ (at'[c] = "check" /\ result' = "failed")
      BY <1>0, StepMoves DEF After
    <2>3. \A d \in Creators \ {c} : at[d] \notin {"check", "rejoin", "destroy"}
      BY <1>0 DEF OneAtATime, ThreadOK, Busy, Alone, Joining
    <2> QED
      BY <1>0, <2>1, <2>2, <2>3 DEF PlacesOK
  <1>9. EndOK'
    BY <1>0 DEF OneAtATime, ThreadOK, EndOK, Busy, Alone, Joining, After
  <1> QED
    BY <1>1, <1>2, <1>3, <1>4, <1>5, <1>6, <1>7, <1>8, <1>9

LEMMA CompileKeeps ==
  ASSUME CompileInv, Serialised, NEW c \in Compilers, Compile(c)
  PROVE  CompileInv'
  <1> USE BackgroundAssumption DEF CompileInv, Compilers, Compile
  <1>0. at[c] = "compile" /\ at'[c] = "store" /\ \A d \in Compilers \ {c} : at'[d] = at[d]
    BY StepMoves DEF After
  <1>1. Typed'
    <2>1. at' = [d \in Compilers |-> at'[d]]
      BY StepMoves
    <2> QED
      BY <2>1 DEF Typed, NoSet
  <1>2. OneAtATime'
    BY <1>0 DEF OneAtATime, Busy, Joining, Alone, After
  <1>3. ThreadOK'
    BY <1>0 DEF OneAtATime, ThreadOK, Busy, Joining, Alone, After, GivenOK
  <1>4. OthersGone'
    BY <1>0 DEF Typed, OthersGone, WorkOK, NoSet
  <1>5. WorkOK'
    <2>1. \A d \in Compilers \ {c} : at[d] \notin {"create", "compile", "store"}
      BY <1>0 DEF OneAtATime, ThreadOK, Busy, Alone
    <2>2. sets'[pipelines] \in {"whole", "broken"}
      BY <1>0 DEF Typed, WorkOK
    <2> QED
      BY <1>0, <2>1, <2>2 DEF Typed, WorkOK
  <1>6. Settled'
    BY <1>0 DEF Typed, WorkOK, OthersGone, Settled, NoneWorks, Working, NoSet, After
  <1>7. GivenOK'
    BY <1>0 DEF Typed, GivenOK, PlacesOK, NoneWorks, Working, NoSet, After, Usable
  <1>8. PlacesOK'
    BY <1>0 DEF Typed, OneAtATime, Busy, PlacesOK, GivenOK, NoSet, After, Usable
  <1>9. EndOK'
    BY <1>0 DEF OneAtATime, ThreadOK, EndOK, Busy, Alone, Joining, After
  <1> QED
    BY <1>1, <1>2, <1>3, <1>4, <1>5, <1>6, <1>7, <1>8, <1>9

LEMMA StoreKeeps ==
  ASSUME CompileInv, Serialised, NEW c \in Compilers, Store(c)
  PROVE  CompileInv'
  <1> USE BackgroundAssumption DEF CompileInv, Compilers, Store
  <1>0. at[c] = "store" /\ at'[c] = After(c) /\ \A d \in Compilers \ {c} : at'[d] = at[d]
    BY StepMoves DEF After
  <1>1. Typed'
    BY StepMoves DEF Typed, NoSet, After, Begun
  <1>2. OneAtATime'
    BY <1>0 DEF OneAtATime, Busy, Joining, Alone, After
  <1>3. ThreadOK'
    BY <1>0 DEF OneAtATime, ThreadOK, Busy, Joining, Alone, After, GivenOK
  <1>4. OthersGone'
    BY <1>0 DEF Typed, OthersGone, WorkOK, NoSet
  <1>5. WorkOK'
    BY <1>0 DEF Typed, WorkOK, OneAtATime, ThreadOK, Busy, Alone, Joining, NoSet, After
  <1>6. Settled'
    BY <1>0 DEF Typed, WorkOK, OthersGone, Settled, NoneWorks, Working, NoSet, After
  <1>7. GivenOK'
    BY <1>0 DEF Typed, GivenOK, PlacesOK, NoneWorks, Working, NoSet, After, Usable
  <1>8. PlacesOK'
    <2>1. given = {} /\ pipelines # NoSet
      BY <1>0 DEF WorkOK, GivenOK, NoneWorks, Working, NoSet, Sets
    <2>2. \A d \in Creators \ {c} : at[d] \notin {"check", "rejoin", "destroy"}
      BY <1>0 DEF OneAtATime, ThreadOK, Busy, Alone
    <2>3. at'[c] \in {"ended", "check"}
      BY <1>0 DEF After
    <2> QED
      BY <1>0, <2>1, <2>2, <2>3 DEF PlacesOK
  <1>9. EndOK'
    BY <1>0 DEF OneAtATime, ThreadOK, EndOK, Busy, Alone, Joining, After
  <1> QED
    BY <1>1, <1>2, <1>3, <1>4, <1>5, <1>6, <1>7, <1>8, <1>9

LEMMA GetKeeps ==
  ASSUME CompileInv, Serialised, NEW c \in Creators, Get(c)
  PROVE  CompileInv'
  <1> USE BackgroundAssumption DEF CompileInv, Compilers, Get
  <1>0. at[c] = "idle" /\ at'[c] = "join" /\ \A d \in Compilers \ {c} : at'[d] = at[d]
    BY StepMoves DEF After
  <1>1. Typed'
    BY StepMoves DEF Typed, NoSet, After, Begun
  <1>2. OneAtATime'
    BY <1>0 DEF OneAtATime, Busy, Joining, Alone, After
  <1>3. ThreadOK'
    BY <1>0 DEF OneAtATime, ThreadOK, Busy, Joining, Alone, After, GivenOK
  <1>4. OthersGone'
    BY <1>0 DEF Typed, OthersGone, WorkOK, NoSet
  <1>5. WorkOK'
    BY <1>0 DEF Typed, WorkOK, OneAtATime, ThreadOK, Busy, Alone, Joining, NoSet, After
  <1>6. Settled'
    BY <1>0 DEF Typed, WorkOK, OthersGone, Settled, NoneWorks, Working, NoSet, After
  <1>7. GivenOK'
    BY <1>0 DEF Typed, GivenOK, PlacesOK, NoneWorks, Working, NoSet, After, Usable
  <1>8. PlacesOK'
    BY <1>0 DEF Typed, OneAtATime, Busy, PlacesOK, GivenOK, NoSet, After, Usable
  <1>9. EndOK'
    BY <1>0 DEF OneAtATime, ThreadOK, EndOK, Busy, Alone, Joining, After
  <1> QED
    BY <1>1, <1>2, <1>3, <1>4, <1>5, <1>6, <1>7, <1>8, <1>9

LEMMA LookKeeps ==
  ASSUME CompileInv, Serialised, NEW c \in Creators, Look(c)
  PROVE  CompileInv'
  <1> USE BackgroundAssumption DEF CompileInv, Compilers, Look
  <1>0. at[c] = "look" /\ at'[c] = (IF pipelines = NoSet THEN "create" ELSE "check") /\ \A d \in Compilers \ {c} : at'[d] = at[d]
    BY StepMoves DEF After
  <1>1. Typed'
    BY StepMoves DEF Typed, NoSet, After, Begun
  <1>2. OneAtATime'
    BY <1>0 DEF OneAtATime, Busy, Joining, Alone, After
  <1>3. ThreadOK'
    BY <1>0 DEF OneAtATime, ThreadOK, Busy, Joining, Alone, After, GivenOK
  <1>4. OthersGone'
    BY <1>0 DEF Typed, OthersGone, WorkOK, NoSet
  <1>5. WorkOK'
    BY <1>0 DEF Typed, WorkOK, OneAtATime, ThreadOK, Busy, Alone, Joining, NoSet, After
  <1>6. Settled'
    BY <1>0 DEF Typed, WorkOK, OthersGone, Settled, NoneWorks, Working, NoSet, After
  <1>7. GivenOK'
    BY <1>0 DEF Typed, GivenOK, PlacesOK, NoneWorks, Working, NoSet, After, Usable
  <1>8. PlacesOK'
    BY <1>0 DEF Typed, OneAtATime, Busy, PlacesOK, GivenOK, NoSet, After, Usable
  <1>9. EndOK'
    BY <1>0 DEF OneAtATime, ThreadOK, EndOK, Busy, Alone, Joining, After
  <1> QED
    BY <1>1, <1>2, <1>3, <1>4, <1>5, <1>6, <1>7, <1>8, <1>9

LEMMA CheckKeeps ==
  ASSUME CompileInv, Serialised, NEW c \in Creators, Check(c)
  PROVE  CompileInv'
  <1> USE BackgroundAssumption DEF CompileInv, Compilers, Check
  <1>0. at[c] = "check" /\ at'[c] = (IF Usable THEN "idle" ELSE "rejoin") /\ \A d \in Compilers \ {c} : at'[d] = at[d]
    BY StepMoves DEF After
  <1>1. Typed'
    BY StepMoves DEF Typed, NoSet, After, Begun
  <1>2. OneAtATime'
    BY <1>0 DEF OneAtATime, Busy, Joining, Alone, After
  <1>3. ThreadOK'
    BY <1>0 DEF OneAtATime, ThreadOK, Busy, Joining, Alone, After, GivenOK
  <1>4. OthersGone'
    BY <1>0 DEF Typed, OthersGone, WorkOK, NoSet
  <1>5. WorkOK'
    BY <1>0 DEF Typed, WorkOK, OneAtATime, ThreadOK, Busy, Alone, Joining, NoSet, After
  <1>6. Settled'
    BY <1>0 DEF Typed, WorkOK, OthersGone, Settled, NoneWorks, Working, NoSet, After
  <1>7. GivenOK'
    <2>1. NoneWorks'
      BY <1>0 DEF OneAtATime, ThreadOK, Busy, Alone, NoneWorks, Working
    <2> QED
      BY <1>0, <2>1 DEF Typed, GivenOK, PlacesOK, NoSet, Usable
  <1>8. PlacesOK'
    BY <1>0 DEF Typed, OneAtATime, Busy, PlacesOK, GivenOK, NoSet, After, Usable
  <1>9. EndOK'
    BY <1>0 DEF OneAtATime, ThreadOK, EndOK, Busy, Alone, Joining, After
  <1> QED
    BY <1>1, <1>2, <1>3, <1>4, <1>5, <1>6, <1>7, <1>8, <1>9

LEMMA EndKeeps ==
  ASSUME CompileInv, Serialised, NEW c \in Creators, End(c)
  PROVE  CompileInv'
  <1> USE BackgroundAssumption DEF CompileInv, Compilers, End
  <1>0. at[c] = "idle" /\ at'[c] = "endJoin" /\ \A d \in Compilers \ {c} : at'[d] = at[d]
    BY StepMoves DEF After
  <1>1. Typed'
    BY StepMoves DEF Typed, NoSet, After, Begun
  <1>2. OneAtATime'
    BY <1>0 DEF OneAtATime, Busy, Joining, Alone, After
  <1>3. ThreadOK'
    BY <1>0 DEF OneAtATime, ThreadOK, Busy, Joining, Alone, After, GivenOK
  <1>4. OthersGone'
    BY <1>0 DEF Typed, OthersGone, WorkOK, NoSet
  <1>5. WorkOK'
    BY <1>0 DEF Typed, WorkOK, OneAtATime, ThreadOK, Busy, Alone, Joining, NoSet, After
  <1>6. Settled'
    BY <1>0 DEF Typed, WorkOK, OthersGone, Settled, NoneWorks, Working, NoSet, After
  <1>7. GivenOK'
    BY <1>0 DEF Typed, GivenOK, PlacesOK, NoneWorks, Working, NoSet, After, Usable
  <1>8. PlacesOK'
    BY <1>0 DEF Typed, OneAtATime, Busy, PlacesOK, GivenOK, NoSet, After, Usable
  <1>9. EndOK'
    BY <1>0 DEF OneAtATime, ThreadOK, EndOK, Busy, Alone, Joining, After
  <1> QED
    BY <1>1, <1>2, <1>3, <1>4, <1>5, <1>6, <1>7, <1>8, <1>9

\* The three joins: of a creation, of a failed creation, of the device's end.
Joins == {<<"join", "look">>, <<"rejoin", "destroy">>, <<"endJoin", "endDestroy">>}

LEMMA JoinKeeps ==
  ASSUME CompileInv, Serialised, NEW c \in Creators, NEW j \in Joins, Join(c, j[1], j[2])
  PROVE  CompileInv'
  <1> USE BackgroundAssumption DEF CompileInv, Compilers, Join, Joins
  <1>0. /\ at[c] = j[1] /\ \A d \in Compilers \ {c} : at'[d] = at[d]
        /\ \/ ~running /\ at'[c] = j[2] /\ UNCHANGED joiners
           \/ running /\ at'[c] = InJoin[j[1]] /\ joiners' = Append(joiners, c)
    BY StepMoves
  <1>1. Typed'
    BY StepMoves DEF Typed
  <1>2. running => /\ j[1] # "rejoin" /\ at'[c] \in Joining /\ joiners' = <<c>>
                   /\ at'[c] = IF j[1] = "join" THEN "joining" ELSE "endJoining"
    <2> SUFFICES ASSUME running
                 PROVE /\ j[1] # "rejoin" /\ at'[c] \in Joining /\ joiners' = <<c>>
                       /\ at'[c] = IF j[1] = "join" THEN "joining" ELSE "endJoining"
      OBVIOUS
    <2>1. at[c] \notin Alone /\ j[1] # "rejoin"
      BY <1>0 DEF ThreadOK, Alone
    <2>2. \A d \in Creators : at[d] \notin Joining
      BY <1>0 DEF OneAtATime, Busy, Joining
    <2>3. joiners = <<>>
      BY <2>2 DEF ThreadOK
    <2> QED
      BY <1>0, <2>1, <2>3 DEF InJoin, Joining
  <1>3. OneAtATime'
    BY <1>0, <1>2 DEF OneAtATime, Busy, Joining, Alone
  <1>4. ThreadOK'
    <2>1. \A d \in Creators \ {c} : at[d] = "idle" /\ at'[d] = "idle"
      BY <1>0 DEF OneAtATime, Busy
    <2>2. CASE running
      BY <1>0, <1>2, <2>1, <2>2 DEF ThreadOK, Joining, Alone
    <2>3. CASE ~running
      BY <1>0, <2>1, <2>3 DEF ThreadOK, Joining, Alone
    <2> QED
      BY <2>2, <2>3
  <1>5. WorkOK' /\ OthersGone'
    BY <1>0, <1>2 DEF WorkOK, OthersGone, Joining
  <1>6. NoneWorks' = NoneWorks
    BY <1>0, <1>2 DEF NoneWorks, Working, Joining
  <1>7. Settled' /\ GivenOK'
    BY <1>6 DEF Settled, GivenOK
  <1>8. PlacesOK'
    BY <1>0, <1>2 DEF PlacesOK
  <1>9. EndOK'
    BY <1>0 DEF EndOK
  <1> QED
    BY <1>1, <1>3, <1>4, <1>5, <1>7, <1>8, <1>9

LEMMA JoinedKeeps ==
  ASSUME CompileInv, Serialised, NEW c \in Creators, NEW j \in Joins, Joined(c, j[1], j[2])
  PROVE  CompileInv'
  <1> USE BackgroundAssumption DEF CompileInv, Compilers, Joined, Joins
  <1>0. at[c] = InJoin[j[1]] /\ at'[c] = j[2] /\ \A d \in Compilers \ {c} : at'[d] = at[d]
    BY StepMoves
  <1>1. Typed'
    BY StepMoves DEF Typed
  <1>2. j[1] # "rejoin" /\ at[c] = (IF j[1] = "join" THEN "joining" ELSE "endJoining")
    BY <1>0 DEF InJoin, OneAtATime, Joining, Alone
  <1>3. joiners = <<c>> /\ at[Background] = "ended"
    BY <1>0, <1>2 DEF ThreadOK, Joining, ThreadEnded
  <1>4. OneAtATime'
    BY <1>0, <1>2 DEF OneAtATime, Busy, Joining, Alone
  <1>5. ThreadOK'
    BY <1>0, <1>2, <1>3 DEF ThreadOK, OneAtATime, Busy, Joining, Alone
  <1>6. WorkOK' /\ OthersGone'
    BY <1>0, <1>2 DEF WorkOK, OthersGone
  <1>7. NoneWorks' = NoneWorks
    BY <1>0, <1>2 DEF NoneWorks, Working
  <1>8. Settled' /\ GivenOK'
    BY <1>7 DEF Settled, GivenOK
  <1>9. PlacesOK' /\ EndOK'
    BY <1>0, <1>2 DEF PlacesOK, EndOK
  <1> QED
    BY <1>1, <1>4, <1>5, <1>6, <1>8, <1>9

\* The device's set is destroyed, in a creation that failed or at the end.
LEMMA DestroyKeeps ==
  ASSUME CompileInv, Serialised, NEW c \in Creators,
         \/ Destroy(c, "destroy", "idle") /\ UNCHANGED device
         \/ Destroy(c, "endDestroy", "gone") /\ device' = "gone"
  PROVE  CompileInv'
  <1> USE BackgroundAssumption DEF CompileInv, Compilers, Destroy
  <1>0. /\ \/ at[c] = "destroy" /\ at'[c] = "idle" /\ UNCHANGED device
           \/ at[c] = "endDestroy" /\ at'[c] = "gone" /\ device' = "gone"
        /\ \A d \in Compilers \ {c} : at'[d] = at[d]
    BY StepMoves
  <1>1. Typed'
    BY StepMoves DEF Typed
  <1>2. \A d \in Creators \ {c} : at[d] = "idle" /\ at'[d] = "idle"
    BY <1>0 DEF OneAtATime, Busy
  <1>3. ~running /\ at[Background] \in {"idle", "ended"} /\ device # "new"
    BY <1>0 DEF ThreadOK, OneAtATime, Busy, Alone
  <1>4. given = {}
    BY <1>0 DEF PlacesOK, GivenOK
  <1>5. OneAtATime' /\ ThreadOK'
    BY <1>0, <1>2, <1>3 DEF OneAtATime, ThreadOK, Busy, Joining, Alone
  <1>6. OthersGone' /\ Settled'
    BY DEF OthersGone, Settled, Typed
  <1>7. WorkOK'
    BY <1>0, <1>2, <1>3 DEF WorkOK
  <1>8. GivenOK' /\ PlacesOK' /\ EndOK'
    BY <1>0, <1>2, <1>3, <1>4 DEF GivenOK, PlacesOK, EndOK
  <1> QED
    BY <1>1, <1>5, <1>6, <1>7, <1>8

LEMMA CompileStep == Serialised /\ CompileInv /\ [CompileNext]_compileVars => CompileInv'
  <1> SUFFICES ASSUME Serialised, CompileInv, [CompileNext]_compileVars PROVE CompileInv'
    OBVIOUS
  <1>1. CASE UNCHANGED compileVars
    BY <1>1 DEF compileVars, CompileInv, Typed, OneAtATime, ThreadOK, OthersGone, WorkOK, Settled,
                GivenOK, PlacesOK, EndOK, NoneWorks, Busy, Working
  <1>2. CASE Prepare \/ \E c \in Compilers : Begin(c) \/ Compile(c) \/ Store(c)
    BY <1>2, PrepareKeeps, BeginKeeps, CompileKeeps, StoreKeeps
  <1>3. CASE \E c \in Creators : Get(c) \/ Look(c) \/ Check(c) \/ End(c)
    BY <1>3, GetKeeps, LookKeeps, CheckKeeps, EndKeeps
  <1>4. ASSUME NEW c \in Creators, Join(c, "join", "look") \/ Join(c, "rejoin", "destroy")
                                   \/ Join(c, "endJoin", "endDestroy")
        PROVE  CompileInv'
    <2>1. ASSUME NEW j \in Joins, Join(c, j[1], j[2]) PROVE CompileInv'
      BY <2>1, JoinKeeps
    <2> QED
      BY <1>4, <2>1 DEF Joins
  <1>5. ASSUME NEW c \in Creators, Joined(c, "join", "look") \/ Joined(c, "rejoin", "destroy")
                                   \/ Joined(c, "endJoin", "endDestroy")
        PROVE  CompileInv'
    <2>1. ASSUME NEW j \in Joins, Joined(c, j[1], j[2]) PROVE CompileInv'
      BY <2>1, JoinedKeeps
    <2> QED
      BY <1>5, <2>1 DEF Joins
  <1> QED
    BY <1>1, <1>2, <1>3, <1>4, <1>5, DestroyKeeps DEF CompileNext

\* While the application creates its swapchains one at a time, no creation is
\* given pipelines that are half compiled, left by a failure or destroyed by
\* another's (framegen_pipelines.c:37-38,181-196), though the thread and the
\* creations share their fields without a lock.
THEOREM SerialisedGivenWhole == Serialised => (CompileSpec => []GivenWhole)
  <1> SUFFICES ASSUME Serialised PROVE CompileSpec => []GivenWhole
    OBVIOUS
  <1>1. CompileInv => GivenWhole
    BY DEF CompileInv, Typed, GivenOK, Settled, GivenWhole
  <1>2. CompileInv /\ [CompileNext]_compileVars => CompileInv'
    BY CompileStep
  <1> QED
    BY <1>1, <1>2, CompileInitInv, PTL DEF CompileSpec

\* And the device ends with its thread joined once and no set left
\* (framegen_pipelines.c:63-88).
THEOREM SerialisedNothingOutlives == Serialised => (CompileSpec => []NothingCompiledOutlives)
  <1> SUFFICES ASSUME Serialised PROVE CompileSpec => []NothingCompiledOutlives
    OBVIOUS
  <1>1. CompileInv => NothingCompiledOutlives
    <2> SUFFICES ASSUME CompileInv PROVE NothingCompiledOutlives
      OBVIOUS
    <2>1. Len(joiners) <= 1
      <3>1. joiners = <<>> \/ \E c \in Creators : joiners = <<c>>
        BY DEF CompileInv, ThreadOK
      <3>2. CASE joiners = <<>>
        BY <3>2
      <3>3. ASSUME NEW c \in Creators, joiners = <<c>> PROVE Len(joiners) <= 1
        <4>1. Len(<<c>>) <= 1
          OBVIOUS
        <4> QED
          BY <3>3, <4>1, Zenon
      <3> QED
        BY <3>1, <3>2, <3>3, Zenon
    <2>2. device = "gone" => \A n \in Sets : sets[n] \in {"none", "freed"}
      BY CompileAssumption DEF CompileInv, EndOK, OthersGone, Sets, NoSet
    <2>3. device = "gone" => at[Background] \in {"idle", "ended"} /\ ~running
      BY DEF CompileInv, EndOK, ThreadOK
    <2> QED
      BY <2>1, <2>2, <2>3 DEF NothingCompiledOutlives
  <1>2. CompileInv /\ [CompileNext]_compileVars => CompileInv'
    BY CompileStep
  <1> QED
    BY <1>1, <1>2, CompileInitInv, PTL DEF CompileSpec

-----------------------------------------------------------------------------
(* Governor: the steps and how the companions lie among the frames. *)

WatchTypes ==
    /\ lateStreak \in 0 .. LateFrames /\ earlyStreak \in 0 .. EarlyFrames
    /\ step \in 0 .. Steps
    /\ ordinal \in 0 .. 5
    /\ sinceStep \in 0 .. Longest /\ sinceFloor \in 0 .. Longest
    /\ steady \in 0 .. Steps /\ gap \in 0 .. Steps

\* A streak is no longer than the time since what last put it to nothing.
StreaksCount ==
    /\ lateStreak =< sinceStep /\ earlyStreak =< sinceStep
    /\ lateStreak =< sinceFloor /\ earlyStreak =< sinceFloor

\* How far the last frame is past the last one whose turn it was.
Past == ordinal % Every

\* Governed that far back at this step, the frames since that turn are the ones
\* since the last companion; not yet so far, none of them had one.
GapFromTurn ==
    steady >= 1 => IF steady > Past THEN gap = Past ELSE gap >= steady

WatchInv == WatchTypes /\ StreaksCount /\ GapFromTurn

USE CountsAssumption

LEMMA StartWatched == WatchInit => WatchInv
BY DEF WatchInit, Init, WatchInv, WatchTypes, StreaksCount, GapFromTurn, Longest

\* What one question does to the streaks and the step: each streak grows by one
\* at most, from nothing when the floor was just cleared, and a change of step
\* takes a full streak and leaves both at nothing.
LEMMA QuestionMoves ==
  ASSUME WatchTypes, Ask
  PROVE  /\ lateStreak' \in 0 .. LateFrames /\ earlyStreak' \in 0 .. EarlyFrames
         /\ step' \in 0 .. Steps
         /\ lateStreak' =< lateStreak + 1 /\ earlyStreak' =< earlyStreak + 1
         /\ Clears => lateStreak' =< 1 /\ earlyStreak' =< 1
         /\ step' # step => lateStreak' = 0 /\ earlyStreak' = 0
         /\ step' > step => LateBefore + 1 >= LateFrames
         /\ step' < step => EarlyBefore + 1 >= EarlyFrames
<1>0. LateBefore \in 0 .. LateFrames /\ EarlyBefore \in 0 .. EarlyFrames
      /\ LateBefore =< lateStreak /\ EarlyBefore =< earlyStreak
      /\ (Clears => LateBefore = 0 /\ EarlyBefore = 0)
  BY DEF LateBefore, EarlyBefore, WatchTypes
<1>1. CASE HoldBack
  <2>1. UNCHANGED <<lateStreak, earlyStreak, step>> /\ ~Clears
    BY <1>1 DEF HoldBack, Below, Clears
  <2>2. QED
    BY <2>1 DEF WatchTypes
<1>2. CASE Govern
  <2>1. Streaks
    BY <1>2 DEF Govern
  <2>2. CASE AfterLate
    <3>1. CASE LateBefore + 1 >= LateFrames /\ step < Steps
      BY <1>0, <2>2, <3>1 DEF AfterLate, WatchTypes
    <3>2. CASE ~(LateBefore + 1 >= LateFrames /\ step < Steps)
      BY <1>0, <2>2, <3>2 DEF AfterLate, WatchTypes, Counted
    <3>3. QED
      BY <3>1, <3>2
  <2>3. CASE AfterEarly
    <3>1. CASE EarlyBefore + 1 >= EarlyFrames /\ step > 0
      BY <1>0, <2>3, <3>1 DEF AfterEarly, WatchTypes
    <3>2. CASE ~(EarlyBefore + 1 >= EarlyFrames /\ step > 0)
      BY <1>0, <2>3, <3>2 DEF AfterEarly, WatchTypes, Counted
    <3>3. QED
      BY <3>1, <3>2
  <2>4. CASE lateStreak' = LateBefore /\ earlyStreak' = EarlyBefore /\ UNCHANGED step
    BY <1>0, <2>4 DEF WatchTypes
  <2>5. QED
    BY <2>1, <2>2, <2>3, <2>4 DEF Streaks
<1>3. QED
  BY <1>1, <1>2 DEF Ask

\* At a step that stays, a frame's companion is decided by its own ordinal.
LEMMA TurnDecides ==
  ASSUME WatchTypes, WatchAsk, steady' >= 1
  PROVE  /\ step' = step /\ steady' = UpTo(Steps, steady + 1)
         /\ verdict' <=> ordinal' % Every = 0
<1>1. ~Below /\ frameMs # 0 /\ step' = step /\ steady' = UpTo(Steps, steady + 1)
  BY DEF WatchAsk
<1>2. Govern
  BY <1>1 DEF WatchAsk, Ask, HoldBack
<1>3. verdict' <=> InTurn(ordinal')
  <2>1. verdict' = (frameMs = 0 \/ InTurn(ordinal'))
    BY <1>2, Zenon DEF Govern
  <2>2. QED
    BY <1>1, <2>1, Zenon
<1>4. InTurn(ordinal') <=> ordinal' % Every = 0
  BY <1>1 DEF InTurn, Every
<1>5. QED
  BY <1>1, <1>3, <1>4, Zenon

LEMMA NextPast ==
  ASSUME WatchTypes, ordinal' = (ordinal + 1) % Cycle, step' = step
  PROVE  /\ ordinal' \in 0 .. 5 /\ Past \in 0 .. Every - 1 /\ Every \in 1 .. 3
         /\ Past' = IF Past + 1 = Every THEN 0 ELSE Past + 1
         /\ ordinal' % Every = Past'
<1>1. ordinal \in 0 .. 5 /\ ordinal' = (ordinal + 1) % 6 /\ Every' = Every /\ Every \in 1 .. 3
  BY DEF WatchTypes, Cycle, Every
<1>2. ordinal' = IF ordinal = 5 THEN 0 ELSE ordinal + 1
  BY <1>1
<1>3. Past' = ordinal' % Every /\ Past = ordinal % Every
  BY <1>1 DEF Past
<1>4. CASE Every = 1
  BY <1>1, <1>2, <1>3, <1>4
<1>5. CASE Every = 2
  BY <1>1, <1>2, <1>3, <1>5
<1>6. CASE Every = 3
  BY <1>1, <1>2, <1>3, <1>6
<1>7. QED
  BY <1>1, <1>4, <1>5, <1>6

LEMMA GapFollows ==
  ASSUME WatchInv, WatchAsk, steady' >= 1
  PROVE  /\ GapFromTurn'
         /\ verdict' /\ steady' >= Every => gap + 1 >= Every
<1>1. /\ step' = step /\ steady' = UpTo(Steps, steady + 1)
      /\ verdict' <=> ordinal' % Every = 0
      /\ gap' = IF verdict' THEN 0 ELSE UpTo(Steps, gap + 1)
      /\ ordinal' = (ordinal + 1) % Cycle
  BY TurnDecides DEF WatchInv, WatchAsk, Ask
<1>2. /\ Past \in 0 .. Every - 1 /\ Every \in 1 .. 3
      /\ Past' = IF Past + 1 = Every THEN 0 ELSE Past + 1
      /\ ordinal' % Every = Past'
  BY <1>1, NextPast DEF WatchInv
<1>3. /\ verdict' <=> Past' = 0
      /\ gap' = IF Past' = 0 THEN 0 ELSE UpTo(Steps, gap + 1)
  <2>1. verdict' <=> Past' = 0
    BY <1>1, <1>2, Zenon
  <2>2. QED
    BY <1>1, <2>1, Zenon
<1>4. steady \in 0 .. Steps /\ gap \in 0 .. Steps /\ (Every > 1 => Every =< Steps)
  BY DEF WatchInv, WatchTypes, Every
<1>5. steady >= 1 => IF steady > Past THEN gap = Past ELSE gap >= steady
  BY DEF WatchInv, GapFromTurn
<1>6. IF steady' > Past' THEN gap' = Past' ELSE gap' >= steady'
  <2>1. CASE Past + 1 = Every
    BY <1>1, <1>2, <1>3, <1>4, <2>1 DEF UpTo
  <2>2. CASE Past + 1 # Every
    <3>1. Past' = Past + 1 /\ gap' = UpTo(Steps, gap + 1) /\ Past + 1 < Every /\ Every =< Steps
      BY <1>2, <1>3, <1>4, <2>2
    <3>2. Steps \in Int /\ Every \in Int /\ Past \in Nat
          /\ steady \in 0 .. Steps /\ gap \in 0 .. Steps
      BY <1>2, <1>4
    <3>3. steady' = (IF steady < Steps THEN steady + 1 ELSE Steps)
          /\ gap' = (IF gap < Steps THEN gap + 1 ELSE Steps)
      BY <1>1, <3>1, <3>2 DEF UpTo
    <3>4. CASE steady > Past
      <4>1. gap = Past
        BY <1>5, <3>2, <3>4
      <4>2. gap' = Past + 1 /\ steady' > Past + 1
        BY <3>1, <3>2, <3>3, <3>4, <4>1
      <4>3. QED
        BY <3>1, <4>2
    <3>5. CASE ~(steady > Past)
      BY <1>5, <3>1, <3>2, <3>3, <3>5
    <3>6. QED
      BY <3>4, <3>5
  <2>3. QED
    BY <2>1, <2>2
<1>7. verdict' /\ steady' >= Every => gap + 1 >= Every
  BY <1>1, <1>2, <1>3, <1>4, <1>5 DEF UpTo
<1>8. QED
  BY <1>6, <1>7 DEF GapFromTurn

LEMMA WatchStep == WatchInv /\ [WatchNext]_<<vars, watch>> => WatchInv'
<1> SUFFICES ASSUME WatchInv, [WatchNext]_<<vars, watch>> PROVE WatchInv'
  OBVIOUS
<1>1. CASE WatchAsk
  <2>1. WatchTypes' /\ StreaksCount'
    <3>1. /\ lateStreak' \in 0 .. LateFrames /\ earlyStreak' \in 0 .. EarlyFrames
          /\ step' \in 0 .. Steps
          /\ lateStreak' =< lateStreak + 1 /\ earlyStreak' =< earlyStreak + 1
          /\ Clears => lateStreak' =< 1 /\ earlyStreak' =< 1
          /\ step' # step => lateStreak' = 0 /\ earlyStreak' = 0
      BY <1>1, QuestionMoves DEF WatchAsk, WatchInv
    <3>2. ordinal' \in 0 .. 5
      BY <1>1 DEF WatchAsk, Ask, Cycle, WatchInv, WatchTypes
    <3>3. steady' \in 0 .. Steps /\ gap' \in 0 .. Steps
      BY <1>1 DEF WatchAsk, UpTo, WatchInv, WatchTypes
    <3>4. /\ sinceStep' = IF step' # step THEN 0 ELSE UpTo(Longest, sinceStep + 1)
          /\ sinceFloor' = IF Clears THEN 1 ELSE UpTo(Longest, sinceFloor + 1)
      BY <1>1 DEF WatchAsk
    <3>5. sinceStep' \in 0 .. Longest /\ lateStreak' =< sinceStep' /\ earlyStreak' =< sinceStep'
      BY <3>1, <3>4 DEF UpTo, Longest, WatchInv, WatchTypes, StreaksCount
    <3>6. sinceFloor' \in 0 .. Longest /\ lateStreak' =< sinceFloor' /\ earlyStreak' =< sinceFloor'
      BY <3>1, <3>4 DEF UpTo, Longest, WatchInv, WatchTypes, StreaksCount
    <3>7. QED
      BY <3>1, <3>2, <3>3, <3>5, <3>6 DEF WatchTypes, StreaksCount, Longest
  <2>2. GapFromTurn'
    BY <1>1, GapFollows DEF GapFromTurn
  <2>3. QED
    BY <2>1, <2>2 DEF WatchInv
<1>2. CASE (Cadence \/ Measure) /\ UNCHANGED watch
  BY <1>2 DEF Cadence, Measure, watch, WatchInv, WatchTypes, StreaksCount, GapFromTurn,
     Past, Every, Longest
<1>3. CASE UNCHANGED <<vars, watch>>
  BY <1>3 DEF vars, watch, WatchInv, WatchTypes, StreaksCount, GapFromTurn, Past, Every, Longest
<1>4. QED
  BY <1>1, <1>2, <1>3 DEF WatchNext

\* The streaks count no further than the questions since the last change of step
\* and since the floor was last cleared, and the gap between companions follows
\* the frames' ordinals.
THEOREM WatchInductive == WatchSpec => []WatchInv
BY StartWatched, WatchStep, PTL DEF WatchSpec

\* A change of step takes a full streak counted after the change before it: late
\* frames that moved the step never move it again.
THEOREM ChangesAreSpaced == WatchSpec => StepsAreSpaced
<1>1. WatchInv /\ [WatchNext]_<<vars, watch>>
      => [step' # step =>
            sinceStep + 1 >= IF step' > step THEN LateFrames ELSE EarlyFrames]_<<vars, watch>>
  <2> SUFFICES ASSUME WatchInv, WatchNext, step' # step
               PROVE  sinceStep + 1 >= IF step' > step THEN LateFrames ELSE EarlyFrames
    OBVIOUS
  <2>1. Ask
    BY DEF WatchNext, WatchAsk, Cadence, Measure
  <2>2. /\ step' > step => LateBefore + 1 >= LateFrames
        /\ step' < step => EarlyBefore + 1 >= EarlyFrames
        /\ step' \in 0 .. Steps
    BY <2>1, QuestionMoves DEF WatchInv
  <2>3. LateBefore =< sinceStep /\ EarlyBefore =< sinceStep
    BY DEF LateBefore, EarlyBefore, WatchInv, WatchTypes, StreaksCount, Longest
  <2>4. LateBefore \in Int /\ EarlyBefore \in Int /\ sinceStep \in Int /\ step \in Int
    BY DEF LateBefore, EarlyBefore, WatchInv, WatchTypes, Longest
  <2>5. QED
    BY <2>2, <2>3, <2>4
<1>2. QED
  BY <1>1, WatchInductive, PTL DEF WatchSpec, StepsAreSpaced

\* Nothing counted before the frame rate fell below the floor moves the step once
\* it has cleared it.
THEOREM ClearingRestarts == WatchSpec => StreaksRestart
<1>1. WatchInv /\ [WatchNext]_<<vars, watch>>
      => [step' # step =>
            IF Clears THEN LateFrames = 1 \/ EarlyFrames = 1
            ELSE sinceFloor + 1 >= IF step' > step THEN LateFrames ELSE EarlyFrames]_<<vars, watch>>
  <2> SUFFICES ASSUME WatchInv, WatchNext, step' # step
               PROVE  IF Clears THEN LateFrames = 1 \/ EarlyFrames = 1
                      ELSE sinceFloor + 1 >= IF step' > step THEN LateFrames ELSE EarlyFrames
    OBVIOUS
  <2>1. Ask
    BY DEF WatchNext, WatchAsk, Cadence, Measure
  <2>2. /\ step' > step => LateBefore + 1 >= LateFrames
        /\ step' < step => EarlyBefore + 1 >= EarlyFrames
        /\ step' \in 0 .. Steps
    BY <2>1, QuestionMoves DEF WatchInv
  <2>3. LateBefore =< sinceFloor /\ EarlyBefore =< sinceFloor
    BY DEF LateBefore, EarlyBefore, WatchInv, WatchTypes, StreaksCount, Longest
  <2>4. LateBefore \in Int /\ EarlyBefore \in Int /\ sinceFloor \in Int /\ step \in Int
    BY DEF LateBefore, EarlyBefore, WatchInv, WatchTypes, Longest
  <2>5. CASE Clears
    BY <2>2, <2>4, <2>5 DEF LateBefore, EarlyBefore
  <2>6. CASE ~Clears
    BY <2>2, <2>3, <2>4, <2>6
  <2>7. QED
    BY <2>5, <2>6
<1>2. QED
  BY <1>1, WatchInductive, PTL DEF WatchSpec, StreaksRestart

\* At a steady step the companions lie evenly: one in every `step` frames, and no
\* two closer, however far the presents have run ahead of the questions.
THEOREM SpreadEvenly == WatchSpec => ThinnedEvenly
<1>1. WatchInv => (steady >= Every => gap < Every)
  <2> SUFFICES ASSUME WatchInv, steady >= Every PROVE gap < Every
    OBVIOUS
  <2>1. Every \in 1 .. 3 /\ ordinal \in 0 .. 5 /\ steady \in Int
    BY DEF Every, WatchInv, WatchTypes
  <2>2. Past \in 0 .. Every - 1
    BY <2>1 DEF Past
  <2>3. QED
    BY <2>1, <2>2 DEF WatchInv, GapFromTurn
<1>2. WatchInv /\ [WatchNext]_<<vars, watch>>
      => [verdict' /\ steady' >= Every /\ WatchAsk => gap + 1 >= Every]_<<vars, watch>>
  <2> SUFFICES ASSUME WatchInv, verdict', steady' >= Every, WatchAsk PROVE gap + 1 >= Every
    OBVIOUS
  <2>1. steady' >= 1
    <3>1. Every \in 1 .. 3
      BY DEF Every, WatchInv, WatchTypes
    <3>2. steady' \in Int
      BY DEF WatchAsk, UpTo, WatchInv, WatchTypes
    <3>3. QED
      BY <3>1, <3>2
  <2>2. QED
    BY <2>1, GapFollows
<1>3. QED
  BY <1>1, <1>2, WatchInductive, PTL DEF WatchSpec, ThinnedEvenly
=============================================================================
