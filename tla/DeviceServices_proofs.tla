------------------------- MODULE DeviceServices_proofs -------------------------
(***************************************************************************)
(* Proofs about the services of MCDeviceServices: the channels of a        *)
(* chassis, for any writers, capacities and numbers the vendor reports,    *)
(* the client that talks to a vendor, for any thresholds and number of     *)
(* retries, the polls of the chargers, for any inventories and pages, the  *)
(* types of all five; and that what is proved of each service, those of    *)
(* ChassisLifecycle included, holds of the five together.                  *)
(***************************************************************************)
EXTENDS MCDeviceServices, ChassisLifecycle_proofs

-----------------------------------------------------------------------------
(***************************************************************************)
(* The channels of a chassis: types, and that a unit keeps its channel.    *)
(***************************************************************************)
WriterStates ==
  [task : {"none", "update", "batch", "form"},
   at : {"idle", "save", "fill", "devices", "unit", "insert"}, as : Models,
   max : Capacities \cup {0}, seen : SUBSET Numbers, todo : SUBSET Reported,
   on : Numbers \cup {Gone}]

\* The updates that are about to insert a unit on channel n.
Inserters(n) == {w \in Writers : writer[w].at = "insert" /\ writer[w].on = n}

\* Who is not idle has read a capacity.
Knows(w) == writer[w].at # "idle" => writer[w].max \in Capacities

ChannelsInv ==
  /\ wmas \in BOOLEAN
  /\ named \subseteq Models
  /\ model \in Models
  /\ capacity \in Capacities
  /\ channels \subseteq Numbers
  /\ unitsOn \in [Numbers -> Nat]
  /\ savedBy \subseteq Writers
  /\ \A v, w \in savedBy : v = w
  /\ writer \in [Writers -> WriterStates]
  /\ edits \in 0 .. MaxChannelEdits
  /\ deaths \in 0 .. MaxChannelDeaths
  /\ \A w \in Writers : Knows(w)

\* A channel has no more units than there are writers: whoever is about to insert one has
\* found none, and none is about to where there is one unless it looked before.
UnitsBounded ==
  \A n \in Numbers : unitsOn[n] + Cardinality(Inserters(n)) <= Cardinality(Writers)

\* The channels that some source of the model has room for.
Room == UNION {Slots(b) : b \in Believed}

\* A save goes by what some source says, and has seen no channel beyond what one has room for.
Informed(state) ==
  state.at # "idle" =>
    /\ state.task # "form" /\ state.max \in Believed
    /\ state.at = "save" => state.max = capacity
    /\ state.at \in {"save", "fill"} => state.as \in named
    /\ state.at = "fill" => state.seen \subseteq Room

\* Before an operator interferes the sources are those the chassis started with, the row is one
\* of them, and no channel of a chassis that may not exceed its slots is beyond all of them.
WithinRoom ==
  edits = 0 /\ ~wmas =>
    /\ model \in named /\ capacity \in Believed /\ channels \subseteq Room
    /\ \A w \in Writers : Informed(writer[w])

LEMMA SpecifiedIsCapacity ==
  ASSUME NEW k \in Models, NEW c \in Capacities
  PROVE  Specified(k, c) \in Capacities
BY DEF Models, Specified

LEMMA SlotsAreNumbers ==
  ASSUME NEW c \in Capacities
  PROVE  Slots(c) \subseteq Numbers
BY DEF Numbers

LEMMA ReportedAreNumbers == Reported \subseteq Numbers
BY DEF Numbers

LEMMA RestingIsState == Resting \in WriterStates /\ Resting.at = "idle"
BY DEF Resting, WriterStates, Models

LEMMA InsertersFinite ==
  ASSUME NEW n
  PROVE  /\ IsFiniteSet(Inserters(n)) /\ Cardinality(Inserters(n)) \in Nat
         /\ Cardinality(Inserters(n)) <= Cardinality(Writers) /\ Cardinality(Writers) \in Nat
<1>1. Inserters(n) \subseteq Writers
  BY DEF Inserters
<1> QED
  BY <1>1, WritersAssumption, FS_Subset, FS_CardinalityType

\* Fewer units and fewer who insert one.
LEMMA BoundKept ==
  ASSUME ChannelsInv, UnitsBounded, ChannelsInv', NEW n \in Numbers,
         unitsOn'[n] <= unitsOn[n], Inserters(n)' \subseteq Inserters(n)
  PROVE  unitsOn'[n] + Cardinality(Inserters(n)') <= Cardinality(Writers)
<1>1. Cardinality(Inserters(n)') <= Cardinality(Inserters(n))
  BY InsertersFinite, FS_Subset
<1>2. Cardinality(Inserters(n)') \in Nat
  BY InsertersFinite, FS_Subset, FS_CardinalityType
<1> QED
  BY <1>1, <1>2, InsertersFinite DEF UnitsBounded, ChannelsInv

\* A writer takes another state.
LEMMA BecomesKnown ==
  ASSUME ChannelsInv, NEW w \in Writers, NEW s \in WriterStates, Becomes(w, s),
         s.at # "idle" => s.max \in Capacities
  PROVE  /\ writer' \in [Writers -> WriterStates] /\ writer'[w] = s
         /\ \A v \in Writers \ {w} : writer'[v] = writer[v]
         /\ \A v \in Writers : Knows(v)'
<1>1. writer' = [writer EXCEPT ![w] = s]
  BY DEF Becomes
<1>2. /\ writer' \in [Writers -> WriterStates] /\ writer'[w] = s
      /\ \A v \in Writers \ {w} : writer'[v] = writer[v]
  BY <1>1 DEF ChannelsInv
<1> QED
  BY <1>2 DEF ChannelsInv, Knows

\* Where a writer other than one that inserts a unit goes on nothing else changes who does.
LEMMA InsertsNoMore ==
  ASSUME ChannelsInv, NEW w \in Writers, NEW s \in WriterStates, Becomes(w, s),
         s.at # "insert", NEW n
  PROVE  Inserters(n)' = Inserters(n) \ {w}
<1>1. /\ writer'[w] = s
      /\ \A v \in Writers \ {w} : writer'[v] = writer[v]
  BY DEF ChannelsInv, Becomes
<1> QED
  BY <1>1 DEF Inserters

\* A step that leaves the units alone, in which a writer starts to insert none.
LEMMA GoesOnKeeps ==
  ASSUME ChannelsInv, UnitsBounded, NEW w \in Writers, NEW s \in WriterStates, Becomes(w, s),
         s.at # "insert", s.at # "idle" => s.max \in Capacities,
         channels' \subseteq Numbers, capacity' \in Capacities,
         savedBy' \subseteq Writers, \A u, v \in savedBy' : u = v,
         edits' \in 0 .. MaxChannelEdits, deaths' \in 0 .. MaxChannelDeaths,
         UNCHANGED <<wmas, named, unitsOn>>, model' \in Models
  PROVE  ChannelsInv' /\ UnitsBounded'
<1>1. ChannelsInv'
  BY BecomesKnown DEF ChannelsInv
<1>2. \A n \in Numbers : Inserters(n)' \subseteq Inserters(n) /\ unitsOn'[n] <= unitsOn[n]
  BY InsertsNoMore DEF ChannelsInv
<1> QED
  BY <1>1, <1>2, BoundKept DEF UnitsBounded

\* Deleting channels takes them from units and writers, and changes nothing else of these.
LEMMA DeletesKeeps ==
  ASSUME ChannelsInv, UnitsBounded, NEW numbers \in SUBSET Numbers,
         NEW writers \in [Writers -> WriterStates], Deletes(numbers, writers),
         \A v \in Writers : writers[v].at # "idle" => writers[v].max \in Capacities,
         \A v \in Writers : writers[v].at = "insert" => writers[v] = writer[v],
         channels' \subseteq Numbers, capacity' \in Capacities,
         savedBy' \subseteq Writers, \A u, v \in savedBy' : u = v,
         edits' \in 0 .. MaxChannelEdits, deaths' \in 0 .. MaxChannelDeaths,
         UNCHANGED <<wmas, named>>, model' \in Models
  PROVE  /\ ChannelsInv' /\ UnitsBounded'
         /\ \A v \in Writers :
              /\ writer'[v].at = writers[v].at /\ writer'[v].task = writers[v].task
              /\ writer'[v].max = writers[v].max /\ writer'[v].seen = writers[v].seen
              /\ writer'[v].as = writers[v].as
         /\ \A n \in Numbers \ numbers : unitsOn'[n] = unitsOn[n]
<1>1. /\ unitsOn' = [n \in Numbers |-> IF n \in numbers THEN 0 ELSE unitsOn[n]]
      /\ writer' = [v \in Writers |->
           IF writers[v].on \in numbers THEN [writers[v] EXCEPT !.on = Gone] ELSE writers[v]]
  BY DEF Deletes
<1>2. ASSUME NEW v \in Writers
      PROVE  /\ writer'[v] \in WriterStates
             /\ writer'[v].at = writers[v].at /\ writer'[v].task = writers[v].task
             /\ writer'[v].max = writers[v].max /\ writer'[v].seen = writers[v].seen
             /\ writer'[v].as = writers[v].as
             /\ writer'[v].on = IF writers[v].on \in numbers THEN Gone ELSE writers[v].on
  <2>1. writers[v] \in WriterStates
    OBVIOUS
  <2>2. ASSUME NEW s \in WriterStates
        PROVE  LET g == [s EXCEPT !.on = Gone]
               IN  /\ g \in WriterStates /\ g.at = s.at /\ g.task = s.task
                   /\ g.max = s.max /\ g.seen = s.seen /\ g.as = s.as /\ g.on = Gone
    BY DEF WriterStates
  <2>3. writer'[v] = IF writers[v].on \in numbers THEN [writers[v] EXCEPT !.on = Gone]
                     ELSE writers[v]
    BY <1>1
  <2> QED
    BY <2>1, <2>2, <2>3
<1>3. writer' \in [Writers -> WriterStates] /\ unitsOn' \in [Numbers -> Nat]
  BY <1>1, <1>2 DEF ChannelsInv
<1>4. ChannelsInv'
  BY <1>2, <1>3 DEF ChannelsInv, Knows
<1>5. \A n \in Numbers : unitsOn'[n] <= unitsOn[n]
  BY <1>1 DEF ChannelsInv
<1>6. ASSUME NEW n \in Numbers
      PROVE  Inserters(n)' \subseteq Inserters(n)
  <2>1. ASSUME NEW v \in Writers, writer'[v].at = "insert", writer'[v].on = n
        PROVE  writer[v].at = "insert" /\ writer[v].on = n
    <3>1. writers[v] = writer[v] /\ writers[v].at = "insert"
      BY <1>2, <2>1
    <3>2. writers[v].on = n
      BY <1>2, <2>1, GoneAssumption
    <3> QED
      BY <3>1, <3>2
  <2> QED
    BY <2>1 DEF Inserters
<1>7. UnitsBounded'
  BY <1>4, <1>5, <1>6, BoundKept DEF UnitsBounded
<1>8. \A n \in Numbers \ numbers : unitsOn'[n] = unitsOn[n]
  BY <1>1 DEF ChannelsInv
<1> QED
  BY <1>2, <1>4, <1>7, <1>8

\* Before an operator interferes a step keeps the room if its channels and writers do.
LEMMA RoomKept ==
  ASSUME WithinRoom, UNCHANGED <<wmas, named>>, edits' = 0 => edits = 0,
         edits' = 0 /\ ~wmas =>
           /\ capacity' = capacity /\ model' \in named /\ channels' \subseteq Room
           /\ \A v \in Writers : Informed(writer'[v])
  PROVE  WithinRoom'
<1> SUFFICES ASSUME edits' = 0, ~wmas
             PROVE  /\ model' \in named' /\ capacity' \in Believed' /\ channels' \subseteq Room'
                    /\ \A w \in Writers : Informed(writer[w])'
  BY DEF WithinRoom
<1>1. /\ edits = 0 /\ model \in named /\ capacity \in Believed
      /\ capacity' = capacity /\ model' \in named /\ named' = named
      /\ \A v \in Writers : Informed(writer'[v])
  BY DEF WithinRoom
<1>2. Believed' = Believed
  <2>1. named \cup {model} = named /\ (named \cup {model})' = named
    BY <1>1
  <2> QED
    BY <1>1, <2>1 DEF Believed, Specified
<1>3. Room' = Room
  BY <1>2 DEF Room, Slots
<1> QED
  BY <1>1, <1>2, <1>3 DEF Informed

ChannelsSafe == ChannelsInv /\ UnitsBounded /\ WithinRoom

\* A writer whose state changes, by a step that leaves the row as it is.
LEMMA RoomKeptBy ==
  ASSUME ChannelsInv, WithinRoom, NEW w \in Writers, NEW s \in WriterStates, Becomes(w, s),
         edits = 0 /\ ~wmas => Informed(s) /\ channels' \subseteq Room,
         UNCHANGED <<wmas, named, model, capacity, edits>>
  PROVE  WithinRoom'
<1>1. writer'[w] = s /\ \A v \in Writers \ {w} : writer'[v] = writer[v]
  BY DEF Becomes, ChannelsInv
<1>2. edits = 0 /\ ~wmas => model \in named /\ \A v \in Writers : Informed(writer'[v])
  BY <1>1 DEF WithinRoom
<1> QED
  BY <1>2, RoomKept

\* A save that takes the row and leaves it as it is until the hook has run.
LEMMA SaveKeeps ==
  ASSUME ChannelsSafe, NEW w \in Writers, NEW s \in WriterStates, Becomes(w, s),
         s.at \in {"save", "fill"}, s.max \in Capacities,
         edits = 0 /\ ~wmas => Informed(s), savedBy' \in {savedBy, {w}},
         UNCHANGED <<wmas, named, model, capacity, channels, unitsOn, edits, deaths>>
  PROVE  ChannelsSafe'
<1>1. ChannelsInv /\ UnitsBounded /\ WithinRoom
  BY DEF ChannelsSafe
<1>2. ChannelsInv' /\ UnitsBounded'
  <2>1. savedBy' \subseteq Writers /\ \A u, v \in savedBy' : u = v
    BY <1>1 DEF ChannelsInv
  <2> QED
    BY <1>1, <2>1, GoesOnKeeps DEF ChannelsInv
<1>3. WithinRoom'
  BY <1>1, RoomKeptBy DEF WithinRoom
<1> QED
  BY <1>2, <1>3 DEF ChannelsSafe

LEMMA SavesKeep ==
  ASSUME ChannelsSafe, NEW w \in Writers,
         \/ StartsBatch(w) \/ SavesUpdate(w) \/ SavesTransition(w)
         \/ SavesBatch(w) \/ SavesForm(w)
  PROVE  ChannelsSafe' /\ UNCHANGED unitsOn
<1>0. /\ ChannelsInv /\ UnitsBounded /\ WithinRoom /\ named \cup {model} \subseteq Models
      /\ Resting \in WriterStates /\ writer[w] \in WriterStates
      /\ edits \in Nat /\ MaxChannelEdits \in Nat
  BY RestingIsState, EditsAndDeathsAssumption DEF ChannelsSafe, ChannelsInv
<1>1. edits = 0 /\ ~wmas =>
        /\ model \in named /\ capacity \in Believed /\ channels \subseteq Room
        /\ Informed(writer[w])
  BY <1>0 DEF WithinRoom
<1>2. \A k \in named \cup {model} : Specified(k, capacity) \in Believed
  BY DEF Believed
<1>3. CASE StartsBatch(w)
  <2>1. PICK k \in named \cup {model} :
          Becomes(w, [Resting EXCEPT !.task = "batch", !.at = "save", !.as = k, !.max = capacity])
    BY <1>3, Zenon DEF StartsBatch
  <2> DEFINE s == [Resting EXCEPT !.task = "batch", !.at = "save", !.as = k, !.max = capacity]
  <2>2. /\ s \in WriterStates /\ s.at = "save" /\ s.as = k /\ s.max = capacity
        /\ s.task = "batch" /\ s.max \in Capacities
    BY <1>0 DEF Resting, WriterStates, ChannelsInv
  <2>3. Becomes(w, s)
    BY <2>1
  <2> HIDE DEF s
  <2>4. edits = 0 /\ ~wmas => Informed(s)
    BY <1>1, <2>2 DEF Informed
  <2>5. UNCHANGED <<wmas, named, model, capacity, channels, unitsOn, savedBy, edits, deaths>>
    BY <1>3, Zenon DEF StartsBatch
  <2> QED
    BY <2>2, <2>3, <2>4, <2>5, SaveKeeps
<1>4. CASE SavesUpdate(w)
  <2>1. PICK k \in named, numbers \in SUBSET Reported :
          Becomes(w, [Resting EXCEPT !.task = "update", !.at = "fill", !.as = k,
                                     !.max = Specified(k, capacity),
                                     !.seen = channels, !.todo = numbers])
    BY <1>4, Zenon DEF SavesUpdate
  <2> DEFINE s == [Resting EXCEPT !.task = "update", !.at = "fill", !.as = k,
                                  !.max = Specified(k, capacity),
                                  !.seen = channels, !.todo = numbers]
  <2>2. Specified(k, capacity) \in Capacities
    BY <1>0, SpecifiedIsCapacity DEF ChannelsInv
  <2>3. /\ s \in WriterStates /\ s.at = "fill" /\ s.as = k /\ s.max = Specified(k, capacity)
        /\ s.task = "update" /\ s.seen = channels
    BY <1>0, <2>2 DEF Resting, WriterStates, ChannelsInv
  <2>4. Becomes(w, s)
    BY <2>1
  <2> HIDE DEF s
  <2>5. edits = 0 /\ ~wmas => Informed(s)
    BY <1>1, <1>2, <2>3 DEF Informed
  <2>6. /\ savedBy' = {w}
        /\ UNCHANGED <<wmas, named, model, capacity, channels, unitsOn, edits, deaths>>
    BY <1>4, Zenon DEF SavesUpdate
  <2> QED
    BY <2>2, <2>3, <2>4, <2>5, <2>6, SaveKeeps
<1>5. CASE SavesTransition(w)
  <2> DEFINE s == [Resting EXCEPT !.task = "update", !.at = "fill", !.as = model,
                                  !.max = Specified(model, capacity), !.seen = channels]
  <2>1. Specified(model, capacity) \in Capacities
    BY <1>0, SpecifiedIsCapacity DEF ChannelsInv
  <2>2. /\ s \in WriterStates /\ s.at = "fill" /\ s.as = model
        /\ s.max = Specified(model, capacity) /\ s.task = "update" /\ s.seen = channels
    BY <1>0, <2>1 DEF Resting, WriterStates, ChannelsInv
  <2>3. /\ Becomes(w, s) /\ savedBy' = {w}
        /\ UNCHANGED <<wmas, named, model, capacity, channels, unitsOn, edits, deaths>>
    BY <1>5 DEF SavesTransition
  <2> HIDE DEF s
  <2>4. edits = 0 /\ ~wmas => Informed(s)
    BY <1>1, <1>2, <2>2 DEF Informed
  <2> QED
    BY <2>1, <2>2, <2>3, <2>4, SaveKeeps
<1>6. CASE SavesBatch(w)
  <2> DEFINE k == writer[w].as
             s == [writer[w] EXCEPT !.at = "fill", !.max = Specified(writer[w].as, @),
                                    !.seen = channels]
  <2>1. /\ Becomes(w, s) /\ savedBy' = {w} /\ writer[w].at = "save"
        /\ UNCHANGED <<wmas, named, model, capacity, channels, unitsOn, edits, deaths>>
    BY <1>6 DEF SavesBatch
  <2>2. k \in Models /\ Specified(k, writer[w].max) \in Capacities
    BY <1>0, <2>1, SpecifiedIsCapacity DEF ChannelsInv, Knows, WriterStates
  <2>3. /\ s \in WriterStates /\ s.at = "fill" /\ s.as = k
        /\ s.max = Specified(k, writer[w].max)
        /\ s.task = writer[w].task /\ s.seen = channels
    BY <1>0, <2>2 DEF WriterStates, ChannelsInv
  <2> HIDE DEF s, k
  <2>4. edits = 0 /\ ~wmas => Informed(s)
    <3>1. edits = 0 /\ ~wmas => writer[w].as \in named /\ writer[w].max = capacity
                                /\ writer[w].task # "form"
      BY <1>1, <2>1 DEF Informed
    <3> QED
      BY <1>1, <1>2, <2>3, <3>1 DEF Informed, k
  <2> QED
    BY <2>1, <2>2, <2>3, <2>4, SaveKeeps
<1>7. CASE SavesForm(w)
  <2>1. PICK c \in Capacities, k \in Models :
          Becomes(w, [Resting EXCEPT !.task = "form", !.at = "fill", !.as = k,
                                     !.max = Specified(k, c), !.seen = channels])
    BY <1>7, Zenon DEF SavesForm
  <2> DEFINE s == [Resting EXCEPT !.task = "form", !.at = "fill", !.as = k,
                                  !.max = Specified(k, c), !.seen = channels]
  <2>2. Specified(k, c) \in Capacities
    BY SpecifiedIsCapacity
  <2>3. /\ s \in WriterStates /\ s.at = "fill" /\ s.max \in Capacities
    BY <1>0, <2>2 DEF Resting, WriterStates, ChannelsInv
  <2>4. /\ Becomes(w, s) /\ savedBy' = {w} /\ edits' = edits + 1 /\ edits < MaxChannelEdits
        /\ UNCHANGED <<wmas, named, model, capacity, channels, unitsOn, deaths>>
    BY <1>7, <2>1, Zenon DEF SavesForm
  <2>5. edits' \in 0 .. MaxChannelEdits /\ edits' # 0
    BY <1>0, <2>4
  <2> HIDE DEF s
  <2>6. ChannelsInv' /\ UnitsBounded'
    BY <1>0, <2>3, <2>4, <2>5, GoesOnKeeps DEF ChannelsInv
  <2>7. WithinRoom'
    BY <2>5 DEF WithinRoom
  <2> QED
    BY <2>4, <2>6, <2>7 DEF ChannelsSafe
<1> QED
  BY <1>3, <1>4, <1>5, <1>6, <1>7

\* What the writers know once the save of one of them has returned.
LEMMA AfterSaveKeeps ==
  ASSUME ChannelsInv, NEW w \in Writers, writer[w].at = "fill"
  PROVE  /\ AfterSave(w) \in [Writers -> WriterStates]
         /\ \A v \in Writers : AfterSave(w)[v].at # "idle" => AfterSave(w)[v].max \in Capacities
         /\ \A v \in Writers : AfterSave(w)[v].at = "insert" => AfterSave(w)[v] = writer[v]
         /\ \A v \in Writers \ {w} : AfterSave(w)[v] = writer[v]
         /\ \/ AfterSave(w)[w].at = "idle"
            \/ /\ AfterSave(w)[w].at = "devices" /\ AfterSave(w)[w].task = writer[w].task
               /\ AfterSave(w)[w].max = writer[w].max
<1> DEFINE s == IF writer[w].todo = {} THEN Resting
                ELSE [writer[w] EXCEPT !.at = "devices", !.as = Unregistered, !.seen = {}]
<1>1. AfterSave(w) = [writer EXCEPT ![w] = s]
  BY DEF AfterSave, ChannelsInv
<1>2. writer[w] \in WriterStates /\ writer[w].max \in Capacities
  BY DEF ChannelsInv, Knows
<1>3. /\ s \in WriterStates
      /\ \/ s.at = "idle"
         \/ s.at = "devices" /\ s.task = writer[w].task /\ s.max = writer[w].max
  BY <1>2, RestingIsState DEF WriterStates, Models
<1> HIDE DEF s
<1>4. /\ AfterSave(w) \in [Writers -> WriterStates] /\ AfterSave(w)[w] = s
      /\ \A v \in Writers \ {w} : AfterSave(w)[v] = writer[v]
  BY <1>1, <1>3 DEF ChannelsInv
<1> QED
  BY <1>2, <1>3, <1>4 DEF ChannelsInv, Knows

\* The hook deletes a channel that one source has no room for, because another had.
LEMMA FillKeeps ==
  ASSUME ChannelsSafe, NEW w \in Writers, Fill(w)
  PROVE  /\ ChannelsSafe'
         /\ edits' = 0 /\ ~wmas =>
              \A n \in Numbers : Undisputed(n) => unitsOn'[n] = unitsOn[n]
<1> DEFINE dropped == IF Creatable(w) = Missing(w) THEN Surplus(w) ELSE {}
<1>0. ChannelsInv /\ UnitsBounded /\ WithinRoom /\ writer[w] \in WriterStates /\ edits \in Nat
  BY EditsAndDeathsAssumption DEF ChannelsSafe, ChannelsInv
<1>1. /\ writer[w].at = "fill"
      /\ channels' = (channels \cup Creatable(w)) \ dropped /\ Deletes(dropped, AfterSave(w))
      /\ capacity' = Persists(w) /\ model' = writer[w].as /\ savedBy' = {}
      /\ UNCHANGED <<wmas, named, edits, deaths>>
  BY DEF Fill
<1>2. writer[w].max \in Capacities /\ Slots(writer[w].max) \subseteq Numbers
  BY <1>0, <1>1, SlotsAreNumbers DEF ChannelsInv, Knows
<1>3. /\ Creatable(w) \subseteq Slots(writer[w].max)
      /\ dropped \subseteq writer[w].seen /\ dropped \subseteq Numbers
      /\ dropped \cap Slots(writer[w].max) = {}
  BY <1>0 DEF Creatable, Missing, Surplus, Expected, WriterStates
<1>4. capacity' \in Capacities /\ channels' \subseteq Numbers /\ model' \in Models
  BY <1>0, <1>1, <1>2, <1>3 DEF Persists, ChannelsInv, WriterStates
<1> HIDE DEF dropped
<1>5. /\ ChannelsInv' /\ UnitsBounded'
      /\ \A n \in Numbers \ dropped : unitsOn'[n] = unitsOn[n]
      /\ \A v \in Writers :
           /\ writer'[v].at = AfterSave(w)[v].at /\ writer'[v].task = AfterSave(w)[v].task
           /\ writer'[v].max = AfterSave(w)[v].max /\ writer'[v].seen = AfterSave(w)[v].seen
           /\ writer'[v].as = AfterSave(w)[v].as
  <2>1. edits' \in 0 .. MaxChannelEdits /\ deaths' \in 0 .. MaxChannelDeaths
    BY <1>0, <1>1 DEF ChannelsInv
  <2> QED
    BY <1>0, <1>1, <1>3, <1>4, <2>1, AfterSaveKeeps, DeletesKeeps
<1>6. ASSUME edits' = 0, ~wmas
      PROVE  /\ writer[w].task # "form" /\ writer[w].max \in Believed /\ writer[w].as \in named
             /\ writer[w].seen \subseteq Room /\ channels \subseteq Room
             /\ \A v \in Writers : Informed(writer[v])
  <2>1. channels \subseteq Room /\ \A v \in Writers : Informed(writer[v])
    BY <1>0, <1>1, <1>6 DEF WithinRoom
  <2> QED
    BY <1>1, <2>1 DEF Informed
<1>7. ASSUME edits' = 0, ~wmas
      PROVE  capacity' = capacity /\ model' \in named /\ channels' \subseteq Room
  <2>1. Slots(writer[w].max) \subseteq Room
    BY <1>6, <1>7 DEF Room
  <2> QED
    BY <1>1, <1>3, <1>6, <1>7, <2>1 DEF Persists
<1>8. ASSUME edits' = 0, ~wmas, NEW v \in Writers
      PROVE  Informed(writer'[v])
  <2>1. Informed(AfterSave(w)[v])
    BY <1>0, <1>1, <1>6, <1>8, AfterSaveKeeps DEF Informed
  <2> QED
    BY <1>5, <2>1 DEF Informed
<1>9. WithinRoom'
  BY <1>0, <1>1, <1>7, <1>8, RoomKept
<1>10. ASSUME edits' = 0, ~wmas, NEW n \in Numbers, Undisputed(n)
       PROVE  n \notin dropped
  <2> SUFFICES ASSUME n \in dropped
               PROVE  FALSE
    OBVIOUS
  <2>1. PICK b \in Believed : n \in Slots(b)
    BY <1>3, <1>6, <1>10 DEF Room
  <2>2. writer[w].max \in Believed /\ n \notin Slots(writer[w].max)
    BY <1>3, <1>6, <1>10
  <2>3. n <= b <=> n <= writer[w].max
    BY <1>10, <2>1, <2>2 DEF Undisputed
  <2>4. b \in Capacities
    BY <1>0, <2>1, SpecifiedIsCapacity DEF Believed, ChannelsInv
  <2> QED
    BY <1>2, <2>1, <2>2, <2>3, <2>4, CapacitiesAssumption DEF Slots
<1> QED
  BY <1>5, <1>9, <1>10 DEF ChannelsSafe

\* A writer that goes on with the capacity it believes.
LEMMA WriterKeeps ==
  ASSUME ChannelsSafe, NEW w \in Writers, NEW s \in WriterStates, Becomes(w, s),
         s.at # "insert", writer[w].at # "idle",
         \/ s.at = "idle"
         \/ s.at \notin {"save", "fill"} /\ s.task = writer[w].task /\ s.max = writer[w].max,
         channels' \subseteq Numbers,
         edits = 0 /\ ~wmas => channels' \subseteq Room,
         savedBy' \subseteq savedBy, deaths' \in 0 .. MaxChannelDeaths,
         UNCHANGED <<wmas, named, model, capacity, unitsOn, edits>>
  PROVE  ChannelsSafe'
<1>0. ChannelsInv /\ UnitsBounded /\ WithinRoom
  BY DEF ChannelsSafe
<1>1. s.at # "idle" => s.max \in Capacities
  BY <1>0 DEF ChannelsInv, Knows
<1>2. ChannelsInv' /\ UnitsBounded'
  BY <1>0, <1>1, GoesOnKeeps DEF ChannelsInv
<1>3. edits = 0 /\ ~wmas => Informed(s)
  BY <1>0 DEF WithinRoom, Informed
<1>4. WithinRoom'
  BY <1>0, <1>3, RoomKeptBy
<1> QED
  BY <1>2, <1>4 DEF ChannelsSafe

LEMMA NextDeviceState ==
  ASSUME ChannelsInv, NEW w \in Writers, writer[w].at # "idle"
  PROVE  /\ NextDevice(w) \in WriterStates
         /\ \/ NextDevice(w).at = "idle"
            \/ /\ NextDevice(w).at = "devices" /\ NextDevice(w).task = writer[w].task
               /\ NextDevice(w).max = writer[w].max
<1>1. writer[w] \in WriterStates
  BY DEF ChannelsInv
<1> QED
  BY <1>1, RestingIsState DEF NextDevice, WriterStates

LEMMA UpdateKeeps ==
  ASSUME ChannelsSafe, NEW w \in Writers,
         FillCollides(w) \/ ReportedChannel(w) \/ DeviceFails(w) \/ WriterDies(w)
  PROVE  ChannelsSafe' /\ unitsOn' = unitsOn
<1>0. /\ ChannelsInv /\ WithinRoom /\ writer[w] \in WriterStates /\ edits \in Nat
      /\ Resting \in WriterStates /\ Resting.at = "idle"
  BY RestingIsState, EditsAndDeathsAssumption DEF ChannelsSafe, ChannelsInv
<1>1. edits = 0 /\ ~wmas => channels \subseteq Room
  BY <1>0 DEF WithinRoom
<1>2. CASE FillCollides(w)
  <2> DEFINE s == IF writer[w].todo = {} THEN Resting
                  ELSE [writer[w] EXCEPT !.at = "devices", !.as = Unregistered, !.seen = {}]
  <2>1. /\ writer[w].at = "fill" /\ Becomes(w, s) /\ savedBy' = {}
        /\ UNCHANGED <<wmas, named, model, capacity, channels, unitsOn, edits, deaths>>
    BY <1>0, <1>2 DEF FillCollides, AfterSave, Becomes, ChannelsInv
  <2>2. /\ s \in WriterStates
        /\ \/ s.at = "idle"
           \/ s.at = "devices" /\ s.task = writer[w].task /\ s.max = writer[w].max
    BY <1>0 DEF WriterStates, Models
  <2> HIDE DEF s
  <2> QED
    BY <1>0, <1>1, <2>1, <2>2, WriterKeeps DEF ChannelsInv
<1>3. CASE ReportedChannel(w)
  <2>1. PICK n \in writer[w].todo :
          /\ n \in channels \/ Accepts(n, writer[w].max)
          /\ channels' = channels \cup {n}
          /\ Becomes(w, [writer[w] EXCEPT !.at = "unit", !.on = n, !.todo = @ \ {n}])
    BY <1>3, Zenon DEF ReportedChannel
  <2> DEFINE s == [writer[w] EXCEPT !.at = "unit", !.on = n, !.todo = @ \ {n}]
  <2>2. n \in Reported /\ n \in Numbers /\ n \in Nat
    BY <1>0, <2>1, ReportedAreNumbers, ReportedAssumption DEF WriterStates
  <2>3. /\ s \in WriterStates /\ s.at = "unit" /\ s.task = writer[w].task
        /\ s.max = writer[w].max
    BY <1>0, <2>2 DEF WriterStates
  <2>4. /\ writer[w].at = "devices" /\ Becomes(w, s)
        /\ UNCHANGED <<wmas, named, model, capacity, unitsOn, savedBy, edits, deaths>>
    BY <1>3, <2>1, Zenon DEF ReportedChannel
  <2> HIDE DEF s
  <2>5. channels' \subseteq Numbers
    BY <1>0, <2>1, <2>2 DEF ChannelsInv
  <2>6. ASSUME edits = 0, ~wmas
        PROVE  channels' \subseteq Room
    <3>1. writer[w].max \in Believed /\ channels \subseteq Room
      BY <1>0, <2>4, <2>6 DEF WithinRoom, Informed
    <3>2. writer[w].max \in Nat
      BY <1>0, <2>4, CapacitiesAssumption DEF ChannelsInv, Knows
    <3>3. CASE n \in channels
      BY <2>1, <3>1, <3>3
    <3>4. CASE n \notin channels
      <4>1. n \in Slots(writer[w].max)
        BY <2>1, <2>2, <2>6, <3>2, <3>4 DEF Accepts, Slots
      <4> QED
        BY <2>1, <3>1, <4>1 DEF Room
    <3> QED
      BY <3>3, <3>4
  <2> QED
    BY <1>0, <2>3, <2>4, <2>5, <2>6, WriterKeeps DEF ChannelsInv
<1>4. CASE DeviceFails(w)
  <2>1. /\ writer[w].at # "idle" /\ Becomes(w, Resting)
        /\ UNCHANGED <<wmas, named, model, capacity, channels, unitsOn, savedBy, edits, deaths>>
    BY <1>4 DEF DeviceFails
  <2> QED
    BY <1>0, <1>1, <2>1, WriterKeeps DEF ChannelsInv
<1>5. CASE WriterDies(w)
  <2>1. /\ writer[w].at # "idle" /\ Becomes(w, Resting) /\ savedBy' = savedBy \ {w}
        /\ deaths < MaxChannelDeaths /\ deaths' = deaths + 1
        /\ UNCHANGED <<wmas, named, model, capacity, channels, unitsOn, edits>>
    BY <1>5 DEF WriterDies
  <2>2. deaths' \in 0 .. MaxChannelDeaths
    BY <1>0, <2>1, EditsAndDeathsAssumption DEF ChannelsInv
  <2> QED
    BY <1>0, <1>1, <2>1, <2>2, WriterKeeps DEF ChannelsInv
<1> QED
  BY <1>2, <1>3, <1>4, <1>5

\* Whoever looks for a unit and finds none may insert one, and so may the others: no more units
\* than writers, because a unit that is there is found.
LEMMA UnitKeeps ==
  ASSUME ChannelsSafe, NEW w \in Writers, Unit(w)
  PROVE  ChannelsSafe' /\ unitsOn' = unitsOn
<1>0. /\ ChannelsInv /\ UnitsBounded /\ WithinRoom /\ writer[w] \in WriterStates
      /\ edits \in Nat
  BY EditsAndDeathsAssumption DEF ChannelsSafe, ChannelsInv
<1>1. /\ writer[w].at = "unit"
      /\ UNCHANGED <<wmas, named, model, capacity, channels, unitsOn, savedBy, edits, deaths>>
  BY DEF Unit
<1>2. edits = 0 /\ ~wmas => channels \subseteq Room /\ Informed(writer[w])
  BY <1>0 DEF WithinRoom
<1>3. CASE Becomes(w, NextDevice(w))
  <2>1. /\ NextDevice(w) \in WriterStates
        /\ \/ NextDevice(w).at = "idle"
           \/ /\ NextDevice(w).at = "devices" /\ NextDevice(w).task = writer[w].task
              /\ NextDevice(w).max = writer[w].max
    BY <1>0, <1>1, NextDeviceState
  <2> QED
    BY <1>0, <1>1, <1>2, <1>3, <2>1, WriterKeeps DEF ChannelsInv
<1>4. CASE UnitsFound(w) = 0 /\ Becomes(w, [writer[w] EXCEPT !.at = "insert"])
  <2> DEFINE s == [writer[w] EXCEPT !.at = "insert"]
  <2>1. /\ s \in WriterStates /\ s.at = "insert" /\ s.task = writer[w].task
        /\ s.max = writer[w].max /\ s.on = writer[w].on /\ s.max \in Capacities
    BY <1>0, <1>1 DEF WriterStates, ChannelsInv, Knows
  <2>2. Becomes(w, s)
    BY <1>4
  <2> HIDE DEF s
  <2>3. /\ writer' \in [Writers -> WriterStates] /\ writer'[w] = s
        /\ \A v \in Writers \ {w} : writer'[v] = writer[v]
        /\ \A v \in Writers : Knows(v)'
    BY <1>0, <2>1, <2>2, BecomesKnown
  <2>4. ChannelsInv'
    BY <1>0, <1>1, <2>3 DEF ChannelsInv
  <2>5. ASSUME NEW n \in Numbers
        PROVE  unitsOn'[n] + Cardinality(Inserters(n)') <= Cardinality(Writers)
    <3>1. CASE n = writer[w].on
      <4>1. unitsOn'[n] = 0
        BY <1>1, <1>4, <3>1, GoneAssumption DEF UnitsFound
      <4>2. Inserters(n)' \subseteq Writers
        BY DEF Inserters
      <4>3. /\ Cardinality(Inserters(n)') <= Cardinality(Writers)
            /\ Cardinality(Inserters(n)') \in Nat
        BY <4>2, WritersAssumption, FS_Subset, FS_CardinalityType
      <4> QED
        BY <4>1, <4>3
    <3>2. CASE n # writer[w].on
      <4>1. Inserters(n)' \subseteq Inserters(n)
        BY <2>1, <2>3, <3>2 DEF Inserters
      <4>2. unitsOn'[n] <= unitsOn[n]
        BY <1>0, <1>1 DEF ChannelsInv
      <4> QED
        BY <1>0, <2>4, <4>1, <4>2, BoundKept
    <3> QED
      BY <3>1, <3>2
  <2>6. UnitsBounded'
    BY <1>1, <2>5 DEF UnitsBounded
  <2>7. WithinRoom'
    BY <1>0, <1>1, <1>2, <2>1, <2>2, RoomKeptBy DEF Informed
  <2> QED
    BY <1>1, <2>4, <2>6, <2>7 DEF ChannelsSafe
<1> QED
  BY <1>3, <1>4 DEF Unit

LEMMA InsertKeeps ==
  ASSUME ChannelsSafe, NEW w \in Writers, InsertsUnit(w)
  PROVE  ChannelsSafe' /\ \A n \in Numbers : unitsOn'[n] >= unitsOn[n]
<1> DEFINE m == writer[w].on
<1>0. /\ ChannelsInv /\ UnitsBounded /\ WithinRoom /\ writer[w] \in WriterStates
      /\ edits \in Nat
  BY EditsAndDeathsAssumption DEF ChannelsSafe, ChannelsInv
<1>1. /\ writer[w].at = "insert" /\ m # Gone
      /\ unitsOn' = [unitsOn EXCEPT ![m] = @ + 1] /\ Becomes(w, NextDevice(w))
      /\ UNCHANGED <<wmas, named, model, capacity, channels, savedBy, edits, deaths>>
  BY DEF InsertsUnit
<1>2. m \in Numbers /\ unitsOn \in [Numbers -> Nat]
  BY <1>0, <1>1 DEF WriterStates, ChannelsInv
<1>3. /\ unitsOn' \in [Numbers -> Nat] /\ unitsOn'[m] = unitsOn[m] + 1
      /\ \A n \in Numbers \ {m} : unitsOn'[n] = unitsOn[n]
  BY <1>1, <1>2
<1>4. /\ NextDevice(w) \in WriterStates
      /\ \/ NextDevice(w).at = "idle"
         \/ /\ NextDevice(w).at = "devices" /\ NextDevice(w).task = writer[w].task
            /\ NextDevice(w).max = writer[w].max
  BY <1>0, <1>1, NextDeviceState
<1>5. /\ writer' \in [Writers -> WriterStates] /\ writer'[w] = NextDevice(w)
      /\ \A v \in Writers \ {w} : writer'[v] = writer[v]
      /\ \A v \in Writers : Knows(v)'
  <2>1. NextDevice(w).at # "idle" => NextDevice(w).max \in Capacities
    BY <1>0, <1>1, <1>4 DEF ChannelsInv, Knows
  <2> QED
    BY <1>0, <1>1, <1>4, <2>1, BecomesKnown
<1>6. ChannelsInv'
  BY <1>0, <1>1, <1>3, <1>5 DEF ChannelsInv
<1>7. ASSUME NEW n \in Numbers
      PROVE  unitsOn'[n] + Cardinality(Inserters(n)') <= Cardinality(Writers)
  <2>1. Inserters(n)' = Inserters(n) \ {w}
    BY <1>0, <1>1, <1>4, InsertsNoMore
  <2>2. CASE n = m
    <3>1. w \in Inserters(n)
      BY <1>1, <2>2 DEF Inserters
    <3>2. Cardinality(Inserters(n)') = Cardinality(Inserters(n)) - 1
      BY <2>1, <3>1, InsertersFinite, FS_RemoveElement
    <3>3. unitsOn[n] + Cardinality(Inserters(n)) <= Cardinality(Writers)
      BY <1>0 DEF UnitsBounded
    <3> QED
      BY <1>2, <1>3, <2>2, <3>2, <3>3, InsertersFinite
  <2>3. CASE n # m
    <3>1. unitsOn'[n] <= unitsOn[n]
      BY <1>2, <1>3, <2>3
    <3> QED
      BY <1>0, <1>6, <2>1, <3>1, BoundKept
  <2> QED
    BY <2>2, <2>3
<1>8. UnitsBounded'
  BY <1>7 DEF UnitsBounded
<1>9. WithinRoom'
  <2>1. edits = 0 /\ ~wmas => channels \subseteq Room /\ Informed(NextDevice(w))
    BY <1>0, <1>1, <1>4 DEF WithinRoom, Informed
  <2> QED
    BY <1>0, <1>1, <1>4, <2>1, RoomKeptBy
<1> QED
  BY <1>2, <1>3, <1>6, <1>8, <1>9 DEF ChannelsSafe

LEMMA OperatorKeeps ==
  ASSUME ChannelsSafe, OperatorDeletesChannel
  PROVE  ChannelsSafe' /\ edits' # 0
<1>0. /\ ChannelsInv /\ UnitsBounded /\ writer \in [Writers -> WriterStates] /\ edits \in Nat
      /\ MaxChannelEdits \in Nat
  BY EditsAndDeathsAssumption DEF ChannelsSafe, ChannelsInv
<1>1. PICK n \in channels : channels' = channels \ {n} /\ Deletes({n}, writer)
  BY DEF OperatorDeletesChannel
<1>2. /\ edits < MaxChannelEdits /\ edits' = edits + 1
      /\ UNCHANGED <<wmas, named, model, capacity, savedBy, deaths>>
  BY DEF OperatorDeletesChannel
<1>3. edits' \in 0 .. MaxChannelEdits /\ edits' # 0
  BY <1>0, <1>2
<1>4. {n} \in SUBSET Numbers /\ channels' \subseteq Numbers
  BY <1>0, <1>1 DEF ChannelsInv
<1>5. \A v \in Writers : writer[v].at # "idle" => writer[v].max \in Capacities
  BY <1>0 DEF ChannelsInv, Knows
<1>6. ChannelsInv' /\ UnitsBounded'
  <2>1. /\ model' \in Models /\ capacity' \in Capacities /\ savedBy' \subseteq Writers
        /\ deaths' \in 0 .. MaxChannelDeaths /\ \A u, v \in savedBy' : u = v
    BY <1>0, <1>2 DEF ChannelsInv
  <2> QED
    BY <1>0, <1>1, <1>2, <1>3, <1>4, <1>5, <2>1, DeletesKeeps
<1>7. WithinRoom'
  BY <1>3 DEF WithinRoom
<1> QED
  BY <1>3, <1>6, <1>7 DEF ChannelsSafe

LEMMA ChannelsStart == ChannelsInit => ChannelsSafe
<1> SUFFICES ASSUME ChannelsInit
             PROVE  ChannelsSafe
  OBVIOUS
<1>1. ChannelsInv
  BY SlotsAreNumbers, RestingIsState, EditsAndDeathsAssumption
     DEF ChannelsInit, ChannelsInv, Knows
<1>2. UnitsBounded
  BY InsertersFinite DEF ChannelsInit, UnitsBounded
<1>3. WithinRoom
  <2>1. ASSUME NEW w \in Writers
        PROVE  Informed(writer[w])
    BY RestingIsState DEF ChannelsInit, Informed
  <2>2. capacity \in Believed
    BY DEF ChannelsInit, Believed
  <2> QED
    BY <2>1, <2>2 DEF ChannelsInit, WithinRoom, Room
<1> QED
  BY <1>1, <1>2, <1>3 DEF ChannelsSafe

\* No unit is taken off a channel the sources agree on.
UnitsKept ==
  ~wmas /\ edits' = 0 =>
    \A n \in Numbers : Undisputed(n) => unitsOn'[n] >= unitsOn[n]

LEMMA ChannelsStep ==
  ASSUME ChannelsSafe, [ChannelsNext]_rfvars
  PROVE  ChannelsSafe' /\ UnitsKept
<1>0. \A n \in Numbers : unitsOn[n] \in Nat
  BY DEF ChannelsSafe, ChannelsInv
<1>1. unitsOn' = unitsOn => UnitsKept
  BY <1>0 DEF UnitsKept
<1>2. CASE UNCHANGED rfvars
  <2>1. ChannelsInv' /\ UnitsBounded'
    BY <1>2 DEF rfvars, ChannelsSafe, ChannelsInv, UnitsBounded, Inserters, Knows
  <2>2. WithinRoom'
    BY <1>2, RoomKept DEF rfvars, ChannelsSafe, WithinRoom
  <2> QED
    BY <1>1, <1>2, <2>1, <2>2 DEF rfvars, ChannelsSafe
<1>3. ASSUME NEW w \in Writers,
             \/ StartsBatch(w) \/ SavesUpdate(w) \/ SavesTransition(w)
             \/ SavesBatch(w) \/ SavesForm(w)
      PROVE  ChannelsSafe' /\ UnitsKept
  BY <1>1, <1>3, SavesKeep
<1>4. ASSUME NEW w \in Writers, Fill(w)
      PROVE  ChannelsSafe' /\ UnitsKept
  BY <1>0, <1>4, FillKeeps DEF UnitsKept
<1>5. ASSUME NEW w \in Writers, InsertsUnit(w)
      PROVE  ChannelsSafe' /\ UnitsKept
  BY <1>5, InsertKeeps DEF UnitsKept
<1>6. ASSUME NEW w \in Writers,
             \/ FillCollides(w) \/ ReportedChannel(w) \/ Unit(w)
             \/ DeviceFails(w) \/ WriterDies(w)
      PROVE  ChannelsSafe' /\ UnitsKept
  BY <1>1, <1>6, UpdateKeeps, UnitKeeps
<1>7. CASE OperatorDeletesChannel
  BY <1>7, OperatorKeeps DEF UnitsKept
<1> QED
  BY <1>2, <1>3, <1>4, <1>5, <1>6, <1>7 DEF ChannelsNext, WriterGoesOn

LEMMA ChannelsTyped == ChannelsSafe => ChannelsTypeOK
<1> SUFFICES ASSUME ChannelsSafe
             PROVE  ChannelsTypeOK
  OBVIOUS
<1>1. ChannelsInv /\ UnitsBounded
  BY DEF ChannelsSafe
<1>2. unitsOn \in [Numbers -> 0 .. Cardinality(Writers)]
  <2>1. ASSUME NEW n \in Numbers
        PROVE  unitsOn[n] \in 0 .. Cardinality(Writers)
    BY <1>1, InsertersFinite DEF ChannelsInv, UnitsBounded
  <2> QED
    BY <1>1, <2>1 DEF ChannelsInv
<1>3. Cardinality(savedBy) <= 1
  <2>1. savedBy = {} \/ \E w \in Writers : savedBy = {w}
    BY <1>1 DEF ChannelsInv
  <2> QED
    BY <2>1, FS_EmptySet, FS_Singleton
<1> QED
  BY <1>1, <1>2, <1>3 DEF ChannelsInv, ChannelsTypeOK, WriterStates

\* No channel has more units than there are writers, one save holds the row at a time, and every
\* number is one that the capacity or the vendor has named.
THEOREM ChannelsTypeCorrect == ChannelsSpec => []ChannelsTypeOK
<1>1. ChannelsSafe /\ [ChannelsNext]_rfvars => ChannelsSafe'
  BY ChannelsStep
<1> QED
  BY <1>1, ChannelsTyped, ChannelsStart, PTL DEF ChannelsSpec

\* A wireless unit keeps a channel the sources of the model agree on as long as no operator
\* interferes: what a save deletes some other source has room for, and a channel that no source
\* has room for is never created, because an update's instance goes by one of them too.
THEOREM UnitsStayAssigned == ChannelsSpec => UnitsKeepChannels
<1>1. ChannelsSafe /\ [ChannelsNext]_rfvars => ChannelsSafe' /\ [UnitsKept]_rfvars
  BY ChannelsStep
<1> QED
  BY <1>1, ChannelsStart, PTL DEF ChannelsSpec, UnitsKeepChannels, UnitsKept

-----------------------------------------------------------------------------
(***************************************************************************)
(* The vendor client.                                                      *)
(***************************************************************************)
LEMMA ClientStart == ClientInit => ClientTypeOK
BY ClientAssumption DEF ClientInit, ClientTypeOK, MaxFailures

LEMMA ClientStep ==
  ASSUME ClientTypeOK, [ClientNext]_vvars
  PROVE  ClientTypeOK'
<1>0. MaxFailures \in Nat \ {0} /\ MaxRetries \in Nat /\ FailureThreshold \in Nat
  BY ClientAssumption DEF MaxFailures
<1> USE <1>0 DEF ClientTypeOK
<1>1. CASE RecoveryTimePasses
  BY <1>1 DEF RecoveryTimePasses
<1>2. CASE BeginRequest
  BY <1>2 DEF BeginRequest, AllowRequest
<1>3. CASE Succeed
  BY <1>3 DEF Succeed, RecordSuccess
<1>4. ASSUME NEW was \in {"closed", "open", "half-open"}, NEW sofar \in 0 .. MaxFailures,
             RecordFailure(was, sofar)
      PROVE  /\ circuit' \in {"closed", "open", "half-open"}
             /\ failures' \in 0 .. MaxFailures
             /\ cooled' \in BOOLEAN /\ healthy' \in BOOLEAN
  <2>1. failures' \in 0 .. MaxFailures
    BY <1>0, <1>4 DEF RecordFailure
  <2>2. circuit' \in {"closed", "open", "half-open"}
    BY <1>4 DEF RecordFailure
  <2>3. cooled' \in BOOLEAN /\ healthy' \in BOOLEAN
    BY <1>4 DEF RecordFailure
  <2> QED
    BY <2>1, <2>2, <2>3
<1>5. CASE Retry
  <2>1. attempt' \in -1 .. MaxRetries
    BY <1>5 DEF Retry
  <2> QED
    BY <1>4, <1>5, <2>1 DEF Retry
<1>6. CASE GiveUp
  <2>1. attempt' \in -1 .. MaxRetries
    BY <1>6 DEF GiveUp
  <2> QED
    BY <1>4, <1>6, <2>1 DEF GiveUp
<1>7. CASE Misread
  <2>1. attempt' \in -1 .. MaxRetries /\ 0 \in 0 .. MaxFailures
    BY <1>7 DEF Misread
  <2> QED
    BY <1>4, <1>7, <2>1 DEF Misread
<1>8. CASE UNCHANGED vvars
  BY <1>8 DEF vvars
<1> QED
  BY <1>1, <1>2, <1>3, <1>5, <1>6, <1>7, <1>8 DEF ClientNext, Request

\* The counts stay within the attempts of a request and the failures that are told apart.
THEOREM ClientTypeCorrect == ClientSpec => []ClientTypeOK
BY ClientStart, ClientStep, PTL DEF ClientSpec

\* A client that reports its vendor healthy refuses it no request: whatever opens the circuit
\* or puts it on trial has left _is_healthy false, and only a success makes it true again.
THEOREM HealthAgreesWithCircuit == ClientSpec => []HealthyMeansClosed
<1>1. ClientInit => HealthyMeansClosed
  BY DEF ClientInit, HealthyMeansClosed
<1>2. HealthyMeansClosed /\ [ClientNext]_vvars => HealthyMeansClosed'
  <2> SUFFICES ASSUME HealthyMeansClosed, [ClientNext]_vvars
               PROVE  HealthyMeansClosed'
    OBVIOUS
  <2> USE DEF HealthyMeansClosed, IsHealthy
  <2>1. CASE RecoveryTimePasses
    BY <2>1 DEF RecoveryTimePasses
  <2>2. CASE BeginRequest
    BY <2>2 DEF BeginRequest, AllowRequest
  <2>3. CASE Succeed
    BY <2>3 DEF Succeed, RecordSuccess
  <2>4. CASE Retry \/ GiveUp \/ Misread
    BY <2>4 DEF Retry, GiveUp, Misread, RecordFailure
  <2>5. CASE UNCHANGED vvars
    BY <2>5 DEF vvars
  <2> QED
    BY <2>1, <2>2, <2>3, <2>4, <2>5 DEF ClientNext, Request
<1> QED
  BY <1>1, <1>2, PTL DEF ClientSpec
-----------------------------------------------------------------------------
(***************************************************************************)
(* The polls of the chargers.                                              *)
(***************************************************************************)
\* What a cursor has: the stations of the devices it has passed, unless one was silent.
Gathers(c) ==
  /\ c.next <= Len(c.of)
  /\ c.failed \/ FirstStations(c.found, c.of, c.next)

ChargersInv ==
  /\ ChargerTypeOK
  /\ Gathers(continuation)
  /\ \A p \in Polls : Gathers(poll[p].cursor)
  /\ \A p \in Polls :
       poll[p].at = "ask" =>
         /\ poll[p].cursor.of \in Inventories /\ Len(poll[p].cursor.of) <= HardInventory
         /\ poll[p].cursor.next <= poll[p].until /\ poll[p].until <= Len(poll[p].cursor.of)

ChargersSafe == ChargersInv /\ PublishedWhole

LEMMA FoundIsSequence ==
  ASSUME NEW found \in Found
  PROVE  found \in Seq(Stations) /\ Len(found) \in 0 .. MaxStations
BY PagesAssumption DEF Found

LEMMA SequenceIsFunction ==
  ASSUME NEW S, NEW s \in Seq(S)
  PROVE  s \in [1 .. Len(s) -> S]
OBVIOUS

LEMMA CursorOf ==
  ASSUME NEW r, NEW n, NEW i, NEW f, NEW b, NEW j, NEW x,
         r = [next |-> n, of |-> i, found |-> f, failed |-> b],
         x = [r EXCEPT !.of = j]
  PROVE  x = [next |-> n, of |-> j, found |-> f, failed |-> b]
OBVIOUS

LEMMA PollWith ==
  ASSUME NEW r, NEW a, NEW c, NEW u, NEW b, NEW d, NEW x,
         r = [at |-> a, cursor |-> c, until |-> u],
         x = [r EXCEPT !.at = b, !.cursor = d]
  PROVE  x = [at |-> b, cursor |-> d, until |-> u]
OBVIOUS

LEMMA NoneFound == <<>> \in Found
<1>1. 0 \in 0 .. MaxStations /\ <<>> \in [1 .. 0 -> Stations]
  BY PagesAssumption
<1> QED
  BY <1>1 DEF Found

\* Before its first device a cursor has found the stations of no device.
LEMMA BeginningGathers ==
  ASSUME NEW inv \in Inventories \cup {<<>>}
  PROVE  [Nowhere EXCEPT !.of = inv] \in Cursors /\ Gathers([Nowhere EXCEPT !.of = inv])
<1> DEFINE c == [Nowhere EXCEPT !.of = inv]
<1>1. Len(inv) \in Nat
  <2>1. CASE inv \in Inventories
    <3>1. inv \in Seq(Devices)
      BY <2>1, InventoriesAssumption
    <3> QED
      BY <3>1
  <2>2. CASE inv = <<>>
    BY <2>2
  <2> QED
    BY <2>1, <2>2
<1>2. c = [next |-> 0, of |-> inv, found |-> <<>>, failed |-> FALSE]
  <2>1. Nowhere = [next |-> 0, of |-> <<>>, found |-> <<>>, failed |-> FALSE]
    BY DEF Nowhere
  <2>2. c = [Nowhere EXCEPT !.of = inv]
    OBVIOUS
  <2> HIDE DEF c
  <2> QED
    BY <2>1, <2>2, CursorOf
<1>3. c \in Cursors
  <2>1. 0 \in 0 .. HardInventory
    BY PagesAssumption
  <2> QED
    BY <1>2, <2>1, NoneFound DEF Cursors
<1>4. FirstStations(<<>>, inv, 0)
  <2> DEFINE places == [i \in {} |-> i]
  <2>1. DOMAIN <<>> = {} /\ 1 .. 0 = {} /\ places \in [{} -> {}]
    OBVIOUS
  <2>2. \E f \in [DOMAIN <<>> -> 1 .. 0] : TRUE
    BY <2>1
  <2> QED
    BY <2>1, <2>2 DEF FirstStations
<1> QED
  BY <1>1, <1>2, <1>3, <1>4 DEF Gathers

LEMMA NowhereGathers == Nowhere \in Cursors /\ Gathers(Nowhere)
<1>1. [Nowhere EXCEPT !.of = <<>>] = Nowhere
  BY DEF Nowhere
<1> QED
  BY <1>1, BeginningGathers

\* Passing a device keeps the stations found those of the devices passed.
LEMMA PassedGathers ==
  ASSUME NEW c \in Cursors, NEW answers \in BOOLEAN, Gathers(c),
         c.of \in Inventories, Len(c.of) <= HardInventory, c.next < Len(c.of)
  PROVE  /\ Passed(c, answers) \in Cursors /\ Gathers(Passed(c, answers))
         /\ Passed(c, answers).of = c.of /\ Passed(c, answers).next = c.next + 1
<1> DEFINE d == c.of[c.next + 1]
           n == c.next
           asked == /\ d \in Stations /\ Len(c.found) < MaxStations
                    /\ \A i \in DOMAIN c.found : c.found[i] # d
           found == IF asked /\ answers THEN Append(c.found, d) ELSE c.found
           after == Passed(c, answers)
<1>1. n \in 0 .. HardInventory /\ c.found \in Found /\ c.failed \in BOOLEAN
  BY DEF Cursors
<1>2. c.found \in Seq(Stations) /\ Len(c.found) \in 0 .. MaxStations
  BY <1>1, FoundIsSequence
<1>3. c.of \in Seq(Devices) /\ Len(c.of) \in Nat
  BY InventoriesAssumption
<1>4. HardInventory \in Nat /\ MaxStations \in Nat
  BY PagesAssumption
<1>5. /\ after.next = n + 1 /\ after.of = c.of /\ after.found = found
      /\ after.failed = (c.failed \/ (asked /\ ~answers))
      /\ after = [next |-> n + 1, of |-> c.of, found |-> found,
                  failed |-> c.failed \/ (asked /\ ~answers)]
  <2>1. c = [next |-> n, of |-> c.of, found |-> c.found, failed |-> c.failed]
    BY DEF Cursors
  <2>2. after = [c EXCEPT !.next = n + 1, !.found = found,
                          !.failed = c.failed \/ (asked /\ ~answers)]
    BY <2>1 DEF Passed
  <2> HIDE DEF after, found, asked
  <2>3. after = [next |-> n + 1, of |-> c.of, found |-> found,
                 failed |-> c.failed \/ (asked /\ ~answers)]
    BY <2>1, <2>2
  <2> QED
    BY <2>3
<1>6. found \in Found
  <2>1. CASE asked /\ answers
    <3>0. Append(c.found, d) \in Seq(Stations) /\ Len(Append(c.found, d)) = Len(c.found) + 1
      BY <1>2, <2>1
    <3>1. Append(c.found, d) \in [1 .. Len(c.found) + 1 -> Stations]
      BY <3>0, SequenceIsFunction
    <3>2. Len(c.found) + 1 \in 0 .. MaxStations
      BY <1>2, <1>4, <2>1
    <3> QED
      BY <2>1, <3>1, <3>2 DEF Found
  <2> QED
    BY <1>1, <2>1
<1>7. after \in Cursors
  <2>1. n + 1 \in 0 .. HardInventory
    BY <1>1, <1>3, <1>4
  <2> HIDE DEF found, asked
  <2> QED
    BY <1>1, <1>5, <1>6, <2>1 DEF Cursors
<1>8. ASSUME ~after.failed
      PROVE  FirstStations(found, c.of, n + 1)
  <2>1. PICK places \in [DOMAIN c.found -> 1 .. n] :
          /\ \A i \in DOMAIN c.found : c.of[places[i]] = c.found[i] /\ c.found[i] \in Stations
          /\ \A i, j \in DOMAIN c.found :
               i < j => places[i] < places[j] /\ c.found[i] # c.found[j]
          /\ \A k \in 1 .. n : c.of[k] \in Stations =>
               \/ \E i \in DOMAIN c.found : c.found[i] = c.of[k] /\ places[i] <= k
               \/ Len(c.found) = MaxStations /\ \A i \in DOMAIN c.found : places[i] < k
    BY <1>5, <1>8 DEF Gathers, FirstStations
  <2>2. CASE asked
    <3> DEFINE m == Len(c.found)
               later == [i \in 1 .. m + 1 |-> IF i = m + 1 THEN n + 1 ELSE places[i]]
    <3>1. answers /\ found = Append(c.found, d)
      BY <1>5, <1>8, <2>2
    <3>2. /\ DOMAIN c.found = 1 .. m /\ DOMAIN found = 1 .. m + 1 /\ Len(found) = m + 1
          /\ \A i \in 1 .. m : found[i] = c.found[i]
          /\ found[m + 1] = d
      BY <1>2, <2>2, <3>1
    <3>3. later \in [DOMAIN found -> 1 .. n + 1]
      BY <1>1, <1>2, <3>2
    <3>4. ASSUME NEW i \in DOMAIN found
          PROVE  c.of[later[i]] = found[i] /\ found[i] \in Stations
      BY <1>2, <2>1, <2>2, <3>2
    <3>5. ASSUME NEW i \in DOMAIN found, NEW j \in DOMAIN found, i < j
          PROVE  later[i] < later[j] /\ found[i] # found[j]
      <4>1. i \in 1 .. m /\ places[i] \in 1 .. n /\ later[i] = places[i]
        BY <1>2, <3>2, <3>5
      <4>2. CASE j = m + 1
        BY <1>1, <2>2, <3>2, <4>1, <4>2
      <4>3. CASE j \in 1 .. m
        <5>1. later[j] = places[j]
          BY <1>2, <4>3
        <5> QED
          BY <2>1, <3>2, <3>5, <4>1, <4>3, <5>1
      <4> QED
        BY <1>2, <3>2, <4>2, <4>3
    <3>6. ASSUME NEW k \in 1 .. n + 1, c.of[k] \in Stations
          PROVE  \E i \in DOMAIN found : found[i] = c.of[k] /\ later[i] <= k
      <4>1. CASE k = n + 1
        <5>1. m + 1 \in DOMAIN found /\ later[m + 1] = n + 1
          BY <1>2, <3>2
        <5>2. found[m + 1] = c.of[k] /\ n + 1 <= k
          BY <1>1, <3>2, <4>1
        <5> HIDE DEF found, later
        <5> QED
          BY <4>1, <5>1, <5>2
      <4>2. CASE k \in 1 .. n
        <5>1. m # MaxStations
          BY <1>2, <1>4, <2>2
        <5>2. PICK i \in DOMAIN c.found : c.found[i] = c.of[k] /\ places[i] <= k
          BY <2>1, <3>6, <4>2, <5>1
        <5>3. i \in DOMAIN found /\ found[i] = c.found[i] /\ later[i] = places[i]
          BY <1>2, <3>2, <5>2
        <5> QED
          BY <5>2, <5>3
      <4> QED
        BY <1>1, <4>1, <4>2
    <3> HIDE DEF found, later
    <3> QED
      BY <3>3, <3>4, <3>5, <3>6 DEF FirstStations
  <2>3. CASE ~asked
    <3>1. found = c.found
      BY <2>3
    <3>2. places \in [DOMAIN found -> 1 .. n + 1]
      <4>1. 1 .. n \subseteq 1 .. n + 1
        BY <1>1
      <4>2. places \in [DOMAIN found -> 1 .. n]
        BY <3>1
      <4> HIDE DEF found
      <4> QED
        BY <4>1, <4>2
    <3>3. ASSUME NEW k \in 1 .. n + 1, c.of[k] \in Stations
          PROVE  \/ \E i \in DOMAIN found : found[i] = c.of[k] /\ places[i] <= k
                 \/ Len(found) = MaxStations /\ \A i \in DOMAIN found : places[i] < k
      <4>0. \A i \in DOMAIN found : places[i] \in 1 .. n
        BY <3>1
      <4>1. CASE k = n + 1
        <5>1. CASE Len(c.found) >= MaxStations
          <6>1. Len(c.found) = MaxStations
            BY <1>2, <1>4, <5>1
          <6>2. \A i \in DOMAIN found : places[i] < k
            BY <1>1, <4>0, <4>1
          <6> QED
            BY <3>1, <6>1, <6>2
        <5>2. CASE \E i \in DOMAIN c.found : c.found[i] = d
          <6>1. PICK i \in DOMAIN c.found : c.found[i] = d
            BY <5>2
          <6>2. places[i] <= k
            BY <1>1, <3>1, <4>0, <4>1, <6>1
          <6> QED
            BY <3>1, <4>1, <6>1, <6>2
        <5> QED
          BY <1>2, <1>4, <2>3, <3>3, <4>1, <5>1, <5>2
      <4>2. CASE k \in 1 .. n
        BY <2>1, <3>1, <3>3, <4>2
      <4> QED
        BY <1>1, <4>1, <4>2
    <3> QED
      BY <2>1, <3>1, <3>2, <3>3 DEF FirstStations
  <2> QED
    BY <2>2, <2>3
<1>9. Gathers(after)
  <2>1. n + 1 <= Len(c.of)
    BY <1>1, <1>3
  <2> HIDE DEF after, found, asked
  <2> QED
    BY <1>5, <1>8, <2>1 DEF Gathers
<1> QED
  BY <1>5, <1>7, <1>9

LEMMA LeastType ==
  ASSUME NEW a \in Nat, NEW b \in Nat
  PROVE  Least(a, b) \in Nat /\ Least(a, b) <= a /\ Least(a, b) <= b
BY DEF Least

\* A poll that is not among its stations holds a cursor that may be stored.
LEMMA PollMoves ==
  ASSUME ChargersInv, NEW p \in Polls,
         NEW at \in {"idle", "read", "leave"}, NEW c \in Cursors, Gathers(c),
         NEW until \in 0 .. HardInventory,
         poll' = [poll EXCEPT ![p] = [at |-> at, cursor |-> c, until |-> until]],
         UNCHANGED <<inventory, continuation>>, snapshot' \in {{}} \cup {{found} : found \in Found}
  PROVE  ChargersInv'
<1> USE DEF ChargersInv, ChargerTypeOK
<1>1. poll' \in [Polls -> [at : {"idle", "read", "ask", "leave"},
                           cursor : Cursors, until : 0 .. HardInventory]]
  OBVIOUS
<1>2. ASSUME NEW q \in Polls
      PROVE  /\ Gathers(poll'[q].cursor)
             /\ poll'[q].at = "ask" => q # p /\ poll'[q] = poll[q]
  BY <1>2 DEF Gathers
<1>3. Gathers(continuation)'
  BY DEF Gathers
<1>4. ChargerTypeOK'
  BY <1>1
<1>5. \A q \in Polls : Gathers(poll[q].cursor)'
  BY <1>2 DEF Gathers
<1> QED
  BY <1>2, <1>3, <1>4, <1>5

LEMMA IdleIsState ==
  /\ Idle = [at |-> "idle", cursor |-> Nowhere, until |-> 0]
  /\ Leaving = [at |-> "leave", cursor |-> Nowhere, until |-> 0]
  /\ 0 \in 0 .. HardInventory
BY PagesAssumption DEF Idle, Leaving

LEMMA ReadKeeps ==
  ASSUME ChargersInv, NEW p \in Polls, ReadContinuation(p)
  PROVE  ChargersInv'
<1>1. poll[p].until \in 0 .. HardInventory /\ continuation \in Cursors /\ Gathers(continuation)
  BY DEF ChargersInv, ChargerTypeOK
<1>2. poll' = [poll EXCEPT ![p] = [at |-> "read", cursor |-> continuation,
                                   until |-> poll[p].until]]
  <2>1. poll[p] = [at |-> poll[p].at, cursor |-> poll[p].cursor, until |-> poll[p].until]
    BY DEF ChargersInv, ChargerTypeOK
  <2>2. ASSUME NEW x, x = [poll[p] EXCEPT !.at = "read", !.cursor = continuation]
        PROVE  x = [at |-> "read", cursor |-> continuation, until |-> poll[p].until]
    BY <2>1, <2>2, PollWith
  <2>3. poll' = [poll EXCEPT ![p] = [poll[p] EXCEPT !.at = "read", !.cursor = continuation]]
    BY DEF ReadContinuation
  <2> QED
    BY <2>2, <2>3
<1> QED
  BY <1>1, <1>2, PollMoves DEF ReadContinuation, ChargersInv, ChargerTypeOK

LEMMA GatherKeeps ==
  ASSUME ChargersInv, NEW p \in Polls, Gather(p)
  PROVE  ChargersInv'
<1> DEFINE from == Offset(poll[p].cursor)
           start == IF from = 0 THEN Nowhere ELSE poll[p].cursor
           c == [start EXCEPT !.of = inventory]
           until == Least(from + PageSize, Len(inventory))
<1>1. CASE Len(inventory) > HardInventory
  <2>1. poll' = [poll EXCEPT ![p] = Leaving]
    BY <1>1 DEF Gather
  <2> QED
    BY <2>1, IdleIsState, NowhereGathers, PollMoves DEF Gather, ChargersInv, ChargerTypeOK
<1>2. CASE ~(Len(inventory) > HardInventory)
  <2>1. /\ poll' = [poll EXCEPT ![p] = [at |-> "ask", cursor |-> c, until |-> until]]
        /\ UNCHANGED <<inventory, continuation, snapshot>>
    BY <1>2 DEF Gather
  <2>2. /\ inventory \in Inventories /\ Len(inventory) \in Nat
        /\ HardInventory \in Nat /\ PageSize \in Nat
    BY InventoriesAssumption, PagesAssumption DEF ChargersInv, ChargerTypeOK
  <2>3. poll[p].cursor \in Cursors /\ Gathers(poll[p].cursor)
    BY DEF ChargersInv, ChargerTypeOK
  <2>4. c \in Cursors /\ Gathers(c) /\ c.of = inventory /\ c.next = from
    <3>1. CASE from = 0
      BY <2>2, <3>1, BeginningGathers DEF Nowhere
    <3>2. CASE from # 0
      <4>1. poll[p].cursor.of = inventory /\ c = poll[p].cursor
        BY <2>3, <3>2 DEF Offset, Cursors
      <4> QED
        BY <2>3, <3>2, <4>1 DEF Offset
    <3> QED
      BY <3>1, <3>2
  <2>5. from \in Nat /\ from <= Len(inventory)
    BY <2>2, <2>4 DEF Gathers, Cursors
  <2>6. until \in 0 .. HardInventory /\ from <= until /\ until <= Len(inventory)
    BY <1>2, <2>2, <2>5 DEF Least
  <2> HIDE DEF c, until
  <2>7. ASSUME NEW q \in Polls
        PROVE  /\ Gathers(poll'[q].cursor)
               /\ poll'[q].at = "ask" =>
                    /\ poll'[q].cursor.of \in Inventories
                    /\ Len(poll'[q].cursor.of) <= HardInventory
                    /\ poll'[q].cursor.next <= poll'[q].until
                    /\ poll'[q].until <= Len(poll'[q].cursor.of)
    <3>1. CASE q = p
      <4>1. poll'[q] = [at |-> "ask", cursor |-> c, until |-> until]
        BY <2>1, <3>1 DEF ChargersInv, ChargerTypeOK
      <4>2. Len(inventory) <= HardInventory
        BY <1>2, <2>2
      <4> QED
        BY <2>2, <2>4, <2>6, <4>1, <4>2
    <3>2. CASE q # p
      BY <2>1, <3>2 DEF ChargersInv, ChargerTypeOK
    <3> QED
      BY <3>1, <3>2
  <2>8. ChargerTypeOK'
    BY <2>1, <2>4, <2>6 DEF ChargersInv, ChargerTypeOK
  <2>9. Gathers(continuation')
    BY <2>1 DEF ChargersInv
  <2> QED
    BY <2>7, <2>8, <2>9 DEF ChargersInv, Gathers
<1> QED
  BY <1>1, <1>2

LEMMA AskKeeps ==
  ASSUME ChargersInv, NEW p \in Polls, NEW answers \in BOOLEAN, Ask(p, answers)
  PROVE  ChargersInv'
<1> DEFINE c == poll[p].cursor
           after == Passed(c, answers)
<1>1. /\ c \in Cursors /\ Gathers(c) /\ c.of \in Inventories /\ Len(c.of) <= HardInventory
      /\ poll[p].until \in 0 .. HardInventory /\ poll[p].at = "ask"
      /\ c.next < poll[p].until /\ poll[p].until <= Len(c.of)
  BY DEF ChargersInv, ChargerTypeOK, Ask
<1>2. Len(c.of) \in Nat /\ c.next \in 0 .. HardInventory /\ HardInventory \in Nat
  BY <1>1, InventoriesAssumption, PagesAssumption DEF Cursors
<1>3. c.next < Len(c.of) /\ c.next + 1 <= poll[p].until
  BY <1>1, <1>2
<1>4. after \in Cursors /\ Gathers(after) /\ after.of = c.of /\ after.next = c.next + 1
  BY <1>1, <1>3, PassedGathers
<1>5. /\ poll' = [poll EXCEPT ![p] = [at |-> "ask", cursor |-> after, until |-> poll[p].until]]
      /\ UNCHANGED <<inventory, continuation, snapshot>>
  <2>1. poll[p] = [at |-> "ask", cursor |-> poll[p].cursor, until |-> poll[p].until]
    BY <1>1 DEF ChargersInv, ChargerTypeOK
  <2>2. [poll[p] EXCEPT !.cursor = after]
          = [at |-> "ask", cursor |-> after, until |-> poll[p].until]
    <3> HIDE DEF after
    <3> QED
      BY <2>1
  <2>3. poll' = [poll EXCEPT ![p] = [poll[p] EXCEPT !.cursor = after]]
    BY DEF Ask
  <2> QED
    BY <2>2, <2>3 DEF Ask
<1> HIDE DEF after
<1>6. ASSUME NEW q \in Polls
      PROVE  /\ Gathers(poll'[q].cursor)
             /\ poll'[q].at = "ask" =>
                  /\ poll'[q].cursor.of \in Inventories
                  /\ Len(poll'[q].cursor.of) <= HardInventory
                  /\ poll'[q].cursor.next <= poll'[q].until
                  /\ poll'[q].until <= Len(poll'[q].cursor.of)
  <2>1. CASE q = p
    <3>1. poll'[q] = [at |-> "ask", cursor |-> after, until |-> poll[p].until]
      BY <1>5, <2>1 DEF ChargersInv, ChargerTypeOK
    <3> QED
      BY <1>1, <1>3, <1>4, <3>1
  <2>2. CASE q # p
    BY <1>5, <2>2 DEF ChargersInv, ChargerTypeOK
  <2> QED
    BY <2>1, <2>2
<1>7. ChargerTypeOK'
  BY <1>1, <1>4, <1>5 DEF ChargersInv, ChargerTypeOK
<1>8. Gathers(continuation')
  BY <1>5 DEF ChargersInv
<1> QED
  BY <1>6, <1>7, <1>8 DEF ChargersInv, Gathers

\* A poll publishes, and leaves nothing to go on from.
LEMMA PublishKeeps ==
  ASSUME ChargersSafe, NEW p \in Polls, Publish(p)
  PROVE  ChargersSafe'
<1> DEFINE c == poll[p].cursor
<1>1. /\ c \in Cursors /\ Gathers(c) /\ c.of \in Inventories /\ c.next = Len(c.of) /\ ~c.failed
  BY DEF ChargersSafe, ChargersInv, ChargerTypeOK, Publish, Publishes, CycleEnds, PageEnds
<1>2. FirstStations(c.found, c.of, Len(c.of)) /\ c.found \in Found
  BY <1>1 DEF Gathers, Cursors
<1>3. snapshot' = {c.found}
  BY DEF Publish
<1>4. PublishedWhole'
  <2>1. ASSUME NEW found \in snapshot'
        PROVE  \E inv \in Inventories : FirstStations(found, inv, Len(inv))
    BY <1>1, <1>2, <1>3, <2>1
  <2> QED
    BY <2>1 DEF PublishedWhole, FirstStations
<1>5. ChargersInv'
  BY <1>2, <1>3, IdleIsState, NowhereGathers, PollMoves DEF Publish, ChargersSafe
<1> QED
  BY <1>4, <1>5 DEF ChargersSafe

LEMMA LeaveKeeps ==
  ASSUME ChargersInv, NEW p \in Polls, Leave(p)
  PROVE  ChargersInv'
<1>1. poll[p].cursor \in Cursors /\ Gathers(poll[p].cursor)
  BY DEF ChargersInv, ChargerTypeOK
<1>2. continuation' \in Cursors /\ Gathers(continuation')
  BY <1>1, NowhereGathers DEF Leave
<1>3. ASSUME NEW q \in Polls
      PROVE  /\ poll'[q] = IF q = p THEN Idle ELSE poll[q]
             /\ poll'[q].at = "ask" => q # p
             /\ Gathers(poll'[q].cursor)
  BY IdleIsState, NowhereGathers DEF Leave, ChargersInv, ChargerTypeOK
<1>4. ChargerTypeOK'
  BY <1>2, IdleIsState, NowhereGathers DEF Leave, ChargersInv, ChargerTypeOK
<1> QED
  BY <1>2, <1>3, <1>4 DEF ChargersInv, Gathers

LEMMA FaultKeeps ==
  ASSUME ChargersInv, NEW p \in Polls, CacheRaisesIn(p) \/ PollFails(p)
  PROVE  ChargersInv' /\ UNCHANGED snapshot
<1>1. UNCHANGED <<inventory, continuation, snapshot>>
  BY DEF CacheRaisesIn, PollFails
<1>2. /\ snapshot' \in {{}} \cup {{found} : found \in Found}
      /\ poll[p].cursor \in Cursors /\ Gathers(poll[p].cursor)
      /\ poll[p].until \in 0 .. HardInventory
  BY <1>1 DEF ChargersInv, ChargerTypeOK
<1>3. \/ poll' = [poll EXCEPT ![p] = Idle] \/ poll' = [poll EXCEPT ![p] = Leaving]
      \/ poll' = [poll EXCEPT ![p] = [at |-> "read", cursor |-> poll[p].cursor,
                                      until |-> poll[p].until]]
  BY DEF CacheRaisesIn, PollFails, ChargersInv, ChargerTypeOK
<1>4. CASE poll' = [poll EXCEPT ![p] = Idle] \/ poll' = [poll EXCEPT ![p] = Leaving]
  BY <1>1, <1>2, <1>4, IdleIsState, NowhereGathers, PollMoves
<1>5. CASE poll' = [poll EXCEPT ![p] = [at |-> "read", cursor |-> poll[p].cursor,
                                        until |-> poll[p].until]]
  BY <1>1, <1>2, <1>5, PollMoves
<1> QED
  BY <1>1, <1>3, <1>4, <1>5

LEMMA ChargersStart == ChargerInit => ChargersSafe
<1> SUFFICES ASSUME ChargerInit
             PROVE  ChargersSafe
  OBVIOUS
<1>1. ChargerTypeOK
  BY IdleIsState, NowhereGathers DEF ChargerInit, ChargerTypeOK
<1>2. \A p \in Polls : Gathers(poll[p].cursor) /\ poll[p].at = "idle"
  BY IdleIsState, NowhereGathers DEF ChargerInit
<1>3. Gathers(continuation)
  BY NowhereGathers DEF ChargerInit
<1>4. PublishedWhole
  BY DEF ChargerInit, PublishedWhole
<1> QED
  BY <1>1, <1>2, <1>3, <1>4 DEF ChargersSafe, ChargersInv

LEMMA ChargersStep ==
  ASSUME ChargersSafe, [ChargerNext]_chvars
  PROVE  ChargersSafe'
<1>1. ASSUME snapshot' = snapshot \/ snapshot' = {}
      PROVE  PublishedWhole'
  BY <1>1 DEF ChargersSafe, PublishedWhole, FirstStations
<1>2. CASE ChangeInventory \/ ContinuationExpires \/ SnapshotExpires \/ UNCHANGED chvars
  <2>1. /\ inventory' \in Inventories
        /\ continuation' \in Cursors /\ Gathers(continuation')
        /\ snapshot' = snapshot \/ snapshot' = {}
        /\ poll' = poll
    BY <1>2, NowhereGathers DEF ChangeInventory, ContinuationExpires, SnapshotExpires, chvars,
      ChargersSafe, ChargersInv, ChargerTypeOK
  <2>2. ChargerTypeOK'
    BY <2>1 DEF ChargersSafe, ChargersInv, ChargerTypeOK
  <2>3. ChargersInv'
    BY <2>1, <2>2 DEF ChargersSafe, ChargersInv, Gathers
  <2> QED
    BY <1>1, <2>1, <2>3 DEF ChargersSafe
<1>3. ASSUME NEW p \in Polls, ReadContinuation(p)
      PROVE  ChargersSafe'
  BY <1>1, <1>3, ReadKeeps DEF ChargersSafe, ReadContinuation
<1>4. ASSUME NEW p \in Polls, Gather(p)
      PROVE  ChargersSafe'
  BY <1>1, <1>4, GatherKeeps DEF ChargersSafe, Gather
<1>5. ASSUME NEW p \in Polls, NEW answers \in BOOLEAN, Ask(p, answers)
      PROVE  ChargersSafe'
  BY <1>1, <1>5, AskKeeps DEF ChargersSafe, Ask
<1>6. ASSUME NEW p \in Polls, Leave(p)
      PROVE  ChargersSafe'
  BY <1>1, <1>6, LeaveKeeps DEF ChargersSafe, Leave
<1>7. ASSUME NEW p \in Polls, CacheRaisesIn(p) \/ PollFails(p)
      PROVE  ChargersSafe'
  BY <1>1, <1>7, FaultKeeps DEF ChargersSafe
<1> QED
  BY <1>2, <1>3, <1>4, <1>5, <1>6, <1>7, PublishKeeps DEF ChargerNext, PollSteps

\* Cursors and snapshots never exceed the inventory and the number of stations allowed.
THEOREM ChargersTypeCorrect == ChargerSpec => []ChargerTypeOK
<1>1. ChargersSafe => ChargerTypeOK
  BY DEF ChargersSafe, ChargersInv
<1> QED
  BY <1>1, ChargersStart, ChargersStep, PTL DEF ChargerSpec

\* Every snapshot has the first stations of one inventory, however many polls overlap, whatever
\* the inventories and the sizes of the pages, and whatever the cache forgets: a cursor is only
\* followed into the inventory it was made for, and has the stations of all it has passed.
THEOREM SnapshotsAreWhole == ChargerSpec => []PublishedWhole
<1>1. ChargersSafe => PublishedWhole
  BY DEF ChargersSafe
<1> QED
  BY <1>1, ChargersStart, ChargersStep, PTL DEF ChargerSpec

-----------------------------------------------------------------------------
(***************************************************************************)
(* The rows of the realtime connections, and all five services.            *)
(***************************************************************************)
LEMMA AgedIsMoment ==
  ASSUME NEW m \in Moments
  PROVE  Aged(m) \in Moments
BY DEF Aged, Moments

LEMMA ConnectionStart == ConnectionInit => ConnectionTypeOK
BY DEF ConnectionInit, ConnectionTypeOK, NewRow, Rows, Moments

LEMMA ConnectionStep ==
  ASSUME ConnectionTypeOK, [ConnectionNext]_cvars
  PROVE  ConnectionTypeOK'
<1> USE DEF ConnectionTypeOK
<1>1. NewRow \in Rows
  BY DEF NewRow, Rows, Moments
<1>2. ASSUME NEW t \in Turns, NEW columns \in Rows,
             SavesAll(t, columns), turnAt' \in [Turns -> {"idle", "connecting", "open"}]
      PROVE  ConnectionTypeOK'
  BY <1>2 DEF SavesAll
<1>3. ASSUME NEW t \in Turns, NEW columns \in Rows, SavesLast(t, columns)
      PROVE  ConnectionTypeOK'
  BY <1>1, <1>3 DEF SavesLast
<1>4. CASE UNCHANGED cvars
  BY <1>4 DEF cvars
<1>5. CASE Sweep
  BY <1>5 DEF Sweep, SelectStale, DisconnectStale, SelectErrors, ResetErrors, SweepsFrom, Rows,
    Moments
<1>6. CASE TenMinutesPass
  <2>1. ASSUME NEW r \in Rows
        PROVE  [r EXCEPT !.heard = Aged(@)] \in Rows
    BY AgedIsMoment DEF Rows
  <2> QED
    BY <1>6, <2>1 DEF TenMinutesPass
<1>7. CASE AnHourPasses
  <2>1. ASSUME NEW r \in Rows
        PROVE  [r EXCEPT !.failed = Aged(@), !.heard = Aged(@)] \in Rows
    BY AgedIsMoment DEF Rows
  <2> QED
    BY <1>7, <2>1 DEF AnHourPasses
<1>8. ASSUME NEW t \in Turns, MarkConnecting(t)
      PROVE  ConnectionTypeOK'
  <2>1. [connection EXCEPT !.status = "connecting"] \in Rows
    BY DEF Rows
  <2> QED
    BY <1>2, <1>8, <2>1 DEF MarkConnecting
<1>9. ASSUME NEW t \in Turns, MarkStopped(t) \/ MarkError(t)
      PROVE  ConnectionTypeOK'
  <2>1. /\ [instance[t] EXCEPT !.status = "stopped"] \in Rows
        /\ [instance[t] EXCEPT !.status = "error", !.failed = "lately"] \in Rows
    BY DEF Rows, Moments
  <2> QED
    BY <1>3, <1>9, <2>1 DEF MarkStopped, MarkError
<1>10. ASSUME NEW t \in Turns, Subscribe(t) \/ TurnEnds(t)
       PROVE  ConnectionTypeOK'
  BY <1>1, <1>10 DEF Subscribe, TurnEnds
<1>11. ASSUME NEW t \in Turns, ReceivedMessage(t)
       PROVE  ConnectionTypeOK'
  <2>1. /\ [instance[t] EXCEPT !.status = "connected", !.heard = "lately"] \in Rows
        /\ [instance[t] EXCEPT !.heard = "lately"] \in Rows
        /\ [connection EXCEPT !.heard = "lately"] \in Rows
    BY DEF Rows, Moments
  <2>2. CASE MarkConnected(t)
    BY <1>2, <1>11, <2>1, <2>2 DEF MarkConnected, ReceivedMessage
  <2>3. CASE ~MarkConnected(t)
    BY <1>11, <2>1, <2>3 DEF ReceivedMessage
  <2> QED
    BY <2>2, <2>3
<1> QED
  BY <1>4, <1>5, <1>6, <1>7, <1>8, <1>9, <1>10, <1>11 DEF ConnectionNext

\* The types of the state of all five services, whichever of them runs.
THEOREM DevicesTypeCorrect == DevicesSpec => []DevicesTypeOK
<1> DEFINE Typed == TypeInv /\ ChannelsSafe /\ ConnectionTypeOK /\ ChargersSafe /\ ClientTypeOK
<1>1. DevicesInit => Typed
  BY InitTypeInv, ChannelsStart, ConnectionStart, ChargersStart, ClientStart DEF DevicesInit
<1>2. Typed /\ [DevicesNext]_<<vars, alone, rfvars, cvars, chvars, vvars, service>> => Typed'
  <2> SUFFICES ASSUME Typed, [DevicesNext]_<<vars, alone, rfvars, cvars, chvars, vvars, service>>
               PROVE  Typed'
    OBVIOUS
  <2>1. [Next]_vars /\ [ChannelsNext]_rfvars /\ [ConnectionNext]_cvars /\ [ChargerNext]_chvars
          /\ [ClientNext]_vvars
    BY DEF DevicesNext, WatchedNext
  <2> QED
    BY <2>1, NextTypeInv, ChannelsStep, ConnectionStep, ChargersStep, ClientStep
<1>3. Typed => DevicesTypeOK
  BY ChannelsTyped DEF DevicesTypeOK, TypeInv, ChargersSafe, ChargersInv
<1> QED
  BY <1>1, <1>2, <1>3, PTL DEF DevicesSpec

------------------------------------------------------------------------------
(***************************************************************************)
(* The five together.                                                      *)
(***************************************************************************)

LEMMA DevicesStart ==
  DevicesInit => /\ Init /\ alone = TRUE
                 /\ ChannelsInit /\ ConnectionInit /\ ChargerInit /\ ClientInit
BY DEF DevicesInit

LEMMA DevicesSteps ==
  [DevicesNext]_<<vars, alone, rfvars, cvars, chvars, vvars, service>> =>
    /\ [Next]_vars
    /\ [WatchedNext]_<<vars, alone>>
    /\ [ChannelsNext]_rfvars
    /\ [ConnectionNext]_cvars
    /\ [ChargerNext]_chvars
    /\ [ClientNext]_vvars
<1>1. CASE DevicesNext
  BY <1>1 DEF DevicesNext, WatchedNext
<1>2. CASE UNCHANGED <<vars, alone, rfvars, cvars, chvars, vvars, service>>
  BY <1>2
<1> QED
  BY <1>1, <1>2

(* A behaviour of the composition is one of each service: the writers of a     *)
(* chassis, its channels, its connection, the chargers and the vendor's client *)
(* share no cache key and no row whose columns meet, so where one of them      *)
(* moves the others rest, and what is proved of one holds here.                *)
THEOREM DevicesApart ==
  DevicesSpec => Spec /\ WatchedSpec /\ ChannelsSpec /\ ConnectionSpec /\ ChargerSpec /\ ClientSpec
BY DevicesStart, DevicesSteps, PTL
   DEF DevicesSpec, Spec, WatchedSpec, ChannelsSpec, ConnectionSpec, ChargerSpec, ClientSpec

(* What the five promise holds of them together, if no chassis moves to        *)
(* another address: a draft is validated against the row it replaces, the      *)
(* status follows its table, writers that come one at a time keep the derived  *)
(* column and an operator's maintenance, units keep the channels that no       *)
(* source of the model disputes, a published snapshot is whole and a healthy   *)
(* client's circuit is closed.                                                 *)
THEOREM DevicesAreSafe ==
  ASSUME ~Moves, IsFiniteSet(Actors)
  PROVE  DevicesSpec => /\ []DevicesTypeOK
                        /\ []ValidatedAgainstRow
                        /\ []OnlineMatchesAlone
                        /\ []PublishedWhole
                        /\ []HealthyMeansClosed
                        /\ StatusFollowsTable
                        /\ UnitsKeepChannels
                        /\ MaintenanceKeptAlone
<1>1. Spec => []ValidatedAgainstRow /\ StatusFollowsTable
  BY ValidationIsCurrent, CommitsFollowTable
<1>2. WatchedSpec => []OnlineMatchesAlone /\ MaintenanceKeptAlone
  BY OnlineMatchesOneByOne, MaintenanceKeptOneByOne
<1> QED
  BY <1>1, <1>2, DevicesApart, DevicesTypeCorrect, UnitsStayAssigned, SnapshotsAreWhole,
     HealthAgreesWithCircuit, PTL
=============================================================================
