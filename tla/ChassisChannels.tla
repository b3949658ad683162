--------------------------- MODULE ChassisChannels ---------------------------
(***************************************************************************)
(* The RF channels of one chassis and the wireless units on them.  Every   *)
(* save of the chassis ends in a hook that creates and deletes channels    *)
(* until they are those of its capacity; every update from the vendor      *)
(* then creates the channel it reports a transmitter on, and its unit.     *)
(* The hook, the validation of a new channel and the lookup of a unit are  *)
(* written apart, and each believes an instance of the chassis.  The       *)
(* capacity of an instance need not be that of the row: it may be older,   *)
(* and before every save the registry of specifications puts in its own    *)
(* for the model the instance names, of which most saves write the model   *)
(* alone.                                                                  *)
(***************************************************************************)
EXTENDS Integers, FiniteSets

CONSTANTS
  Writers,        \* workers and web processes that save the chassis
  Capacities,     \* values of max_channels, and of channels in the registry
  Unregistered,   \* what the registry says of a model it does not have
  Reported,       \* channel numbers the vendor may report
  MaxChannelEdits,  \* bound: changes an operator makes by hand
  MaxChannelDeaths, \* bound: writers that are killed
  Gone              \* in place of a channel whose row has been deleted

ASSUME CapacitiesAssumption == Capacities # {} /\ Capacities \subseteq Nat
ASSUME UnregisteredAssumption == Unregistered \notin Capacities
ASSUME ReportedAssumption == Reported \subseteq Nat
ASSUME WritersAssumption == IsFiniteSet(Writers)
ASSUME EditsAndDeathsAssumption == MaxChannelEdits \in Nat /\ MaxChannelDeaths \in Nat

VARIABLES
  wmas,        \* may the chassis exceed its slots?
  named,       \* the models it was created with and the vendor's payloads name
  model,       \* the committed model
  capacity,    \* the committed max_channels
  channels,    \* the numbers that have an RFChannel row
  unitsOn,     \* how many units are assigned to each channel
  savedBy,     \* the transactions that have locked the row: none or one
  writer,      \* what each writer does and remembers
  edits, deaths

rfvars == <<wmas, named, model, capacity, channels, unitsOn, savedBy, writer, edits, deaths>>

\* Models are told apart by what the registry says of them.
Models == Capacities \cup {Unregistered}

Slots(max) == 1 .. max

Numbers == Reported \cup UNION {Slots(c) : c \in Capacities}

ASSUME GoneAssumption == Gone \notin Numbers

Resting == [task |-> "none", at |-> "idle", as |-> Unregistered, max |-> 0,
            seen |-> {}, todo |-> {}, on |-> Gone]

ChannelsTypeOK ==
  /\ wmas \in BOOLEAN
  /\ named \subseteq Models
  /\ model \in Models
  /\ capacity \in Capacities
  /\ channels \subseteq Numbers
  /\ unitsOn \in [Numbers -> 0 .. Cardinality(Writers)]
  /\ savedBy \subseteq Writers /\ Cardinality(savedBy) <= 1
  /\ writer \in [Writers ->
       [task : {"none", "update", "batch", "form"},
        at : {"idle", "save", "fill", "devices", "unit", "insert"},
        as : Models,
        max : Capacities \cup {0},
        seen : SUBSET Numbers,
        todo : SUBSET Reported,
        on : Numbers \cup {Gone}]]
  /\ edits \in 0 .. MaxChannelEdits
  /\ deaths \in 0 .. MaxChannelDeaths

\* What is left of max_channels in an instance once the registry has been asked.
Specified(k, max) == IF k = Unregistered THEN max ELSE k

\* The save that inserted the chassis has asked the registry and filled the channels.
ChannelsInit ==
  /\ wmas \in BOOLEAN
  /\ named \in SUBSET Models
  /\ model \in named
  /\ capacity \in Capacities /\ capacity = Specified(model, capacity)
  /\ channels = Slots(capacity)
  /\ unitsOn = [n \in Numbers |-> 0]
  /\ savedBy = {}
  /\ writer = [w \in Writers |-> Resting]
  /\ edits = 0 /\ deaths = 0

-----------------------------------------------------------------------------
(* Saving the chassis.                                                       *)

Becomes(w, state) == writer' = [writer EXCEPT ![w] = state]

\* A synchronization has locked the manufacturer, which keeps other synchronizations and
\* nobody else waiting, and read the chassis with all others of it; what it has in memory
\* is as old as the batch.  A payload that names no model keeps the one in memory.
StartsBatch(w) ==
  /\ writer[w].at = "idle" /\ \A v \in Writers : writer[v].task # "batch"
  /\ \E k \in named \cup {model} :
       Becomes(w, [Resting EXCEPT !.task = "batch", !.at = "save", !.as = k, !.max = capacity])
  /\ UNCHANGED <<wmas, named, model, capacity, channels, unitsOn, savedBy, edits, deaths>>

\* An upsert locks the row before it reads it, and names the type the vendor reports as its
\* model.  A message without transmitters has nothing left to do once the row is saved.
SavesUpdate(w) ==
  /\ writer[w].at = "idle" /\ savedBy = {}
  /\ \E k \in named, numbers \in SUBSET Reported :
       Becomes(w, [Resting EXCEPT !.task = "update", !.at = "fill", !.as = k,
                                  !.max = Specified(k, capacity),
                                  !.seen = channels, !.todo = numbers])
  /\ savedBy' = {w}
  /\ UNCHANGED <<wmas, named, model, capacity, channels, unitsOn, edits, deaths>>

\* A transition of the status locks the row too, and writes neither model nor capacity; the
\* registry is asked all the same.
SavesTransition(w) ==
  /\ writer[w].at = "idle" /\ savedBy = {}
  /\ Becomes(w, [Resting EXCEPT !.task = "update", !.at = "fill", !.as = model,
                                !.max = Specified(model, capacity), !.seen = channels])
  /\ savedBy' = {w}
  /\ UNCHANGED <<wmas, named, model, capacity, channels, unitsOn, edits, deaths>>

SavesBatch(w) ==
  /\ writer[w].at = "save" /\ savedBy = {}
  /\ Becomes(w, [writer[w] EXCEPT !.at = "fill", !.max = Specified(writer[w].as, @),
                                  !.seen = channels])
  /\ savedBy' = {w}
  /\ UNCHANGED <<wmas, named, model, capacity, channels, unitsOn, edits, deaths>>

\* The change form writes every column, the capacity among them: the operator's only if
\* the registry does not have the model.
SavesForm(w) ==
  /\ writer[w].at = "idle" /\ savedBy = {} /\ edits < MaxChannelEdits
  /\ \E c \in Capacities, k \in Models :
       Becomes(w, [Resting EXCEPT !.task = "form", !.at = "fill", !.as = k,
                                  !.max = Specified(k, c), !.seen = channels])
  /\ savedBy' = {w}
  /\ edits' = edits + 1
  /\ UNCHANGED <<wmas, named, model, capacity, channels, unitsOn, deaths>>

-----------------------------------------------------------------------------
(* The hook that ends every save, in the transaction of the save.            *)

\* A new channel is validated against the capacity of a chassis instance.
BugAccepts(n, max) == n >= 1

Accepts(n, max) == n >= 1 /\ (wmas \/ n <= max)

\* A range that stops one short.
BugExpected(w) == Slots(writer[w].max - 1)

Expected(w) == Slots(writer[w].max)

Missing(w) == Expected(w) \ writer[w].seen

Surplus(w) == writer[w].seen \ Expected(w)

\* What the row will hold: only the form writes the capacity.  The hook goes by the
\* instance, the validation of the channels it creates by the row.
Persists(w) == IF writer[w].task = "form" THEN writer[w].max ELSE capacity

Creatable(w) == {n \in Missing(w) : Accepts(n, Persists(w))}

\* Deleting a channel takes it from the units that were on it and from the updates that
\* hold its row.
Deletes(numbers, writers) ==
  /\ unitsOn' = [n \in Numbers |-> IF n \in numbers THEN 0 ELSE unitsOn[n]]
  /\ writer' = [v \in Writers |->
       IF writers[v].on \in numbers THEN [writers[v] EXCEPT !.on = Gone] ELSE writers[v]]

\* The save has returned; an update goes on with what the vendor reported.
AfterSave(w) ==
  [writer EXCEPT ![w] =
     IF @.todo = {} THEN Resting
     ELSE [@ EXCEPT !.at = "devices", !.as = Unregistered, !.seen = {}]]

\* The channels are created in ascending order.  The first one the validation refuses
\* ends the hook, whose caller swallows the exception: the save and what was created
\* before stay, nothing is deleted.
Fill(w) ==
  /\ writer[w].at = "fill"
  /\ Creatable(w) \cap channels = {}
  /\ LET dropped == IF Creatable(w) = Missing(w) THEN Surplus(w) ELSE {} IN
     /\ channels' = (channels \cup Creatable(w)) \ dropped
     /\ Deletes(dropped, AfterSave(w))
  /\ capacity' = Persists(w) /\ model' = writer[w].as
  /\ savedBy' = {}
  /\ UNCHANGED <<wmas, named, edits, deaths>>

\* An update has created one of them since they were listed.  The exception is swallowed
\* too, and the transaction, which no query may use any more, is rolled back without a
\* word to the writer, the save with it.
FillCollides(w) ==
  /\ writer[w].at = "fill"
  /\ Creatable(w) \cap channels # {}
  /\ writer' = AfterSave(w)
  /\ savedBy' = {}
  /\ UNCHANGED <<wmas, named, model, capacity, channels, unitsOn, edits, deaths>>

-----------------------------------------------------------------------------
(* What an update does with the transmitters the vendor reported.            *)

\* The channel is looked up, or created if the instance of the upsert has room for it.
ReportedChannel(w) ==
  /\ writer[w].at = "devices"
  /\ \E n \in writer[w].todo :
       /\ n \in channels \/ Accepts(n, writer[w].max)
       /\ channels' = channels \cup {n}
       /\ Becomes(w, [writer[w] EXCEPT !.at = "unit", !.on = n, !.todo = @ \ {n}])
  /\ UNCHANGED <<wmas, named, model, capacity, unitsOn, savedBy, edits, deaths>>

NextDevice(w) ==
  IF writer[w].todo = {} THEN Resting ELSE [writer[w] EXCEPT !.at = "devices", !.on = Gone]

UnitsFound(w) == IF writer[w].on = Gone THEN 0 ELSE unitsOn[writer[w].on]

\* The unit of the channel is updated under its lock; if there is none one is inserted,
\* which nothing but the lookup keeps from being the second.
Unit(w) ==
  /\ writer[w].at = "unit"
  /\ \/ UnitsFound(w) = 1 /\ Becomes(w, NextDevice(w))
     \/ UnitsFound(w) = 0 /\ Becomes(w, [writer[w] EXCEPT !.at = "insert"])
  /\ UNCHANGED <<wmas, named, model, capacity, channels, unitsOn, savedBy, edits, deaths>>

InsertsUnit(w) ==
  /\ writer[w].at = "insert" /\ writer[w].on # Gone
  /\ unitsOn' = [unitsOn EXCEPT ![writer[w].on] = @ + 1]
  /\ Becomes(w, NextDevice(w))
  /\ UNCHANGED <<wmas, named, model, capacity, channels, savedBy, edits, deaths>>

\* The rest of the device is given up: a number the validation refuses, a status the unit
\* cannot take, two units where one is looked for, a channel whose row is gone.
DeviceFails(w) ==
  /\ \/ /\ writer[w].at = "devices"
        /\ \E n \in writer[w].todo : n \notin channels /\ ~Accepts(n, writer[w].max)
     \/ writer[w].at = "unit" /\ UnitsFound(w) # 0
     \/ writer[w].at = "insert" /\ writer[w].on = Gone
  /\ Becomes(w, Resting)
  /\ UNCHANGED <<wmas, named, model, capacity, channels, unitsOn, savedBy, edits, deaths>>

-----------------------------------------------------------------------------
(* Operators and crashes.                                                    *)

OperatorDeletesChannel ==
  /\ edits < MaxChannelEdits
  /\ \E n \in channels :
       /\ channels' = channels \ {n}
       /\ Deletes({n}, writer)
  /\ edits' = edits + 1
  /\ UNCHANGED <<wmas, named, model, capacity, savedBy, deaths>>

\* What a killed writer had not committed is rolled back.
WriterDies(w) ==
  /\ writer[w].at # "idle" /\ deaths < MaxChannelDeaths
  /\ Becomes(w, Resting)
  /\ savedBy' = savedBy \ {w}
  /\ deaths' = deaths + 1
  /\ UNCHANGED <<wmas, named, model, capacity, channels, unitsOn, edits>>

WriterGoesOn(w) ==
  \/ Fill(w) \/ FillCollides(w)
  \/ ReportedChannel(w) \/ Unit(w) \/ InsertsUnit(w) \/ DeviceFails(w)

ChannelsNext ==
  \/ \E w \in Writers :
       \/ StartsBatch(w) \/ SavesUpdate(w) \/ SavesTransition(w) \/ SavesBatch(w)
       \/ SavesForm(w) \/ WriterGoesOn(w) \/ WriterDies(w)
  \/ OperatorDeletesChannel

ChannelsSpec == ChannelsInit /\ [][ChannelsNext]_rfvars

-----------------------------------------------------------------------------
\* The capacities a save may go by.
Believed == {Specified(k, capacity) : k \in named \cup {model}}

\* All sources of the model say the same about channel n.
Undisputed(n) == \A a, b \in Believed : n <= a <=> n <= b

(* As long as no operator interferes, a unit keeps a channel about which the *)
(* sources of the model agree, though the registry contradict the row: the   *)
(* validation lets no update create one that the hook of a later save        *)
(* deletes, whatever is interleaved and whoever dies.                        *)
UnitsKeepChannels ==
  [][~wmas /\ edits' = 0 =>
       \A n \in Numbers : Undisputed(n) => unitsOn'[n] >= unitsOn[n]]_rfvars

(* In the end the channels every source and the row have room for are there  *)
(* and stay, although a save that collides is lost, a batch deletes by a     *)
(* capacity of the past, and a hook ends at the first channel the row has no *)
(* room for.  Where no source exceeds the row, no hook ends early, and no    *)
(* channel is left that no source has room for.                              *)
ChannelsFillUp ==
  <>[](~wmas =>
         /\ \A n \in Slots(capacity) : (\A a \in Believed : n <= a) => n \in channels
         /\ (\A a \in Believed : a <= capacity)
              => \A n \in channels : \E a \in Believed : n <= a)

(* A WMAS chassis may exceed its slots: what is not within them is deleted   *)
(* by operators alone.                                                       *)
OvercommitStays == [][wmas /\ edits' = edits => channels \subseteq channels']_rfvars
=============================================================================
