---------------------------- MODULE ChargerCycle ----------------------------
(***************************************************************************)
(* The polls of a manufacturer's charging stations.  A poll reads one page *)
(* of the vendor's inventory and leaves what it found, with the place to   *)
(* go on from, in the cache; the poll that reaches the end publishes the   *)
(* stations of the whole cycle, unless one of them did not answer.  Polls  *)
(* overlap, the inventory changes between them, and the cache raises or    *)
(* forgets.  A station is its identifier: names and slots are left out.    *)
(***************************************************************************)
EXTENDS Sequences, Integers

CONSTANTS
  Polls,          \* tasks that may poll at once
  Devices,        \* the identifiers of a vendor's devices
  Stations,       \* those that are charging stations
  Inventories,    \* what the vendor may answer: sequences of identifiers
  PageSize,       \* MICBOARD_CHARGER_MAX_DEVICES
  MaxStations,    \* MICBOARD_CHARGER_MAX_STATIONS
  HardInventory   \* HARD_MAX_CHARGER_INVENTORY_SIZE

ASSUME InventoriesAssumption == Inventories \subseteq Seq(Devices) /\ Stations \subseteq Devices
ASSUME PagesAssumption ==
  {PageSize, MaxStations, HardInventory} \subseteq Nat \ {0}

VARIABLES
  inventory,     \* what the vendor would answer now
  continuation,  \* the cursor in the cache
  snapshot,      \* the list of stations in the cache, in a set: there may be none
  poll           \* where each poll is, what it holds and where its page ends

chvars == <<inventory, continuation, snapshot, poll>>

Least(a, b) == IF a < b THEN a ELSE b

Nowhere == [next |-> 0, of |-> <<>>, found |-> <<>>, failed |-> FALSE]

Idle == [at |-> "idle", cursor |-> Nowhere, until |-> 0]

Found == UNION {[1 .. n -> Stations] : n \in 0 .. MaxStations}

Cursors == [next : 0 .. HardInventory, of : Inventories \cup {<<>>},
            found : Found, failed : BOOLEAN]

ChargerTypeOK ==
  /\ inventory \in Inventories
  /\ continuation \in Cursors
  /\ snapshot \in {{}} \cup {{found} : found \in Found}
  /\ poll \in [Polls -> [at : {"idle", "read", "ask", "leave"},
                         cursor : Cursors, until : 0 .. HardInventory]]

ChargerInit ==
  /\ inventory \in Inventories
  /\ continuation = Nowhere
  /\ snapshot = {}
  /\ poll = [p \in Polls |-> Idle]

ChangeInventory ==
  /\ inventory' \in Inventories \ {inventory}
  /\ UNCHANGED <<continuation, snapshot, poll>>

\* A week later, or the cache evicts it.
ContinuationExpires ==
  /\ continuation # Nowhere
  /\ continuation' = Nowhere
  /\ UNCHANGED <<inventory, snapshot, poll>>

\* A minute later.
SnapshotExpires ==
  /\ snapshot # {}
  /\ snapshot' = {}
  /\ UNCHANGED <<inventory, continuation, poll>>

-----------------------------------------------------------------------------
(* A poll.                                                                   *)

ReadContinuation(p) ==
  /\ poll[p].at = "idle"
  /\ poll' = [poll EXCEPT ![p].at = "read", ![p].cursor = continuation]
  /\ UNCHANGED <<inventory, continuation, snapshot>>

\* A cursor that is followed into any inventory of the same size.
BugOffset(cursor) == IF Len(cursor.of) = Len(inventory) THEN cursor.next ELSE 0

\* The page starts where the cursor says if it is a cursor of this inventory.
Offset(cursor) == IF cursor.of = inventory THEN cursor.next ELSE 0

Leaving == [Idle EXCEPT !.at = "leave"]

\* Fetch the inventory.  One that is too large gives an empty page and no cursor.
Gather(p) ==
  /\ poll[p].at = "read"
  /\ LET from == Offset(poll[p].cursor)
         start == IF from = 0 THEN Nowhere ELSE poll[p].cursor
     IN poll' = [poll EXCEPT ![p] =
          IF Len(inventory) > HardInventory THEN Leaving
            ELSE [at |-> "ask", cursor |-> [start EXCEPT !.of = inventory],
                  until |-> Least(from + PageSize, Len(inventory))]]
  /\ UNCHANGED <<inventory, continuation, snapshot>>

\* A device that has been passed: a new station within the limit is found if it answers.
Passed(cursor, answers) ==
  LET d == cursor.of[cursor.next + 1]
      asked == /\ d \in Stations /\ Len(cursor.found) < MaxStations
               /\ \A i \in DOMAIN cursor.found : cursor.found[i] # d
  IN [cursor EXCEPT !.next = @ + 1,
                    !.found = IF asked /\ answers THEN Append(@, d) ELSE @,
                    !.failed = @ \/ (asked /\ ~answers)]

\* Ask the stations of the page one after another.
Ask(p, answers) ==
  /\ poll[p].at = "ask" /\ poll[p].cursor.next < poll[p].until
  /\ poll' = [poll EXCEPT ![p].cursor = Passed(@, answers)]
  /\ UNCHANGED <<inventory, continuation, snapshot>>

PageEnds(p) == poll[p].at = "ask" /\ poll[p].cursor.next = poll[p].until

CycleEnds(p) == PageEnds(p) /\ poll[p].until = Len(poll[p].cursor.of)

\* A cycle in which a station was silent ends without being published.
Publishes(p) == CycleEnds(p) /\ ~poll[p].cursor.failed

Leaves(p) == poll[p].at = "leave" \/ (PageEnds(p) /\ ~Publishes(p))

Publish(p) ==
  /\ Publishes(p)
  /\ snapshot' = {poll[p].cursor.found}
  /\ poll' = [poll EXCEPT ![p] = Leaving]
  /\ UNCHANGED <<inventory, continuation>>

\* A finished cycle that leaves its cursor behind.
BugLeave(p) ==
  /\ Leaves(p)
  /\ continuation' = IF PageEnds(p) /\ ~CycleEnds(p) THEN poll[p].cursor ELSE continuation
  /\ poll' = [poll EXCEPT ![p] = Idle]
  /\ UNCHANGED <<inventory, snapshot>>

\* Store the cursor of an unfinished cycle; delete it, which is Nowhere, after a
\* finished one.
Leave(p) ==
  /\ Leaves(p)
  /\ continuation' = IF PageEnds(p) /\ ~CycleEnds(p) THEN poll[p].cursor ELSE Nowhere
  /\ poll' = [poll EXCEPT ![p] = Idle]
  /\ UNCHANGED <<inventory, snapshot>>

\* The cache raises where a poll reads, publishes or leaves: it goes on without.
CacheRaisesIn(p) ==
  /\ \/ poll[p].at = "idle" /\ poll' = [poll EXCEPT ![p].at = "read"]
     \/ Publishes(p) /\ poll' = [poll EXCEPT ![p] = Leaving]
     \/ Leaves(p) /\ poll' = [poll EXCEPT ![p] = Idle]
  /\ UNCHANGED <<inventory, continuation, snapshot>>

\* The inventory cannot be read, or the process dies.
PollFails(p) ==
  /\ poll[p].at # "idle"
  /\ poll' = [poll EXCEPT ![p] = Idle]
  /\ UNCHANGED <<inventory, continuation, snapshot>>

-----------------------------------------------------------------------------

PollSteps(p) ==
  \/ ReadContinuation(p) \/ Gather(p) \/ Publish(p) \/ Leave(p)
  \/ \E answers \in BOOLEAN : Ask(p, answers)

ChargerNext ==
  \/ ChangeInventory \/ ContinuationExpires \/ SnapshotExpires
  \/ \E p \in Polls : PollSteps(p) \/ CacheRaisesIn(p) \/ PollFails(p)

ChargerSpec == ChargerInit /\ [][ChargerNext]_chvars
-----------------------------------------------------------------------------
(* Properties. *)

\* The stations among the first n devices of an inventory, each where it comes first, or
\* as many of them as there may be.
FirstStations(found, inv, n) ==
  \E places \in [DOMAIN found -> 1 .. n] :
    /\ \A i \in DOMAIN found : inv[places[i]] = found[i] /\ found[i] \in Stations
    /\ \A i, j \in DOMAIN found : i < j => places[i] < places[j] /\ found[i] # found[j]
    /\ \A k \in 1 .. n : inv[k] \in Stations =>
         \/ \E i \in DOMAIN found : found[i] = inv[k] /\ places[i] <= k
         \/ Len(found) = MaxStations /\ \A i \in DOMAIN found : places[i] < k

(* What is published are the first stations of one inventory, in its order   *)
(* and none missing, whatever pages, polls and inventories the cycle went    *)
(* through.                                                                  *)
PublishedWhole ==
  \A found \in snapshot :
    \E inv \in Inventories : FirstStations(found, inv, Len(inv))

\* Every station answers, the cache works and the inventory stays.
Undisturbed ==
  \/ SnapshotExpires
  \/ \E p \in Polls :
       ReadContinuation(p) \/ Gather(p) \/ Ask(p, TRUE) \/ Publish(p) \/ Leave(p)

(* Once nothing disturbs the polls any more, the snapshot comes back each    *)
(* time it expires, with the stations the vendor has, however the polls that *)
(* continue each other overlap.                                              *)
SnapshotReturns ==
  \/ []<><<~Undisturbed>>_chvars
  \/ []<>(\/ Len(inventory) > HardInventory
          \/ \E found \in snapshot : FirstStations(found, inventory, Len(inventory)))
=============================================================================
