-------------------------- MODULE ChassisLifecycle --------------------------
(***************************************************************************)
(* One wireless chassis row and every writer of its lifecycle status:      *)
(* the realtime/poll upsert, the offline reconciliation of a full          *)
(* snapshot, the manufacturer synchronization batch, the importer, the     *)
(* single-chassis refresh, the admin change form and the admin             *)
(* online/offline buttons.                                                 *)
(*                                                                         *)
(* The writers run in different processes against PostgreSQL (READ         *)
(* COMMITTED).  The model keeps what decides their interleavings: the row  *)
(* lock (SELECT ... FOR UPDATE and UPDATE), the advisory lock on the       *)
(* address every save takes before it reads the previous row, the sentinel *)
(* row lock of the identity mutations, the uncommitted version of the row, *)
(* and the instance each writer holds in memory, which may be stale.       *)
(***************************************************************************)
EXTENDS Sequences

CONSTANTS
  Actors,     \* workers and web processes that write the row
  Addresses,  \* values of WirelessChassis.ip
  Tasks,      \* the writers that run, a subset of AllTasks
  Moves,      \* may a payload or a form carry another address than the row?
  NoOne       \* the holder of a free lock

AllTasks == {"realtime", "absent", "sync", "import", "refresh", "form", "button"}

Statuses == {"discovered", "provisioning", "online", "degraded", "offline",
             "maintenance", "retired"}

Operational == {"online", "degraded"}

ASSUME TasksAssumption == Tasks \subseteq AllTasks
ASSUME MovesAssumption == Moves \in BOOLEAN
ASSUME NoOneAssumption == NoOne \notin Actors

(***************************************************************************)
(* The transition table; the manager and the save hook hold equal copies.  *)
(***************************************************************************)
VALID_TRANSITIONS ==
  [discovered   |-> {"provisioning", "offline", "retired"},
   provisioning |-> {"online", "offline", "discovered"},
   online       |-> {"degraded", "offline", "maintenance"},
   degraded     |-> {"online", "offline", "maintenance"},
   offline      |-> {"online", "degraded", "maintenance", "retired"},
   maintenance  |-> {"online", "offline", "retired"},
   retired      |-> {}]

IsValidTransition(from, to) == from = to \/ to \in VALID_TRANSITIONS[from]

VARIABLES
  row,           \* the committed chassis row
  draft,         \* its uncommitted version while rowLock is held, else equal to row
  rowLock,       \* the transaction that locked or updated the row
  addressLock,   \* holders of pg_advisory_xact_lock per address
  identityLock,  \* holder of the sentinel manufacturer row
  task,          \* what each actor is doing, "none" when idle
  pc,            \* where it is
  inst,          \* the model instance it holds in memory
  fields,        \* the columns its pending save writes
  old,           \* the status the pre_save hook read
  todo           \* the statuses still to go through, transition_device by turn

locks == <<rowLock, addressLock, identityLock>>
memory == <<inst, fields, old>>
vars == <<row, draft, locks, task, pc, memory, todo>>

Row == [status : Statuses, online : BOOLEAN, ip : Addresses]

TypeOK ==
  /\ row \in Row
  /\ draft \in Row
  /\ rowLock \in Actors \cup {NoOne}
  /\ addressLock \in [Addresses -> Actors \cup {NoOne}]
  /\ identityLock \in Actors \cup {NoOne}
  /\ task \in [Actors -> Tasks \cup {"none"}]
  /\ pc \in [Actors -> {"idle", "transition", "save", "update", "saved"}]
  /\ inst \in [Actors -> Row]
  /\ fields \in [Actors -> {"meta", "address", "status", "all"}]
  /\ old \in [Actors -> Statuses]
  /\ todo \in [Actors -> Seq(Statuses)]

\* What an idle actor remembers: nothing, so one fixed value.
Discarded ==
  [status |-> "discovered", online |-> FALSE, ip |-> CHOOSE i \in Addresses : TRUE]

(* A chassis enters the table through create(), whose hook sets is_online  *)
(* exactly for the operational statuses; online is a status it may have.   *)
Init ==
  /\ row \in {r \in Row : r.online <=> r.status \in Operational}
  /\ draft = row
  /\ rowLock = NoOne
  /\ addressLock = [i \in Addresses |-> NoOne]
  /\ identityLock = NoOne
  /\ task = [a \in Actors |-> "none"]
  /\ pc = [a \in Actors |-> "idle"]
  /\ inst = [a \in Actors |-> Discarded]
  /\ fields = [a \in Actors |-> "meta"]
  /\ old = [a \in Actors |-> Discarded.status]
  /\ todo = [a \in Actors |-> << >>]

-----------------------------------------------------------------------------
(* Transactions. *)

Free(lock, a) == lock \in {NoOne, a}

\* What a query of transaction a reads: its own write, or the committed row.
View(a) == IF rowLock = a THEN draft ELSE row

Release(a) ==
  /\ rowLock' = IF rowLock = a THEN NoOne ELSE rowLock
  /\ addressLock' = [i \in Addresses |->
                       IF addressLock[i] = a THEN NoOne ELSE addressLock[i]]
  /\ identityLock' = IF identityLock = a THEN NoOne ELSE identityLock

Commit(a) ==
  /\ row' = View(a)
  /\ draft' = IF rowLock \in {NoOne, a} THEN View(a) ELSE draft
  /\ Release(a)

Ended(a) ==
  /\ task' = [task EXCEPT ![a] = "none"]
  /\ pc' = [pc EXCEPT ![a] = "idle"]
  /\ inst' = [inst EXCEPT ![a] = Discarded]
  /\ fields' = [fields EXCEPT ![a] = "meta"]
  /\ old' = [old EXCEPT ![a] = Discarded.status]
  /\ todo' = [todo EXCEPT ![a] = << >>]

Rollback(a) ==
  /\ row' = row
  /\ draft' = IF rowLock = a THEN row ELSE draft
  /\ Release(a)
  /\ Ended(a)

-----------------------------------------------------------------------------
(* How each writer begins. *)

\* Addresses a payload or a form may carry for this row.
CarriedAddresses == {ip \in Addresses : ip = row.ip \/ Moves}

\* a starts task t holding instance i in memory, with the columns fs to save.
Loads(a, t, i, fs) ==
  /\ task[a] = "none"
  /\ t \in Tasks
  /\ task' = [task EXCEPT ![a] = t]
  /\ pc' = [pc EXCEPT ![a] = "save"]
  /\ inst' = [inst EXCEPT ![a] = i]
  /\ fields' = [fields EXCEPT ![a] = fs]
  /\ UNCHANGED <<row, addressLock, old>>

(* Mutated forms, named Bug..., are what a plausible mistake in the code would  *)
(* make of the definition that follows them.  No action uses them; they show   *)
(* that the properties can fail.                                                *)

\* update_or_create: SELECT ... FOR UPDATE, then the payload on the instance.
Upsert(a) ==
  \E ip \in CarriedAddresses :
    /\ rowLock = NoOne
    /\ rowLock' = a
    /\ draft' = row
    /\ Loads(a, "realtime", [row EXCEPT !.ip = ip], "address")
    /\ UNCHANGED <<identityLock, todo>>

\* The refresh locks the row for its whole transaction.
RefreshLoad(a) ==
  /\ rowLock = NoOne
  /\ rowLock' = a
  /\ draft' = row
  /\ Loads(a, "refresh", row, "meta")
  /\ UNCHANGED <<identityLock, todo>>

\* The batch reads its identity index once, under the identity lock only: the
\* instance it saves later is a plain, unlocked read.
SyncLoad(a) ==
  \E ip \in CarriedAddresses :
    /\ identityLock = NoOne
    /\ identityLock' = a
    /\ Loads(a, "sync", [row EXCEPT !.ip = ip],
             IF ip = row.ip THEN "meta" ELSE "address")
    /\ UNCHANGED <<rowLock, draft, todo>>

ImportLoad(a) ==
  \E ip \in CarriedAddresses :
    /\ identityLock = NoOne
    /\ identityLock' = a
    /\ Loads(a, "import", [row EXCEPT !.ip = ip], "address")
    /\ UNCHANGED <<rowLock, draft, todo>>

\* The change form: the object as it is now, the submitted status and address.
FormLoad(a) ==
  \E ip \in CarriedAddresses, s \in Statuses :
    /\ Loads(a, "form", [row EXCEPT !.status = s, !.ip = ip], "all")
    /\ UNCHANGED <<rowLock, draft, identityLock, todo>>

\* sync_hardware_status on an object of the selected queryset.
ButtonLoad(a) ==
  \E s \in {"online", "offline"} :
    /\ Loads(a, "button", [row EXCEPT !.status = s], "status")
    /\ todo' = [todo EXCEPT ![a] = <<s>>]
    /\ UNCHANGED <<rowLock, draft, identityLock>>

\* mark_offline_receivers lists the chassis absent from the snapshot.
AbsentList(a) ==
  /\ task[a] = "none"
  /\ "absent" \in Tasks
  /\ row.status \in {"online", "degraded", "provisioning"}
  /\ task' = [task EXCEPT ![a] = "absent"]
  /\ pc' = [pc EXCEPT ![a] = "transition"]
  /\ todo' = [todo EXCEPT ![a] = <<"offline">>]
  /\ UNCHANGED <<row, draft, locks, memory>>

-----------------------------------------------------------------------------
(* HardwareLifecycleManager.transition_device to Head(todo[a]). *)

\* Lock the row, read the status again, accept: a save of the status follows.
TransitionAccepted(a) ==
  /\ pc[a] = "transition"
  /\ Free(rowLock, a)
  /\ IsValidTransition(View(a).status, Head(todo[a]))
  /\ rowLock' = a
  /\ draft' = View(a)
  /\ inst' = [inst EXCEPT ![a] = [View(a) EXCEPT !.status = Head(todo[a])]]
  /\ fields' = [fields EXCEPT ![a] = "status"]
  /\ pc' = [pc EXCEPT ![a] = "save"]
  /\ UNCHANGED <<row, addressLock, identityLock, task, old, todo>>

\* A caller that tries again until the transition is accepted.
BugTransitionRefusedRetries(a) ==
  /\ pc[a] = "transition"
  /\ Free(rowLock, a)
  /\ ~IsValidTransition(View(a).status, Head(todo[a]))
  /\ UNCHANGED vars

\* False is an error for the batch and the importer, which roll back, and for
\* the upsert; the offline pass and the refresh ignore it.
TransitionRefused(a) ==
  /\ pc[a] = "transition"
  /\ Free(rowLock, a)
  /\ ~IsValidTransition(View(a).status, Head(todo[a]))
  /\ \/ /\ task[a] # "refresh"
        /\ Rollback(a)
     \/ /\ task[a] = "refresh"
        /\ IF Tail(todo[a]) = << >>
             THEN Commit(a) /\ Ended(a)
             ELSE /\ todo' = [todo EXCEPT ![a] = Tail(@)]
                  /\ UNCHANGED <<row, draft, locks, task, pc, memory>>

-----------------------------------------------------------------------------
(* Model.save: pre_save hook, UPDATE, post_save hook. *)

\* The validation without the address lock in front of it.
BugValidatedUnlocked(a) ==
  /\ old' = [old EXCEPT ![a] = View(a).status]
  /\ inst' = IF View(a).status = inst[a].status THEN inst
             ELSE [inst EXCEPT ![a].online = inst[a].status \in Operational]
  /\ pc' = [pc EXCEPT ![a] = "update"]
  /\ UNCHANGED <<row, draft, locks, task, fields, todo>>

\* The hook locks the address, then reads the previous row and validates the
\* status of the instance against it, whether or not the save writes status.
Validated(a) ==
  /\ addressLock' = [addressLock EXCEPT ![inst[a].ip] = a]
  /\ old' = [old EXCEPT ![a] = View(a).status]
  /\ inst' = IF View(a).status = inst[a].status THEN inst
             ELSE [inst EXCEPT ![a].online = inst[a].status \in Operational]
  /\ pc' = [pc EXCEPT ![a] = "update"]
  /\ UNCHANGED <<row, draft, rowLock, identityLock, task, fields, todo>>

PreSave(a) ==
  /\ pc[a] = "save"
  /\ Free(addressLock[inst[a].ip], a)
  /\ IsValidTransition(View(a).status, inst[a].status)
  /\ Validated(a)

\* ValueError: the transaction of the caller rolls back.
PreSaveRejected(a) ==
  /\ pc[a] = "save"
  /\ Free(addressLock[inst[a].ip], a)
  /\ ~IsValidTransition(View(a).status, inst[a].status)
  /\ Rollback(a)

\* update_fields without the derived column.
BugWrittenUnderived(a) ==
  LET v == View(a)
  IN IF fields[a] = "all" THEN inst[a]
     ELSE [status |-> IF fields[a] = "status" THEN inst[a].status ELSE v.status,
           online |-> v.online,
           ip     |-> IF fields[a] = "address" THEN inst[a].ip ELSE v.ip]

\* The row after the save: its columns and the derived column is_online, which
\* _persist_derived_fields adds when the hook saw the status change.
Written(a) ==
  LET v == View(a)
  IN IF fields[a] = "all" THEN inst[a]
     ELSE [status |-> IF fields[a] = "status" THEN inst[a].status ELSE v.status,
           online |-> IF old[a] = inst[a].status THEN v.online ELSE inst[a].online,
           ip     |-> IF fields[a] = "address" THEN inst[a].ip ELSE v.ip]

\* The address unlocked after the statement instead of at commit.
BugUpdateUnlocksAddress(a) ==
  /\ pc[a] = "update"
  /\ Free(rowLock, a)
  /\ rowLock' = a
  /\ draft' = Written(a)
  /\ pc' = [pc EXCEPT ![a] = "saved"]
  /\ addressLock' = [addressLock EXCEPT ![inst[a].ip] = NoOne]
  /\ UNCHANGED <<row, identityLock, task, memory, todo>>

Update(a) ==
  /\ pc[a] = "update"
  /\ Free(rowLock, a)
  /\ rowLock' = a
  /\ draft' = Written(a)
  /\ pc' = [pc EXCEPT ![a] = "saved"]
  /\ UNCHANGED <<row, addressLock, identityLock, task, memory, todo>>

-----------------------------------------------------------------------------
(* What follows a save. *)

\* The vendor's spelling of the state, not mapped to a lifecycle status.
BugHopsUnmapped(from, to) == <<"ONLINE">>

Hops(from, to) ==
  IF from = "discovered" /\ to = "online" THEN <<"provisioning", "online">> ELSE <<to>>

\* Every responding chassis restored, maintenance included.
BugSettledIgnoresMaintenance(a) ==
  \/ task[a] = "form"
  \/ inst[a].status \in {"online", "retired"}

\* A writer leaves the status of the instance in memory as it is.
Settled(a) ==
  LET s == inst[a].status
  IN \/ task[a] = "form"
     \/ task[a] = "realtime" /\ s \in {"online", "degraded", "maintenance"}
     \/ task[a] = "sync" /\ s = "online"
     \/ task[a] = "sync" /\ fields[a] = "meta" /\ s \in {"degraded", "maintenance"}
     \/ task[a] = "refresh" /\ s = "retired"

\* The transitions each writer makes after its metadata save.
Plans(a) ==
  IF task[a] = "import"
    THEN {IF t = inst[a].status THEN << >> ELSE Hops(inst[a].status, t) :
            t \in {"online", "provisioning", "offline", "discovered"}}
    ELSE {IF Settled(a) THEN << >> ELSE Hops(inst[a].status, "online")}

\* The upsert and each of its transitions commit on their own; the other
\* writers commit once, when nothing is left to do.
Saved(a) ==
  /\ pc[a] = "saved"
  /\ \E rest \in IF fields[a] = "status" THEN {Tail(todo[a])} ELSE Plans(a) :
       IF rest = << >>
         THEN Commit(a) /\ Ended(a)
         ELSE /\ IF task[a] = "realtime"
                   THEN Commit(a) ELSE UNCHANGED <<row, draft, locks>>
              /\ todo' = [todo EXCEPT ![a] = rest]
              /\ pc' = [pc EXCEPT ![a] = "transition"]
              /\ UNCHANGED <<task, memory>>

-----------------------------------------------------------------------------
(* Failures. *)

\* The lock a waits for: NoOne or a when it does not wait.
WaitsFor(a) ==
  CASE pc[a] = "save" -> addressLock[inst[a].ip]
    [] pc[a] \in {"transition", "update"} -> rowLock
    [] OTHER -> NoOne

\* PostgreSQL aborts one transaction of a wait cycle.  A cycle has the row's
\* holder and one address's holder: nobody waits for a second address.
DeadlockVictim(a) ==
  /\ \E b \in Actors \ {a} : WaitsFor(a) = b /\ WaitsFor(b) = a
  /\ Rollback(a)

\* A worker is killed, or its connection drops: the database rolls back.
WorkerDies(a) ==
  /\ task[a] # "none"
  /\ Rollback(a)

-----------------------------------------------------------------------------
Begin(a) ==
  \/ Upsert(a) \/ RefreshLoad(a) \/ SyncLoad(a) \/ ImportLoad(a)
  \/ FormLoad(a) \/ ButtonLoad(a) \/ AbsentList(a)

Step(a) ==
  \/ TransitionAccepted(a) \/ TransitionRefused(a)
  \/ PreSave(a) \/ PreSaveRejected(a) \/ Update(a) \/ Saved(a)

Next == \E a \in Actors : Begin(a) \/ Step(a) \/ DeadlockVictim(a) \/ WorkerDies(a)

Spec == Init /\ [][Next]_vars

(* Lock queues of the database are first come, first served, so a waiter   *)
(* whose lock becomes free again and again obtains it; deadlock detection  *)
(* runs after deadlock_timeout.  Nothing is assumed of crashes or of new   *)
(* work.                                                                   *)
Fairness ==
  /\ \A a \in Actors : SF_vars(Step(a))
  /\ WF_vars(\E a \in Actors : DeadlockVictim(a))

FairSpec == Spec /\ Fairness

-----------------------------------------------------------------------------
(* Properties. *)

\* Retired is terminal for every writer, however old the instance it holds:
\* once a retirement has committed, no later commit changes the status.
RetiredIsTerminal == [][row.status = "retired" => row'.status = "retired"]_row

\* What one committed transaction may do to the status: one entry of the
\* table, or the two hops that take a discovered chassis online.
CommittedStep(from, to) ==
  \/ IsValidTransition(from, to)
  \/ from = "discovered" /\ to = "online"
StatusFollowsTable == [][CommittedStep(row.status, row'.status)]_row

\* The derived column agrees with the status it is derived from in every
\* committed row, although they are written by different statements.
OnlineMatchesStatus == row.online <=> row.status \in Operational

\* A status save that waits for the row, or has written it, was validated
\* against the status that is still committed or that its own transaction wrote.
ValidatedAgainstRow ==
  \A a \in Actors :
    pc[a] = "update" /\ fields[a] \in {"status", "all"} => old[a] = View(a).status

\* The automatic writers leave a chassis under maintenance to its operator.
KeepsMaintenance ==
  row.status = "maintenance" /\ row'.status # "maintenance" =>
    \E a \in Actors :
      /\ task[a] \in {"form", "button", "refresh", "import"}
      /\ task'[a] = "none"

\* Every writer ends: the lock order of two writers of one row may form a
\* cycle, but no wait lasts.
EveryWriterEnds == \A a \in Actors : task[a] # "none" ~> task[a] = "none"
=============================================================================
