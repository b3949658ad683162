----------------------- MODULE SubscriptionSupervisor -----------------------
(***************************************************************************)
(* The realtime supervisors of one manufacturer and one transport.  A run  *)
(* takes a token in a shared cache, selects a window of devices behind a   *)
(* cursor in the same cache, subscribes to them with a few workers, each   *)
(* for at most one turn, and reloads the next window; a heartbeat beside   *)
(* the subscriptions renews the token and ends the run when it is lost.    *)
(* The token is never deleted: it expires a minute after its last renewal. *)
(***************************************************************************)
EXTENDS FiniteSets, Integers

CONSTANTS
  Runs,        \* runs of the task or the command; each has its own token
  Devices,     \* primary keys of the manufacturer's chassis
  Only,        \* the device a diagnostic run was started for, 0 for all
  MaxDevices,  \* the window
  Concurrency, \* the workers of a round
  MaxTrouble,  \* bounds the cache's errors
  Faults,      \* what may go wrong, a subset of {"crash", "late"}
  NoRun        \* the key is not in the cache

ASSUME DevicesAssumption == Devices \subseteq Nat \ {0} /\ IsFiniteSet(Devices)
ASSUME OnlyAssumption == Only \in [Runs -> Devices \cup {0}]
ASSUME LimitsAssumption ==
  /\ MaxDevices \in Nat \ {0}
  /\ Concurrency \in 1 .. MaxDevices
  /\ MaxTrouble \in Nat
ASSUME FaultsAssumption == Faults \subseteq {"crash", "late"}
ASSUME NoRunAssumption == NoRun \notin Runs

VARIABLES
  lease,     \* the run whose token is in the cache
  cursor,    \* the last device of the latest window
  eligible,  \* chassis that are online, degraded or provisioning
  active,    \* Manufacturer.is_active
  stage,     \* where each run is
  beat,      \* where its heartbeat is
  turn,      \* what its workers do with each device of the window
  upto,      \* the last device of a window whose cursor is not yet written
  lapsed,    \* history: runs that outlived their token
  trouble    \* errors of the cache so far

svars == <<lease, cursor, eligible, active, stage, beat, turn, upto, lapsed, trouble>>

TypeOK ==
  /\ lease \in Runs \cup {NoRun}
  /\ cursor \in Devices \cup {0}
  /\ eligible \subseteq Devices
  /\ active \in BOOLEAN
  /\ stage \in [Runs -> {"new", "refused", "select", "advance", "round", "reload", "over"}]
  /\ beat \in [Runs -> {"off", "asleep", "touch", "verify"}]
  /\ turn \in [Runs -> [Devices -> {"none", "waiting", "opening", "open"}]]
  /\ upto \in [Runs -> Devices \cup {0}]
  /\ lapsed \subseteq Runs
  /\ trouble \in 0 .. MaxTrouble

NoTurns == [d \in Devices |-> "none"]

Init ==
  /\ lease = NoRun
  /\ cursor = 0
  /\ eligible \in SUBSET Devices
  /\ active = TRUE
  /\ stage = [r \in Runs |-> "new"]
  /\ beat = [r \in Runs |-> "off"]
  /\ turn = [r \in Runs |-> NoTurns]
  /\ upto = [r \in Runs |-> 0]
  /\ lapsed = {}
  /\ trouble = 0

\* The stages in which a run owns, or believes to own, the subscriptions.
Running(r) == stage[r] \in {"select", "advance", "round", "reload"}

\* The cache raises instead of answering.
CacheRaises ==
  /\ trouble < MaxTrouble
  /\ trouble' = trouble + 1

-----------------------------------------------------------------------------
(* What changes around the supervisors. *)

ChangeEligible ==
  /\ \E d \in Devices :
       eligible' = IF d \in eligible THEN eligible \ {d} ELSE eligible \cup {d}
  /\ UNCHANGED <<lease, cursor, active, stage, beat, turn, upto, lapsed, trouble>>

ToggleActive ==
  /\ active' = ~active
  /\ UNCHANGED <<lease, cursor, eligible, stage, beat, turn, upto, lapsed, trouble>>

\* The minute is over: nobody renews the token of a run that has ended.
Expire ==
  /\ lease # NoRun
  /\ ~Running(lease)
  /\ lease' = NoRun
  /\ UNCHANGED <<cursor, eligible, active, stage, beat, turn, upto, lapsed, trouble>>

\* The renewal waits too long, behind other work of its thread or a pause of the
\* process, or the cache evicts the key.
ExpireEarly ==
  /\ "late" \in Faults
  /\ lease # NoRun
  /\ Running(lease)
  /\ lapsed' = lapsed \cup {lease}
  /\ lease' = NoRun
  /\ UNCHANGED <<cursor, eligible, active, stage, beat, turn, upto, trouble>>

-----------------------------------------------------------------------------
(* acquire: cache.add sets the key unless it is there. *)

\* An acquire that sets the key whoever holds it.
BugAcquireSets(r) ==
  /\ stage[r] = "new"
  /\ active
  /\ lease' = r
  /\ stage' = [stage EXCEPT ![r] = "select"]
  /\ UNCHANGED <<cursor, eligible, active, beat, turn, upto, lapsed, trouble>>

Acquire(r) ==
  /\ stage[r] = "new"
  /\ active
  /\ lease = NoRun
  /\ lease' = r
  /\ stage' = [stage EXCEPT ![r] = "select"]
  /\ UNCHANGED <<cursor, eligible, active, beat, turn, upto, lapsed, trouble>>

Refused(r) ==
  /\ stage[r] = "new"
  /\ \/ (~active \/ lease # NoRun) /\ UNCHANGED trouble
     \/ active /\ CacheRaises
  /\ stage' = [stage EXCEPT ![r] = "refused"]
  /\ UNCHANGED <<lease, cursor, eligible, active, beat, turn, upto, lapsed>>

\* However a run ends, its subscriptions and its heartbeat are cancelled and the
\* token stays in the cache.
Stops(r) ==
  /\ stage' = [stage EXCEPT ![r] = "over"]
  /\ beat' = [beat EXCEPT ![r] = "off"]
  /\ turn' = [turn EXCEPT ![r] = NoTurns]
  /\ upto' = [upto EXCEPT ![r] = 0]

-----------------------------------------------------------------------------
(* The window. *)

\* The k first members of a set of primary keys.
FirstOf(S, k) == {d \in S : Cardinality({e \in S : e < d}) < k}

Ahead(from) == FirstOf({d \in eligible : d > from}, MaxDevices)

\* A window that is not filled continues from the smallest key.
Around(from) ==
  FirstOf({d \in eligible : d <= from}, MaxDevices - Cardinality(Ahead(from)))

\* A reload that does not ask whether the manufacturer is active.
BugWindowInactive(r, from) ==
  IF Only[r] # 0 THEN eligible \cap {Only[r]} ELSE Ahead(from) \cup Around(from)

Window(r, from) ==
  IF ~active THEN {}
  ELSE IF Only[r] # 0 THEN eligible \cap {Only[r]}
  ELSE Ahead(from) \cup Around(from)

\* A cursor that names the device after the window.
BugLastNext(from) ==
  LET part == IF Around(from) = {} THEN Ahead(from) ELSE Around(from)
  IN 1 + CHOOSE d \in part : \A e \in part : e <= d

\* The last device selected: of those taken from the start again, if any.
Last(from) ==
  LET part == IF Around(from) = {} THEN Ahead(from) ELSE Around(from)
  IN CHOOSE d \in part : \A e \in part : e <= d

\* Read the cursor, or start over if the cache raises, and query the window; an
\* empty one ends the run.
Select(r) ==
  /\ stage[r] \in {"select", "reload"}
  /\ \E from \in {cursor, 0} :
       /\ \/ from = cursor /\ UNCHANGED trouble
          \/ from = 0 /\ Only[r] = 0 /\ CacheRaises
       /\ IF Window(r, from) = {}
            THEN Stops(r)
            ELSE /\ turn' = [turn EXCEPT ![r] = [d \in Devices |->
                       IF d \in Window(r, from) THEN "waiting" ELSE "none"]]
                 /\ upto' = [upto EXCEPT ![r] = IF Only[r] = 0 THEN Last(from) ELSE 0]
                 /\ stage' = [stage EXCEPT ![r] = "advance"]
                 /\ UNCHANGED beat
  /\ UNCHANGED <<lease, cursor, eligible, active, lapsed>>

\* A window that does not move the cursor.
BugAdvanceNot(r) ==
  /\ stage[r] = "advance"
  /\ stage' = [stage EXCEPT ![r] = "round"]
  /\ beat' = [beat EXCEPT ![r] = IF @ = "off" THEN "asleep" ELSE @]
  /\ upto' = [upto EXCEPT ![r] = 0]
  /\ UNCHANGED <<lease, cursor, eligible, active, turn, lapsed, trouble>>

\* Write the cursor; the first round starts the heartbeat with it.
Advance(r) ==
  /\ stage[r] = "advance"
  /\ \/ /\ cursor' = IF upto[r] = 0 THEN cursor ELSE upto[r]
        /\ UNCHANGED trouble
     \/ /\ upto[r] # 0
        /\ CacheRaises
        /\ UNCHANGED cursor
  /\ stage' = [stage EXCEPT ![r] = "round"]
  /\ beat' = [beat EXCEPT ![r] = IF @ = "off" THEN "asleep" ELSE @]
  /\ upto' = [upto EXCEPT ![r] = 0]
  /\ UNCHANGED <<lease, eligible, active, turn, lapsed>>

-----------------------------------------------------------------------------
(* A round: every device of the window has one turn.                        *)

Busy(r) == {d \in Devices : turn[r][d] \in {"opening", "open"}}

Take(r, d) ==
  /\ stage[r] = "round"
  /\ turn[r][d] = "waiting"
  /\ Cardinality(Busy(r)) < Concurrency
  /\ turn' = [turn EXCEPT ![r][d] = "opening"]
  /\ UNCHANGED <<lease, cursor, eligible, active, stage, beat, upto, lapsed, trouble>>

\* The connection row is there; the manufacturer may have been deactivated.
Open(r, d) ==
  /\ turn[r][d] = "opening"
  /\ turn' = [turn EXCEPT ![r][d] = IF active THEN "open" ELSE "none"]
  /\ UNCHANGED <<lease, cursor, eligible, active, stage, beat, upto, lapsed, trouble>>

\* The turn is over: its time is up, the vendor closed, or an error was contained.
Close(r, d) ==
  /\ turn[r][d] \in {"opening", "open"}
  /\ turn' = [turn EXCEPT ![r][d] = "none"]
  /\ UNCHANGED <<lease, cursor, eligible, active, stage, beat, upto, lapsed, trouble>>

RoundEnds(r) ==
  /\ stage[r] = "round"
  /\ turn[r] = NoTurns
  /\ stage' = [stage EXCEPT ![r] = "reload"]
  /\ UNCHANGED <<lease, cursor, eligible, active, beat, turn, upto, lapsed, trouble>>

-----------------------------------------------------------------------------
(* The heartbeat: get, touch, get again, as three cache operations.          *)

\* A heartbeat that goes on when it finds the token lost.
BugBeatsForgives(r, from, owned, to) ==
  /\ beat[r] = from
  /\ beat' = [beat EXCEPT ![r] = IF owned THEN to ELSE "asleep"]
  /\ UNCHANGED <<lease, cursor, eligible, active, stage, turn, upto, lapsed, trouble>>

Beats(r, from, owned, to) ==
  /\ beat[r] = from
  /\ \/ /\ IF owned THEN beat' = [beat EXCEPT ![r] = to] /\ UNCHANGED <<stage, turn, upto>>
                 ELSE Stops(r)
        /\ UNCHANGED trouble
     \/ CacheRaises /\ Stops(r)
  /\ UNCHANGED <<lease, cursor, eligible, active, lapsed>>

ReadToken(r) == Beats(r, "asleep", lease = r, "touch")

\* touch renews whatever token is there.
Touch(r) == Beats(r, "touch", lease # NoRun, "verify")

Verify(r) == Beats(r, "verify", lease = r, "asleep")

\* A process dies, or a reload raises: the token stays.
Dies(r) ==
  /\ "crash" \in Faults
  /\ Running(r)
  /\ Stops(r)
  /\ UNCHANGED <<lease, cursor, eligible, active, lapsed, trouble>>

-----------------------------------------------------------------------------

Group(r) ==
  \/ Select(r) \/ Advance(r) \/ RoundEnds(r)
  \/ \E d \in Devices : Take(r, d) \/ Open(r, d) \/ Close(r, d)

Heartbeat(r) == ReadToken(r) \/ Touch(r) \/ Verify(r)

Next ==
  \/ ChangeEligible \/ ToggleActive \/ Expire \/ ExpireEarly
  \/ \E r \in Runs : Acquire(r) \/ Refused(r) \/ Group(r) \/ Heartbeat(r) \/ Dies(r)

Spec == Init /\ [][Next]_svars

(* The event loop of a live process runs both tasks, a turn ends after its   *)
(* rotation time, and a token that is not renewed expires.                   *)
Fairness ==
  /\ WF_svars(Expire)
  /\ \A r \in Runs : WF_svars(Group(r)) /\ WF_svars(Heartbeat(r))

FairSpec == Spec /\ Fairness
-----------------------------------------------------------------------------
(* Properties. *)

(* Two runs own subscriptions at once only if the token of one of them went *)
(* before it ended.                                                          *)
ExclusiveGroups ==
  \A q, r \in Runs :
    q # r /\ Running(q) /\ Running(r) => q \in lapsed \/ r \in lapsed

Lease == INSTANCE ExpiringLease WITH
  Clients <- Runs,
  NoClient <- NoRun,
  owner <- lease,
  valid <- lease # NoRun,
  used <- {r \in Runs : stage[r] \notin {"new", "refused"}}

(* The token is an exclusive expiring lease: get, touch and get never bring *)
(* back a token that has gone.                                               *)
TokenIsLease == Lease!Spec

(* A run that lost its token does not go on beside its successor: its        *)
(* subscriptions are cancelled.                                              *)
LostTokenEnds ==
  \A r \in Runs : Running(r) /\ lease # r ~> ~Running(r)

(* Deactivation ends the live supervisors.                                   *)
DeactivationEnds ==
  ~active ~> active \/ \A r \in Runs : ~Running(r)

(* While a supervisor of the whole inventory runs, every eligible device gets *)
(* its turn, however the rest of the inventory changes.                       *)
EveryDeviceServed ==
  \A r \in {q \in Runs : Only[q] = 0}, d \in Devices :
    Running(r) /\ d \in eligible
      ~> \/ \E q \in Runs : turn[q][d] \in {"opening", "open"}
         \/ d \notin eligible
         \/ ~Running(r)
=============================================================================
