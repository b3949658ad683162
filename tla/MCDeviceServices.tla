--------------------------- MODULE MCDeviceServices ---------------------------
(***************************************************************************)
(* Five services about devices: the writers of a chassis, its channels,    *)
(* the rows of its realtime connection, the polls of the chargers and the  *)
(* client that talks to a vendor.  They share no cache key, and of the     *)
(* rows that of the chassis alone: a transition of its status is one more  *)
(* save that fills the channels, whatever the status is.  A behaviour is   *)
(* that of one of them, while the tasks of the others do not run.          *)
(***************************************************************************)
EXTENDS MCChassisLifecycle, ChassisChannels, RealtimeConnections,
  ChargerCycle, VendorClient

VARIABLE service  \* the one whose tasks run

Is(name) == service = name

\* The vendor's inventories: two pages, another order with a station listed twice, and one
\* that is too large.
VendorInventories ==
  {<<"a", "x", "b">>, <<"b", "a", "a">>, <<"a", "b", "x", "x">>}

\* Of the names a chassis goes by the registry has one and not the other, and agrees with the
\* row, has more channels or has fewer.
NamedModels == {{Unregistered, c} : c \in Capacities}

\* Where the tasks of a service do not run one initial state is enough.
DevicesInit ==
  /\ service \in {"lifecycle", "channels", "connections", "chargers", "client"}
  /\ Init /\ alone = TRUE
  /\ ChannelsInit /\ ConnectionInit /\ ChargerInit /\ ClientInit
  /\ ~Is("lifecycle") => row.status = "online"
  /\ IF Is("channels") THEN named \in NamedModels
     ELSE capacity = 1 /\ named = {Unregistered}
  /\ ~wmas
  /\ ~Is("chargers") => inventory = <<"a", "x", "b">>

DevicesNext ==
  /\ IF Is("lifecycle") THEN WatchedNext ELSE UNCHANGED <<vars, alone>>
  /\ IF Is("channels") THEN ChannelsNext ELSE UNCHANGED rfvars
  /\ IF Is("connections") THEN ConnectionNext ELSE UNCHANGED cvars
  /\ IF Is("chargers") THEN ChargerNext ELSE UNCHANGED chvars
  /\ IF Is("client") THEN ClientNext ELSE UNCHANGED vvars
  /\ UNCHANGED service

(* The polls and the supervisors update the chassis again and again; a batch  *)
(* that waits for its row gets it, because the database queues the waiters.   *)
(* Where its task is scheduled the sweep of the connections comes again and   *)
(* again, and time passes; nothing is assumed of the turns.  The host         *)
(* schedules the polls of the chargers, and one that has begun goes on.  It   *)
(* schedules the polls that make a client's requests, and a request times out. *)
DevicesFairness ==
  /\ Fairness
  /\ \A w \in Writers :
       /\ WF_rfvars(Is("channels") /\ (SavesUpdate(w) \/ WriterGoesOn(w)))
       /\ SF_rfvars(Is("channels") /\ SavesBatch(w))
  /\ WF_cvars(Is("connections") /\ Sweep)
  /\ WF_cvars(Is("connections") /\ TenMinutesPass)
  /\ WF_cvars(Is("connections") /\ AnHourPasses)
  /\ \A p \in Polls : WF_chvars(Is("chargers") /\ PollSteps(p))
  /\ WF_vvars(Is("client") /\ RecoveryTimePasses)
  /\ WF_vvars(Is("client") /\ Request)

DevicesSpec ==
  /\ DevicesInit
  /\ [][DevicesNext]_<<vars, alone, rfvars, cvars, chvars, vvars, service>>
  /\ DevicesFairness

(* The types of every service's state.                                       *)
DevicesTypeOK ==
  TypeOK /\ ChannelsTypeOK /\ ConnectionTypeOK /\ ChargerTypeOK /\ ClientTypeOK

(* Where the chargers are polled at all, their snapshot returns.             *)
PolledSnapshotReturns == Is("chargers") => SnapshotReturns
=============================================================================
