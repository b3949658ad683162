-------------------------- MODULE MCDiscoveryServices --------------------------
(***************************************************************************)
(* Four services around discovery that share no row and no cache key: the  *)
(* jobs, the broadcast and the alerts with which a synchronization or a    *)
(* poll ends, and the cache of the settings all of them read.  A behaviour *)
(* is that of one of them, while the tasks of the others do not run.       *)
(***************************************************************************)
EXTENDS MCDiscoveryReconcile, SettingsCache, SnapshotBroadcast, MCAlertFanout

VARIABLE service  \* the one whose tasks run

Is(name) == service = name

\* Where the tasks of a service do not run one initial state is enough.
DiscoveryInit ==
  /\ service \in {"jobs", "settings", "broadcast", "alerts"}
  /\ RInit /\ SettingsInit /\ BroadcastInit /\ Init
  /\ ~Is("jobs") => inventory = {} /\ remote = {}
  /\ ~Is("broadcast") => listed = {}

DiscoveryNext ==
  /\ IF Is("jobs") THEN RNext ELSE UNCHANGED rvars
  /\ IF Is("settings") THEN SettingsNext ELSE UNCHANGED stvars
  /\ IF Is("broadcast") THEN BroadcastNext ELSE UNCHANGED bvars
  /\ IF Is("alerts") THEN Next ELSE UNCHANGED avars
  /\ UNCHANGED service

DiscoverySpec ==
  DiscoveryInit /\ [][DiscoveryNext]_<<rvars, stvars, bvars, avars, service>>

(* The types of every service's state.                                       *)
DiscoveryTypeOK == TypeOK /\ SettingsTypeOK /\ BroadcastTypeOK /\ AlertsTypeOK
=============================================================================
