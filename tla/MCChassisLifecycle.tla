------------------------- MODULE MCChassisLifecycle -------------------------
(* Instances of ChassisLifecycle for TLC: two writers of one row.  Some    *)
(* properties hold only while writers come one at a time; `alone` says     *)
(* whether they always have.                                               *)
EXTENDS ChassisLifecycle, Integers, FiniteSets, TLC

VARIABLE alone   \* no two writers have been at work at once

\* Writers are interchangeable: Next quantifies over them and no state names one.
ActorSymmetry == Permutations(Actors)

WatchedNext ==
  /\ Next
  /\ alone' = (alone /\ Cardinality({a \in Actors : task'[a] # "none"}) <= 1)

WatchedSpec == Init /\ alone = TRUE /\ [][WatchedNext]_<<vars, alone>>

WatchedFairSpec == WatchedSpec /\ Fairness

\* One writer after the other, in any order: is_online agrees with status after every commit.
OnlineMatchesAlone == alone => OnlineMatchesStatus

\* One writer after the other: no realtime update, offline pass or synchronization takes a
\* chassis out of its operator's maintenance.
MaintenanceKeptAlone == [][alone' => KeepsMaintenance]_row
=============================================================================
