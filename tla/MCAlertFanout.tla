---------------------------- MODULE MCAlertFanout ----------------------------
EXTENDS AlertFanout

CONSTANTS scan1, check1, chan1

\* An assignment for each unit.
OneEach == [a \in Assignments |-> a]

\* The second unit has no channel.
FirstOnly == [u \in Units |-> IF u = 1 THEN chan1 ELSE Nobody]

\* Every unit uses one channel, every assignment wants every alert, every user is in
\* every group.
OneChannel == [u \in Units |-> chan1]
AllWanted == [a \in Assignments |-> Types]
Everybody == Assignments \X Users

\* Both units are offline; the first one's battery was low.
BothOffline ==
  [u \in Units |-> {"hardware_offline"} \cup IF u = 1 THEN {"battery"} ELSE {}]

\* Both assignments are of one unit, which is offline.
OneUnit == [a \in Assignments |-> 1]
Offline == [u \in Units |-> {"hardware_offline"}]
=============================================================================
