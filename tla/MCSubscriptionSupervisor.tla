---------------------- MODULE MCSubscriptionSupervisor ----------------------
EXTENDS SubscriptionSupervisor

CONSTANTS r1, r2

\* Nobody asked for a single device.
AllDevices == [r \in Runs |-> 0]

\* The second run is a diagnostic of device 1.
OneDiagnostic == [r \in Runs |-> IF r = r2 THEN 1 ELSE 0]
=============================================================================
