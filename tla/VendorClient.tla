----------------------------- MODULE VendorClient -----------------------------
(***************************************************************************)
(* The client through which a plugin asks its vendor: a request is tried   *)
(* again a few times, every failed attempt counts against a circuit, and   *)
(* an open circuit refuses requests until its vendor had time to recover.  *)
(* A client belongs to one plugin, which makes one request after another.  *)
(***************************************************************************)
EXTENDS Integers

CONSTANTS
  FailureThreshold,  \* of the circuit
  UnhealthyAfter,    \* failures in a row, 5 in is_healthy
  MaxRetries

ASSUME ClientAssumption ==
  /\ {FailureThreshold, UnhealthyAfter} \subseteq Nat \ {0}
  /\ MaxRetries \in Nat

VARIABLES
  circuit,   \* its state
  failures,  \* its failures, and those in a row: they only ever change together
  cooled,    \* was the last failure longer ago than the recovery timeout?
  healthy,   \* _is_healthy
  attempt    \* the attempt of the current request, -1 between requests

vvars == <<circuit, failures, cooled, healthy, attempt>>

\* Failures are counted up to where they make no difference.
MaxFailures == IF FailureThreshold < UnhealthyAfter THEN UnhealthyAfter ELSE FailureThreshold

ClientTypeOK ==
  /\ circuit \in {"closed", "open", "half-open"}
  /\ failures \in 0 .. MaxFailures
  /\ cooled \in BOOLEAN /\ healthy \in BOOLEAN
  /\ attempt \in -1 .. MaxRetries

ClientInit ==
  /\ circuit = "closed"
  /\ failures = 0
  /\ cooled = TRUE
  /\ healthy = TRUE
  /\ attempt = -1

RecoveryTimePasses ==
  /\ ~cooled
  /\ cooled' = TRUE
  /\ UNCHANGED <<circuit, failures, healthy, attempt>>

-----------------------------------------------------------------------------
(* allow_request, record_success and record_failure.                         *)

\* A circuit that stays open.
BugAllowRequest ==
  /\ circuit # "open"
  /\ UNCHANGED circuit

AllowRequest ==
  \/ circuit # "open" /\ UNCHANGED circuit
  \/ circuit = "open" /\ cooled /\ circuit' = "half-open"

\* A success that closes the circuit only where a request was let through on trial.
BugRecordSuccess ==
  /\ circuit' = IF circuit = "half-open" THEN "closed" ELSE circuit
  /\ failures' = 0
  /\ healthy' = TRUE
  /\ UNCHANGED cooled

RecordSuccess ==
  /\ circuit' = "closed"
  /\ failures' = 0
  /\ healthy' = TRUE
  /\ UNCHANGED cooled

\* A failure that follows on a state of the circuit and a number of failures.
RecordFailure(was, sofar) ==
  /\ failures' = IF sofar = MaxFailures THEN sofar ELSE sofar + 1
  /\ circuit' = IF sofar + 1 >= FailureThreshold THEN "open" ELSE was
  /\ healthy' = FALSE
  /\ cooled' = FALSE

-----------------------------------------------------------------------------
(* A request.                                                                *)

BeginRequest ==
  /\ attempt = -1
  /\ AllowRequest
  /\ attempt' = 0
  /\ UNCHANGED <<failures, cooled, healthy>>

Succeed ==
  /\ attempt >= 0
  /\ RecordSuccess
  /\ attempt' = -1

\* The transport fails, or the status is one that is worth trying again.
Retry ==
  /\ attempt \in 0 .. MaxRetries - 1
  /\ RecordFailure(circuit, failures)
  /\ attempt' = attempt + 1

\* The last attempt, a status that says no, or an answer that is too large.
GiveUp ==
  /\ attempt >= 0
  /\ RecordFailure(circuit, failures)
  /\ attempt' = -1

\* An answer that is no JSON has been counted as a success when it fails.
Misread ==
  /\ attempt >= 0
  /\ RecordFailure("closed", 0)
  /\ attempt' = -1

-----------------------------------------------------------------------------

Request == BeginRequest \/ Succeed \/ Retry \/ GiveUp \/ Misread

ClientNext == RecoveryTimePasses \/ Request

ClientSpec == ClientInit /\ [][ClientNext]_vvars
-----------------------------------------------------------------------------
(* Properties. *)

IsHealthy == healthy /\ failures < UnhealthyAfter

(* A client that reports its vendor healthy refuses it no request: attempts  *)
(* that fail and open the circuit, and one of the same request that then     *)
(* succeeds, leave the two in agreement.                                     *)
HealthyMeansClosed == IsHealthy => circuit = "closed"

(* Once no attempt fails any more the circuit closes for good and the client *)
(* is healthy.                                                               *)
CircuitRecovers ==
  \/ []<><<Retry \/ GiveUp \/ Misread>>_vvars
  \/ <>[](circuit = "closed" /\ IsHealthy)
=============================================================================
