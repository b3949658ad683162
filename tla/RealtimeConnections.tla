------------------------ MODULE RealtimeConnections ------------------------
(***************************************************************************)
(* The row that tells what became of the realtime connection of a chassis. *)
(* The turns that subscribe to the chassis keep an instance of the row in  *)
(* memory and save it as they go; a maintenance sweep selects rows that    *)
(* look stale and updates them by primary key.  Turns of one chassis       *)
(* follow each other and overlap when a supervisor has lost its token.     *)
(* Times are only told apart by the thresholds of the sweep.               *)
(***************************************************************************)
EXTENDS FiniteSets

CONSTANT Turns  \* the turns of one chassis that may overlap

VARIABLES
  connection,  \* the row: its status, last_message_at and last_error_at
  instance,    \* what each turn has in memory
  turnAt,      \* where each turn is
  sweepAt      \* where the sweep is: with the row among its ids, or past them

cvars == <<connection, instance, turnAt, sweepAt>>

Moments == {"never", "lately", "long ago"}

Rows == [status : {"connecting", "connected", "disconnected", "error", "stopped"},
         heard : Moments,
         failed : Moments]

ConnectionTypeOK ==
  /\ connection \in Rows
  /\ instance \in [Turns -> Rows]
  /\ turnAt \in [Turns -> {"idle", "connecting", "open"}]
  /\ sweepAt \in {"idle", "stale selected", "between", "errors selected"}

NewRow == [status |-> "disconnected", heard |-> "never", failed |-> "never"]

ConnectionInit ==
  /\ connection = NewRow
  /\ instance = [t \in Turns |-> NewRow]
  /\ turnAt = [t \in Turns |-> "idle"]
  /\ sweepAt = "idle"

-----------------------------------------------------------------------------
(* A turn.                                                                   *)

\* save() without update_fields writes every column of the instance.
SavesAll(t, columns) ==
  /\ instance' = [instance EXCEPT ![t] = columns]
  /\ connection' = columns
  /\ UNCHANGED sweepAt

\* The last save of a turn, whose instance is forgotten with it.
SavesLast(t, columns) ==
  /\ instance' = [instance EXCEPT ![t] = NewRow]
  /\ connection' = columns
  /\ turnAt' = [turnAt EXCEPT ![t] = "idle"]
  /\ UNCHANGED sweepAt

\* get_or_create and mark_connecting follow each other in one call.
MarkConnecting(t) ==
  /\ turnAt[t] = "idle"
  /\ SavesAll(t, [connection EXCEPT !.status = "connecting"])
  /\ turnAt' = [turnAt EXCEPT ![t] = "connecting"]

\* The manufacturer has been deactivated.
MarkStopped(t) ==
  /\ turnAt[t] = "connecting"
  /\ SavesLast(t, [instance[t] EXCEPT !.status = "stopped"])

Subscribe(t) ==
  /\ turnAt[t] = "connecting"
  /\ turnAt' = [turnAt EXCEPT ![t] = "open"]
  /\ UNCHANGED <<connection, instance, sweepAt>>

\* A first message that does not count as heard.
BugConnectedSilently(t) ==
  SavesAll(t, [instance[t] EXCEPT !.status = "connected"])

MarkConnected(t) ==
  SavesAll(t, [instance[t] EXCEPT !.status = "connected", !.heard = "lately"])

\* The status in memory decides whether the row becomes connected.
ReceivedMessage(t) ==
  /\ turnAt[t] = "open"
  /\ \/ /\ instance[t].status # "connected"
        /\ MarkConnected(t)
     \/ /\ instance[t].status = "connected"
        /\ instance' = [instance EXCEPT ![t].heard = "lately"]
        /\ connection' = [connection EXCEPT !.heard = "lately"]
        /\ UNCHANGED sweepAt
  /\ UNCHANGED turnAt

MarkError(t) ==
  /\ turnAt[t] \in {"connecting", "open"}
  /\ SavesLast(t, [instance[t] EXCEPT !.status = "error", !.failed = "lately"])

\* The turn is over or cancelled, or its process died: nothing is saved.
TurnEnds(t) ==
  /\ turnAt[t] # "idle"
  /\ instance' = [instance EXCEPT ![t] = NewRow]
  /\ turnAt' = [turnAt EXCEPT ![t] = "idle"]
  /\ UNCHANGED <<connection, sweepAt>>

-----------------------------------------------------------------------------
(* The sweep: two selections, each with an update by primary key.            *)

SweepsFrom(from, to) ==
  /\ sweepAt = from
  /\ sweepAt' = to
  /\ UNCHANGED <<instance, turnAt>>

Stale == connection.status = "connected" /\ connection.heard = "long ago"

SelectStale ==
  /\ SweepsFrom("idle", IF Stale THEN "stale selected" ELSE "between")
  /\ UNCHANGED connection

DisconnectStale ==
  /\ SweepsFrom("stale selected", "between")
  /\ connection' = [connection EXCEPT !.status = "disconnected", !.failed = "lately"]

Failed == connection.status = "error" /\ connection.failed = "long ago"

SelectErrors ==
  /\ SweepsFrom("between", IF Failed THEN "errors selected" ELSE "idle")
  /\ UNCHANGED connection

\* A sweep that clears the error and leaves the status.
BugResetErrors ==
  /\ SweepsFrom("errors selected", "idle")
  /\ connection' = [connection EXCEPT !.failed = "never"]

ResetErrors ==
  /\ SweepsFrom("errors selected", "idle")
  /\ connection' = [connection EXCEPT !.status = "disconnected"]

Sweep == SelectStale \/ DisconnectStale \/ SelectErrors \/ ResetErrors

-----------------------------------------------------------------------------
(* Time.                                                                     *)

Aged(moment) == IF moment = "lately" THEN "long ago" ELSE moment

TenMinutesPass ==
  /\ connection.heard = "lately" \/ \E t \in Turns : instance[t].heard = "lately"
  /\ connection' = [connection EXCEPT !.heard = Aged(@)]
  /\ instance' = [t \in Turns |-> [instance[t] EXCEPT !.heard = Aged(@)]]
  /\ UNCHANGED <<turnAt, sweepAt>>

AnHourPasses ==
  /\ \/ connection.failed = "lately" \/ connection.heard = "lately"
     \/ \E t \in Turns : "lately" \in {instance[t].failed, instance[t].heard}
  /\ connection' = [connection EXCEPT !.failed = Aged(@), !.heard = Aged(@)]
  /\ instance' = [t \in Turns |-> [instance[t] EXCEPT !.failed = Aged(@), !.heard = Aged(@)]]
  /\ UNCHANGED <<turnAt, sweepAt>>

-----------------------------------------------------------------------------

ConnectionNext ==
  \/ Sweep \/ TenMinutesPass \/ AnHourPasses
  \/ \E t \in Turns :
       \/ MarkConnecting(t) \/ MarkStopped(t) \/ Subscribe(t)
       \/ ReceivedMessage(t) \/ MarkError(t) \/ TurnEnds(t)

ConnectionSpec == ConnectionInit /\ [][ConnectionNext]_cvars
-----------------------------------------------------------------------------
(* Properties. *)

(* A row does not claim a connection or an error for ever on which nobody     *)
(* hears a message or sees a failure: whatever instances the turns save over  *)
(* it, the sweep finds it again.                                              *)
SilentRowsAreSwept ==
  \/ []<><<\E t \in Turns : ReceivedMessage(t) \/ MarkError(t)>>_cvars
  \/ []<>(connection.status \notin {"connected", "error"})
=============================================================================
