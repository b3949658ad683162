-------------------------- MODULE SnapshotBroadcast --------------------------
(***************************************************************************)
(* The broadcast of a manufacturer's chassis to the browsers.  A poll or a *)
(* synchronization sends one window of the inventory, in chunks, under the *)
(* identifier of a snapshot; the cursor in the cache lets the next one go  *)
(* on with the same snapshot, until a chunk says that the inventory is     *)
(* complete.  Invocations overlap, the inventory changes between them, and *)
(* the cache raises or forgets.  Who receives a chunk is left out.         *)
(***************************************************************************)
EXTENDS FiniteSets, Integers

CONSTANTS
  Casts,       \* invocations that may overlap
  Chassis,     \* primary keys
  MaxRows,     \* the window
  ChunkSize,
  Snapshots,   \* identifiers, used again when nothing refers to them
  NoSnapshot

ASSUME CastsAssumption ==
  /\ IsFiniteSet(Casts) /\ IsFiniteSet(Snapshots)
  /\ Cardinality(Snapshots) > Cardinality(Casts)
  /\ NoSnapshot \notin Snapshots
ASSUME WindowAssumption ==
  /\ Chassis \subseteq Nat \ {0} /\ IsFiniteSet(Chassis)
  /\ MaxRows \in Nat \ {0} /\ ChunkSize \in 1 .. MaxRows

VARIABLES
  listed,  \* the chassis the projection selects
  resume,  \* the cursor in the cache
  cast,    \* where each invocation is and what it holds
  owed     \* history: the chassis listed since a snapshot began that it has not sent

bvars == <<listed, resume, cast, owed>>

Fresh == [after |-> 0, snapshot |-> NoSnapshot]

Cursor == [after : Chassis \cup {0}, snapshot : Snapshots \cup {NoSnapshot}]

Away == [at |-> "idle", snapshot |-> NoSnapshot, rows |-> {}, then |-> 0]

BroadcastTypeOK ==
  /\ listed \subseteq Chassis
  /\ resume \in Cursor
  /\ cast \in [Casts -> [at : {"idle", "send", "write"},
                         snapshot : Snapshots \cup {NoSnapshot},
                         rows : SUBSET Chassis, then : Chassis \cup {0}]]
  /\ owed \in [Snapshots -> SUBSET Chassis]

BroadcastInit ==
  /\ listed \in SUBSET Chassis
  /\ resume = Fresh
  /\ cast = [c \in Casts |-> Away]
  /\ owed = [s \in Snapshots |-> {}]

\* A chassis that comes or goes, or changes its status, is owed to nobody any more.
ChangeListed ==
  /\ \E d \in Chassis :
       /\ listed' = IF d \in listed THEN listed \ {d} ELSE listed \cup {d}
       /\ owed' = [s \in Snapshots |-> owed[s] \ {d}]
  /\ UNCHANGED <<resume, cast>>

\* The snapshots somebody may go on with, or has just ended.
InUse == {resume.snapshot} \cup {cast[c].snapshot : c \in Casts}

\* Nothing is kept of a snapshot that nobody goes on with.
Settles(owing) == owed' = [s \in Snapshots |-> IF s \in InUse' THEN owing[s] ELSE {}]

-----------------------------------------------------------------------------
(* An invocation.                                                            *)

\* The k first of a set of primary keys.
First(S, k) == {d \in S : Cardinality({e \in S : e < d}) < k}

\* The last of a nonempty set of primary keys.
LastOf(S) == CHOOSE d \in S : \A e \in S : e <= d

\* A cursor that names the row that showed that there are more.
BugGoesOnAfter(rows) ==
  IF Cardinality(rows) > MaxRows THEN LastOf(rows) ELSE 0

\* The cursor after a window of which one row more was read than it may send.
GoesOnAfter(rows) ==
  IF Cardinality(rows) > MaxRows THEN LastOf(First(rows, MaxRows)) ELSE 0

\* Read the cursor, which is not there if the cache raises or has forgotten it, and
\* query the window; what happens in between might as well happen before or after.
\* Where nothing is left behind the cursor start over with another snapshot.
Load(c, from) ==
  LET behind == First({d \in listed : d > from.after}, MaxRows + 1)
      over == from.after = 0 \/ behind = {}
      rows == IF over THEN First(listed, MaxRows + 1) ELSE behind
      snapshot == IF over THEN CHOOSE s \in Snapshots : s \notin InUse ELSE from.snapshot
  IN /\ cast[c].at = "idle"
     /\ cast' = [cast EXCEPT ![c] =
          [at |-> "send", snapshot |-> snapshot,
           rows |-> First(rows, MaxRows), then |-> GoesOnAfter(rows)]]
     /\ UNCHANGED <<listed, resume>>
     /\ Settles(IF over THEN [owed EXCEPT ![snapshot] = listed] ELSE owed)

\* The last chunk, which may be empty, ends the snapshot if there is no cursor.
SendChunk(c) ==
  LET chunk == First(cast[c].rows, ChunkSize)
      snapshot == cast[c].snapshot
      final == chunk = cast[c].rows
  IN /\ cast[c].at = "send"
     /\ cast' = [cast EXCEPT ![c].rows = @ \ chunk,
                             ![c].at = IF final THEN "write" ELSE "send"]
     /\ owed' = [owed EXCEPT ![snapshot] = @ \ chunk]
     /\ UNCHANGED <<listed, resume>>

WriteResume(c) ==
  /\ cast[c].at = "write"
  /\ resume' = IF cast[c].then = 0 THEN Fresh
               ELSE [after |-> cast[c].then, snapshot |-> cast[c].snapshot]
  /\ cast' = [cast EXCEPT ![c] = Away]
  /\ UNCHANGED listed
  /\ Settles(owed)

\* The process dies, or the cache raises and the cursor is not written.
CastFails(c) ==
  /\ cast[c].at # "idle"
  /\ cast' = [cast EXCEPT ![c] = Away]
  /\ UNCHANGED <<listed, resume>>
  /\ Settles(owed)

-----------------------------------------------------------------------------

BroadcastNext ==
  \/ ChangeListed
  \/ \E c \in Casts : \/ \E from \in {resume, Fresh} : Load(c, from)
                      \/ SendChunk(c) \/ WriteResume(c)
                      \/ CastFails(c)

BroadcastSpec == BroadcastInit /\ [][BroadcastNext]_bvars
-----------------------------------------------------------------------------
(* Properties. *)

(* The batches of one snapshot join: when the inventory is said to be        *)
(* complete, every chassis that was listed all the time has been sent under  *)
(* its identifier, by whichever invocations went on with it.                 *)
SnapshotsJoin ==
  \A c \in Casts :
    cast[c].at = "write" /\ cast[c].then = 0 => owed[cast[c].snapshot] = {}
=============================================================================
