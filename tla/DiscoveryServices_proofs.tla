----------------------- MODULE DiscoveryServices_proofs -----------------------
(***************************************************************************)
(* Proofs about the settings registry and the snapshot broadcast, for any  *)
(* processes, any number of edits, any inventory and any window; and, with *)
(* those about the jobs and the alerts, about the four services together.  *)
(*                                                                         *)
(* Settings.  An outdated entry must have come from a reader, so what the  *)
(* property says of the entry has to hold already of a reader that is on   *)
(* its way: what it has read is outdated only for a cause, as long as the  *)
(* version it will store it under is the current one.                      *)
(*                                                                         *)
(* Snapshots.  What a snapshot still owes lies ahead of everybody who goes *)
(* on with it: among the rows an invocation holds or behind its next       *)
(* cursor, and behind the cursor in the cache.  The invocations that share *)
(* a cursor may each be the one that ends it.                              *)
(***************************************************************************)
EXTENDS MCDiscoveryServices, DiscoveryJobs_proofs, AlertFanout_proofs, WellFoundedInduction

-----------------------------------------------------------------------------
(* The types of SettingsCache.                                               *)

\* Every version that was replaced, or is about to be, stands for an edit.
SettingsTyped ==
  /\ SettingsTypeOK
  /\ version.value + (IF pageAt = "committed" THEN 1 ELSE 0) <= edits
  /\ version.definition <= version.value

LEMMA ReadTyped ==
  ASSUME SettingsTyped, NEW p \in Readers, NEW from,
         NEW after \in [at : {"idle", "definition", "query", "value", "set"},
                        of : 0 .. MaxEdits, definition : 0 .. MaxEdits,
                        value : 0 .. MaxEdits],
         Reads(p, from, after),
         entries' \in {{}} \cup {{e} : e \in Both},
         known' \in [Readers -> [of : 0 .. MaxEdits, definition : 0 .. MaxEdits]]
  PROVE  SettingsTyped'
  BY DEF SettingsTyped, SettingsTypeOK, Reads

LEMMA ReaderTyped ==
  ASSUME SettingsTyped, NEW p \in Readers,
         \/ Misses(p) \/ ReadDefinitionVersion(p) \/ QueryDefinition(p) \/ QueryValue(p)
         \/ SetEntry(p)
  PROVE  SettingsTyped'
<1> USE EditsAssumption
<1>1. /\ version \in Both /\ stored \in Both /\ entries \in {{}} \cup {{e} : e \in Both}
      /\ known \in [Readers -> [of : 0 .. MaxEdits, definition : 0 .. MaxEdits]]
      /\ reader[p] \in [at : {"idle", "definition", "query", "value", "set"},
                        of : 0 .. MaxEdits, definition : 0 .. MaxEdits,
                        value : 0 .. MaxEdits]
  BY DEF SettingsTyped, SettingsTypeOK
<1>2. CASE Misses(p)
  <2> DEFINE after == [Resting EXCEPT !.at = "definition", !.of = version.value]
  <2>1. after \in [at : {"idle", "definition", "query", "value", "set"},
                   of : 0 .. MaxEdits, definition : 0 .. MaxEdits, value : 0 .. MaxEdits]
    <3> DEFINE span == 0 .. MaxEdits
    <3>1. 0 \in span /\ version.value \in span
      BY <1>1 DEF Both
    <3> HIDE DEF span
    <3>2. Resting \in [at : {"idle", "definition", "query", "value", "set"},
                      of : span, definition : span, value : span]
      BY <3>1 DEF Resting
    <3>3. after \in [at : {"idle", "definition", "query", "value", "set"},
                    of : span, definition : span, value : span]
      BY <3>1, <3>2
    <3> QED
      BY <3>3 DEF span
  <2>2. Reads(p, "idle", after) /\ entries' = entries /\ known' = known
    BY <1>2 DEF Misses
  <2> HIDE DEF after
  <2> QED
    BY <1>1, <2>1, <2>2, ReadTyped
<1>3. CASE ReadDefinitionVersion(p)
  <2>1. CASE known[p].of = version.definition
    BY <1>1, <1>3, <2>1, ReadTyped DEF ReadDefinitionVersion, Both
  <2>2. CASE known[p].of # version.definition
    BY <1>1, <1>3, <2>2, ReadTyped DEF ReadDefinitionVersion, Both
  <2> QED
    BY <2>1, <2>2
<1>4. CASE QueryDefinition(p)
  BY <1>1, <1>4, ReadTyped DEF QueryDefinition, Both
<1>5. CASE QueryValue(p)
  BY <1>1, <1>5, ReadTyped DEF QueryValue, Both
<1>6. CASE SetEntry(p)
  <2>1. Answer(p) \in Both
    BY <1>1 DEF Answer, Both
  <2> QED
    BY <1>1, <1>6, <2>1, ReadTyped DEF SetEntry, Resting
<1> QED
  BY <1>2, <1>3, <1>4, <1>5, <1>6

LEMMA EditTyped ==
  ASSUME SettingsTyped,
         \/ EntryExpires \/ PageSaves \/ PageInvalidates
         \/ \E column \in {"value", "definition"} : AdminSaves(column)
         \/ AdminCommits \/ AdminRollsBack
  PROVE  SettingsTyped'
<1> USE EditsAssumption DEF SettingsTyped, SettingsTypeOK, Both
<1>1. CASE EntryExpires
  BY <1>1 DEF EntryExpires
<1>2. CASE PageSaves
  BY <1>2 DEF PageSaves, Edits
<1>3. CASE PageInvalidates
  BY <1>3 DEF PageInvalidates
<1>4. ASSUME NEW column \in {"value", "definition"}, AdminSaves(column)
      PROVE  SettingsTyped'
  <2>1. /\ edits < MaxEdits /\ edits' = edits + 1 /\ entries' = {}
        /\ admin' = [kind |-> column, edit |-> edits + 1]
        /\ version' = [value |-> version.value + 1,
                       definition |-> version.definition
                                        + (IF column = "definition" THEN 1 ELSE 0)]
        /\ UNCHANGED <<known, reader, stored, pageAt, overtaken>>
    BY <1>4 DEF AdminSaves, Edits
  <2>2. /\ version'.value = version.value + 1
        /\ version'.definition \in version.definition .. version.definition + 1
        /\ version' \in Both
    BY <2>1
  <2> QED
    BY <2>1, <2>2
<1>5. CASE AdminCommits
  <2>1. stored' \in Both
    BY <1>5 DEF AdminCommits
  <2> QED
    BY <1>5, <2>1 DEF AdminCommits, NoEdit
<1>6. CASE AdminRollsBack
  BY <1>6 DEF AdminRollsBack, NoEdit
<1> QED
  BY <1>1, <1>2, <1>3, <1>4, <1>5, <1>6

\* The state of the registry has its types, so no version is ever ahead of the edits.
THEOREM SettingsTypeCorrect == SettingsSpec => []SettingsTypeOK
<1>1. SettingsInit => SettingsTyped
  BY EditsAssumption DEF SettingsInit, SettingsTyped, SettingsTypeOK, Both, None, Untouched,
                         Resting, NoEdit
<1>2. SettingsTyped /\ [SettingsNext]_stvars => SettingsTyped'
  <2> SUFFICES ASSUME SettingsTyped, [SettingsNext]_stvars
               PROVE  SettingsTyped'
    OBVIOUS
  <2>1. CASE UNCHANGED stvars
    BY <2>1 DEF stvars, SettingsTyped, SettingsTypeOK
  <2> QED
    BY <2>1, ReaderTyped, EditTyped DEF SettingsNext
<1>3. SettingsTyped => SettingsTypeOK
  BY DEF SettingsTyped
<1> QED
  BY <1>1, <1>2, <1>3, PTL DEF SettingsSpec

-----------------------------------------------------------------------------
(* Outdated entries.                                                         *)

Numbers == [value : Nat, definition : Nat]

\* The state the proof needs: versions and edits are numbers, and nobody is ahead of the
\* current version.
Ordered ==
  /\ stored \in Numbers /\ version \in Numbers
  /\ known \in [Readers -> [of : Nat, definition : Nat]]
  /\ reader \in [Readers -> [at : {"idle", "definition", "query", "value", "set"},
                             of : Nat, definition : Nat, value : Nat]]
  /\ admin \in [kind : {"none", "value", "definition"}, edit : Nat]
  /\ edits \in Nat
  /\ \A p \in Readers : reader[p].of <= version.value /\ known[p].of <= version.definition
  /\ \A p \in Readers : reader[p].at = "query" => reader[p].definition <= version.definition

\* The two causes.
ValueCause == pageAt = "committed" \/ overtaken.value = version.value
DefinitionCause == overtaken.value = version.value \/ overtaken.definition = version.definition

EntryOK == \A e \in entries : /\ e.value # stored.value => ValueCause
                              /\ e.definition # stored.definition => DefinitionCause

KnownOK(p) ==
  known[p].of = version.definition /\ known[p].definition # stored.definition =>
    overtaken.definition = version.definition

\* A reader that will store under the current version.
ReaderOK(p) ==
  reader[p].of = version.value =>
    /\ reader[p].at \in {"value", "set"} /\ reader[p].definition # stored.definition =>
         DefinitionCause
    /\ reader[p].at = "set" /\ reader[p].value # stored.value => ValueCause

StaleInv == Ordered /\ EntryOK /\ \A p \in Readers : KnownOK(p) /\ ReaderOK(p)

LEMMA StaleInit == SettingsInit => StaleInv
  BY DEF SettingsInit, StaleInv, Ordered, Numbers, None, Untouched, Resting, NoEdit, EntryOK,
         KnownOK, ReaderOK

ReaderState == [at : {"idle", "definition", "query", "value", "set"},
                of : Nat, definition : Nat, value : Nat]

\* A reader stays in order if it has read nothing from the future.
LEMMA ReadOrdered ==
  ASSUME Ordered, NEW p \in Readers, NEW after \in ReaderState,
         reader' = [reader EXCEPT ![p] = after],
         UNCHANGED <<stored, version, admin, edits>>,
         after.of <= version.value,
         after.at = "query" => after.definition <= version.definition,
         known' \in [Readers -> [of : Nat, definition : Nat]],
         \A q \in Readers : known'[q].of <= version.definition
  PROVE  Ordered'
<1>1. reader \in [Readers -> ReaderState]
  BY DEF Ordered, ReaderState
<1>2. \A q \in Readers : reader'[q] = IF q = p THEN after ELSE reader[q]
  BY <1>1
<1>3. reader' \in [Readers -> ReaderState]
  BY <1>1
<1>4. \A q \in Readers : reader'[q].of <= version.value
  BY <1>2 DEF Ordered
<1>5. \A q \in Readers : reader'[q].at = "query" => reader'[q].definition <= version.definition
  BY <1>2 DEF Ordered
<1> QED
  BY <1>3, <1>4, <1>5 DEF Ordered, ReaderState

\* A step of reader p, which leaves the stored setting and its versions alone.
LEMMA ReadKeeps ==
  ASSUME StaleInv, NEW p \in Readers,
         \/ Misses(p) \/ ReadDefinitionVersion(p) \/ QueryDefinition(p) \/ QueryValue(p)
         \/ SetEntry(p)
  PROVE  StaleInv'
<1>1. UNCHANGED <<stored, version, pageAt, admin, overtaken, edits>>
  BY DEF Misses, ReadDefinitionVersion, QueryDefinition, QueryValue, SetEntry, Reads
<1>2. (ValueCause' <=> ValueCause) /\ (DefinitionCause' <=> DefinitionCause)
  BY <1>1 DEF ValueCause, DefinitionCause
<1> USE DEF StaleInv, Reads, Resting
<1>3. CASE Misses(p)
  <2> DEFINE after == [Resting EXCEPT !.at = "definition", !.of = version.value]
  <2>1. Ordered'
    <3>1. after \in ReaderState /\ after.of = version.value /\ after.at = "definition"
      BY DEF Ordered, Numbers, ReaderState
    <3>2. reader' = [reader EXCEPT ![p] = after] /\ UNCHANGED known
      BY <1>3 DEF Misses
    <3>3. after.of <= version.value
      BY <3>1 DEF Ordered, Numbers
    <3>4. /\ known' \in [Readers -> [of : Nat, definition : Nat]]
          /\ \A q \in Readers : known'[q].of <= version.definition
      BY <3>2 DEF Ordered
    <3> HIDE DEF after
    <3>5. after.at # "query"
      BY <3>1
    <3> QED
      BY <1>1, <3>1, <3>2, <3>3, <3>4, <3>5, ReadOrdered
  <2>2. EntryOK' /\ \A q \in Readers : KnownOK(q)' /\ ReaderOK(q)'
    BY <1>1, <1>2, <1>3 DEF Misses, Ordered, Numbers, EntryOK, KnownOK, ReaderOK
  <2> QED
    BY <2>1, <2>2
<1>4. CASE ReadDefinitionVersion(p)
  <2>1. Ordered'
    <3>1. PICK after \in {[reader[p] EXCEPT !.at = "value", !.definition = known[p].definition],
                          [reader[p] EXCEPT !.at = "query", !.definition = version.definition]} :
            reader' = [reader EXCEPT ![p] = after]
      BY <1>4 DEF ReadDefinitionVersion
    <3>2. reader[p] \in ReaderState /\ known[p].definition \in Nat /\ version.definition \in Nat
          /\ reader[p].of <= version.value
      BY DEF Ordered, Numbers, ReaderState
    <3>3. /\ after \in ReaderState /\ after.of = reader[p].of
          /\ after.at = "query" => after.definition = version.definition
      BY <3>1, <3>2 DEF ReaderState
    <3>4. after.of <= version.value /\ (after.at = "query" => after.definition <= version.definition)
      BY <3>2, <3>3
    <3>5. UNCHANGED known
      BY <1>4 DEF ReadDefinitionVersion
    <3>6. /\ known' \in [Readers -> [of : Nat, definition : Nat]]
          /\ \A q \in Readers : known'[q].of <= version.definition
      BY <3>5 DEF Ordered
    <3> QED
      BY <1>1, <3>1, <3>3, <3>4, <3>6, ReadOrdered
  <2>2. EntryOK' /\ \A q \in Readers : KnownOK(q)'
    BY <1>1, <1>2, <1>4 DEF ReadDefinitionVersion, EntryOK, KnownOK
  <2>3. ASSUME NEW q \in Readers
        PROVE  ReaderOK(q)'
    <3>1. CASE q # p
      <4>1. reader'[q] = reader[q]
        BY <1>4, <3>1 DEF ReadDefinitionVersion, Ordered
      <4> QED
        BY <1>1, <1>2, <4>1 DEF ReaderOK
    <3>2. CASE q = p /\ known[p].of = version.definition
      <4>1. reader'[p] = [reader[p] EXCEPT !.at = "value", !.definition = known[p].definition]
        BY <1>4, <3>2 DEF ReadDefinitionVersion, Ordered
      <4>2. reader'[p].at = "value" /\ reader'[p].definition = known[p].definition
        BY <4>1 DEF Ordered
      <4>3. known[p].definition # stored.definition => DefinitionCause
        BY <3>2 DEF KnownOK, DefinitionCause
      <4> QED
        BY <1>1, <1>2, <3>2, <4>2, <4>3 DEF ReaderOK
    <3>3. CASE q = p /\ known[p].of # version.definition
      <4>1. reader'[p] = [reader[p] EXCEPT !.at = "query", !.definition = version.definition]
        BY <1>4, <3>3 DEF ReadDefinitionVersion, Ordered
      <4>2. reader'[p].at = "query"
        BY <4>1 DEF Ordered
      <4> QED
        BY <3>3, <4>2 DEF ReaderOK
    <3> QED
      BY <3>1, <3>2, <3>3
  <2> QED
    BY <2>1, <2>2, <2>3
<1>5. CASE QueryDefinition(p)
  <2>1. Ordered'
    BY <1>1, <1>5 DEF QueryDefinition, Ordered, Numbers
  <2>2. EntryOK' /\ \A q \in Readers : KnownOK(q)' /\ ReaderOK(q)'
    BY <1>1, <1>2, <1>5 DEF QueryDefinition, Ordered, Numbers, EntryOK, KnownOK, ReaderOK
  <2> QED
    BY <2>1, <2>2
<1>6. CASE QueryValue(p)
  <2>1. Ordered'
    BY <1>1, <1>6 DEF QueryValue, Ordered, Numbers
  <2>2. EntryOK' /\ \A q \in Readers : KnownOK(q)' /\ ReaderOK(q)'
    BY <1>1, <1>2, <1>6 DEF QueryValue, Ordered, Numbers, EntryOK, KnownOK, ReaderOK
  <2> QED
    BY <2>1, <2>2
<1>7. CASE SetEntry(p)
  <2>1. Ordered'
    BY <1>1, <1>7 DEF SetEntry, Ordered, Numbers
  <2>2. EntryOK'
    BY <1>1, <1>2, <1>7 DEF SetEntry, Answer, EntryOK, ReaderOK
  <2>3. \A q \in Readers : KnownOK(q)' /\ ReaderOK(q)'
    BY <1>1, <1>2, <1>7 DEF SetEntry, Ordered, KnownOK, ReaderOK
  <2> QED
    BY <2>1, <2>2, <2>3
<1> QED
  BY <1>3, <1>4, <1>5, <1>6, <1>7

\* What is committed becomes outdated, and a new version makes everything read before it
\* unreachable.
LEMMA EditKeeps ==
  ASSUME StaleInv,
         \/ EntryExpires \/ PageSaves \/ PageInvalidates
         \/ \E column \in {"value", "definition"} : AdminSaves(column)
         \/ AdminCommits \/ AdminRollsBack
  PROVE  StaleInv'
<1> USE DEF StaleInv
<1>1. CASE EntryExpires \/ AdminRollsBack
  BY <1>1 DEF EntryExpires, AdminRollsBack, NoEdit, Ordered, Numbers, EntryOK, KnownOK, ReaderOK,
     ValueCause, DefinitionCause
<1>2. CASE PageSaves
  <2>1. Ordered'
    BY <1>2 DEF PageSaves, Edits, Ordered, Numbers
  <2>2. pageAt' = "committed" /\ stored'.definition = stored.definition
        /\ UNCHANGED <<version, entries, known, reader, overtaken>>
    BY <1>2 DEF PageSaves, Edits, Ordered, Numbers
  <2> QED
    BY <2>1, <2>2 DEF EntryOK, KnownOK, ReaderOK, ValueCause, DefinitionCause
<1>3. CASE PageInvalidates
  <2>1. /\ version'.value = version.value + 1 /\ version'.definition = version.definition
        /\ version' \in Numbers /\ entries' = {}
        /\ UNCHANGED <<stored, known, reader, admin, overtaken, edits>>
    BY <1>3 DEF PageInvalidates, Ordered, Numbers
  <2>2. Ordered'
    BY <2>1 DEF Ordered, Numbers
  <2>3. \A p \in Readers : reader'[p].of # version'.value
    BY <2>1 DEF Ordered, Numbers
  <2> QED
    BY <2>1, <2>2, <2>3 DEF EntryOK, KnownOK, ReaderOK
<1>4. ASSUME NEW column \in {"value", "definition"}, AdminSaves(column)
      PROVE  StaleInv'
  <2>1. /\ version'.value = version.value + 1
        /\ version'.definition = version.definition + (IF column = "definition" THEN 1 ELSE 0)
        /\ version' \in Numbers /\ entries' = {}
        /\ UNCHANGED <<stored, known, reader, overtaken>>
        /\ admin' \in [kind : {"none", "value", "definition"}, edit : Nat] /\ edits' \in Nat
    BY <1>4 DEF AdminSaves, Edits, Ordered, Numbers
  <2>2. Ordered'
    BY <2>1 DEF Ordered, Numbers
  <2>3. \A p \in Readers : reader'[p].of # version'.value
    BY <2>1 DEF Ordered, Numbers
  <2>4. ASSUME NEW p \in Readers
        PROVE  KnownOK(p)'
    BY <2>1 DEF Ordered, Numbers, KnownOK
  <2> QED
    BY <2>1, <2>2, <2>3, <2>4 DEF EntryOK, ReaderOK
<1>5. CASE AdminCommits
  <2>1. overtaken' = version /\ UNCHANGED <<version, entries, known, reader, pageAt, edits>>
    BY <1>5 DEF AdminCommits
  <2>2. Ordered'
    BY <1>5 DEF AdminCommits, NoEdit, Ordered, Numbers
  <2> QED
    BY <2>1, <2>2 DEF EntryOK, KnownOK, ReaderOK, ValueCause, DefinitionCause
<1> QED
  BY <1>1, <1>2, <1>3, <1>4, <1>5

\* Nobody is answered from an outdated entry, or by an outdated definition, under the current
\* version, unless the settings page is between its commit and its new version or the admin
\* replaced the version before its transaction committed.
THEOREM OutdatedHasCause == SettingsSpec => []StaleHasCause
<1>1. SettingsInit => StaleInv
  BY StaleInit
<1>2. StaleInv /\ [SettingsNext]_stvars => StaleInv'
  <2> SUFFICES ASSUME StaleInv, [SettingsNext]_stvars
               PROVE  StaleInv'
    OBVIOUS
  <2>1. CASE UNCHANGED stvars
    BY <2>1 DEF stvars, StaleInv, Ordered, Numbers, EntryOK, KnownOK, ReaderOK, ValueCause,
       DefinitionCause
  <2> QED
    BY <2>1, ReadKeeps, EditKeeps DEF SettingsNext
<1>3. StaleInv => StaleHasCause
  BY DEF StaleInv, EntryOK, KnownOK, StaleHasCause, ValueCause, DefinitionCause
<1> QED
  BY <1>1, <1>2, <1>3, PTL DEF SettingsSpec

-----------------------------------------------------------------------------
(* The windows of SnapshotBroadcast: what the first of a set of keys are.    *)

LEMMA LeastKey ==
  ASSUME NEW T, T \subseteq Nat, T # {}
  PROVE  \E n \in T : \A m \in T : n <= m
<1>1. PICK n \in T : \A m \in T : ~(<<m, n>> \in OpToRel(<, Nat))
  BY NatLessThanWellFounded, WFMin
<1>2. ASSUME NEW m \in T, m < n
      PROVE  FALSE
  <2>1. <<m, n>> \in OpToRel(<, Nat)
    BY <1>2 DEF OpToRel
  <2> QED
    BY <1>1, <2>1
<1>3. \A m \in T : n <= m
  BY <1>2
<1> QED
  BY <1>3

\* The keys of a set before one of them.
Before(S, d) == {e \in S : e < d}

LEMMA BeforeFinite ==
  ASSUME NEW S, IsFiniteSet(S), NEW d
  PROVE  /\ IsFiniteSet(Before(S, d)) /\ Cardinality(Before(S, d)) \in Nat
         /\ Before(S, d) \subseteq S
<1>1. Before(S, d) \subseteq S
  BY DEF Before
<1> QED
  BY <1>1, FS_Subset, FS_CardinalityType

\* With a key, its predecessors are among the first.
LEMMA FirstClosed ==
  ASSUME NEW S, S \subseteq Nat, IsFiniteSet(S), NEW k \in Nat,
         NEW e \in First(S, k), NEW d \in S, d <= e
  PROVE  d \in First(S, k)
<1>1. Before(S, d) \subseteq Before(S, e)
  <2>1. ASSUME NEW x \in S, x < d
        PROVE  x < e
    <3>1. x \in Nat /\ d \in Nat /\ e \in Nat
      BY DEF First
    <3> QED
      BY <2>1, <3>1
  <2> QED
    BY <2>1 DEF Before
<1>2. IsFiniteSet(Before(S, e)) /\ Cardinality(Before(S, e)) \in Nat
      /\ Cardinality(Before(S, d)) \in Nat
  BY BeforeFinite
<1>3. Cardinality(Before(S, d)) <= Cardinality(Before(S, e))
  BY <1>1, <1>2, FS_Subset
<1>4. Cardinality(Before(S, e)) < k
  BY DEF First, Before
<1>5. Cardinality(Before(S, d)) < k
  BY <1>2, <1>3, <1>4
<1> QED
  BY <1>5 DEF First, Before

\* A set that is small enough has no other keys than its first ones.
LEMMA FirstAll ==
  ASSUME NEW S, S \subseteq Nat, IsFiniteSet(S), NEW k \in Nat, Cardinality(S) <= k
  PROVE  First(S, k) = S
<1>1. ASSUME NEW d \in S
      PROVE  d \in First(S, k)
  <2>1. Before(S, d) # S
    <3>1. d \in Nat
      OBVIOUS
    <3>2. ~(d < d)
      BY <3>1
    <3> QED
      BY <3>2 DEF Before
  <2>2. /\ Cardinality(Before(S, d)) \in Nat /\ Cardinality(S) \in Nat
        /\ Cardinality(Before(S, d)) <= Cardinality(S)
        /\ Cardinality(Before(S, d)) # Cardinality(S)
    BY <2>1, BeforeFinite, FS_Subset, FS_CardinalityType
  <2>3. Cardinality(Before(S, d)) < k
    BY <2>2
  <2> QED
    BY <2>3 DEF First, Before
<1> QED
  BY <1>1 DEF First

\* Where fewer than k keys are taken none is left.
LEMMA FirstFew ==
  ASSUME NEW S, S \subseteq Nat, IsFiniteSet(S), NEW k \in Nat,
         Cardinality(First(S, k)) < k
  PROVE  First(S, k) = S
<1> SUFFICES ASSUME S \ First(S, k) # {}
             PROVE  FALSE
  BY DEF First
<1>1. PICK d \in S \ First(S, k) : \A m \in S \ First(S, k) : d <= m
  BY LeastKey
<1>2. Before(S, d) \subseteq First(S, k)
  <2>1. ASSUME NEW e \in S, e < d, e \notin First(S, k)
        PROVE  FALSE
    <3>1. d <= e /\ d \in Nat /\ e \in Nat
      BY <1>1, <2>1
    <3> QED
      BY <2>1, <3>1
  <2> QED
    BY <2>1 DEF Before
<1>3. IsFiniteSet(First(S, k))
  <2>1. First(S, k) \subseteq S
    BY DEF First
  <2> QED
    BY <2>1, FS_Subset
<1>4. /\ Cardinality(Before(S, d)) <= Cardinality(First(S, k))
      /\ Cardinality(First(S, k)) \in Nat /\ Cardinality(Before(S, d)) \in Nat
  BY <1>2, <1>3, BeforeFinite, FS_Subset, FS_CardinalityType
<1>5. Cardinality(Before(S, d)) < k
  BY <1>4
<1> QED
  BY <1>1, <1>5 DEF First, Before

\* A nonempty window has a last key.
LEMMA LastIsLast ==
  ASSUME NEW S, S \subseteq Nat, IsFiniteSet(S), S # {}
  PROVE  LastOf(S) \in S /\ \A e \in S : e <= LastOf(S)
<1> DEFINE Count(d) == Cardinality({e \in S : e > d})
<1>1. \A d \in S : IsFiniteSet({e \in S : e > d}) /\ Count(d) \in Nat
  BY FS_Subset, FS_CardinalityType
<1>2. PICK d \in S : \A e \in S : Count(d) <= Count(e)
  <2> DEFINE T == {Count(e) : e \in S}
  <2>1. T \subseteq Nat /\ T # {}
    BY <1>1
  <2> HIDE DEF Count
  <2>2. PICK n \in T : \A m \in T : n <= m
    BY <2>1, LeastKey
  <2> QED
    BY <2>2
<1>3. ASSUME NEW e \in S, e > d
      PROVE  FALSE
  <2>1. d \in Nat /\ e \in Nat
    OBVIOUS
  <2>2. \A m \in S : m > e => m > d
    <3>1. ASSUME NEW m \in S, m > e
          PROVE  m > d
      <4>1. m \in Nat
        OBVIOUS
      <4> QED
        BY <1>3, <2>1, <3>1, <4>1
    <3> QED
      BY <3>1
  <2>3. {m \in S : m > e} \subseteq {m \in S : m > d}
    BY <2>2
  <2>4. e \in {m \in S : m > d} /\ e \notin {m \in S : m > e}
    <3>1. ~(e > e)
      BY <2>1
    <3> QED
      BY <1>3, <3>1
  <2>5. Count(e) <= Count(d) /\ Count(e) # Count(d)
    BY <1>1, <2>3, <2>4, FS_Subset
  <2>6. Count(d) <= Count(e) /\ Count(d) \in Nat /\ Count(e) \in Nat
    BY <1>1, <1>2
  <2> HIDE DEF Count
  <2> QED
    BY <2>5, <2>6
<1>4. \A e \in S : e <= d
  <2>1. ASSUME NEW e \in S
        PROVE  e <= d
    <3>1. e \in Nat /\ d \in Nat /\ ~(e > d)
      BY <1>3
    <3> QED
      BY <3>1
  <2> QED
    BY <2>1
<1> QED
  BY <1>4 DEF LastOf

\* The cursor of a window that is not the last is the last key that is sent.
LEMMA WindowCursor ==
  ASSUME NEW fetched, fetched \subseteq Nat, IsFiniteSet(fetched), Cardinality(fetched) > MaxRows
  PROVE  /\ GoesOnAfter(fetched) \in First(fetched, MaxRows)
         /\ \A e \in First(fetched, MaxRows) : e <= GoesOnAfter(fetched)
<1> DEFINE sent == First(fetched, MaxRows)
<1>0. MaxRows \in Nat \ {0} /\ Cardinality(fetched) \in Nat
  BY WindowAssumption, FS_CardinalityType
<1>1. sent \subseteq Nat /\ IsFiniteSet(sent)
  <2>1. sent \subseteq fetched
    BY DEF First
  <2> QED
    BY <2>1, FS_Subset
<1>2. sent # {}
  <2>1. fetched # {}
    BY <1>0, FS_EmptySet
  <2>2. PICK n \in fetched : \A m \in fetched : n <= m
    BY <2>1, LeastKey
  <2>3. Before(fetched, n) = {}
    <3>1. ASSUME NEW m \in fetched, m < n
          PROVE  FALSE
      <4>1. n <= m /\ n \in Nat /\ m \in Nat
        BY <2>2
      <4> QED
        BY <3>1, <4>1
    <3> QED
      BY <3>1 DEF Before
  <2>4. Cardinality({e \in fetched : e < n}) = 0
    BY <2>3, FS_EmptySet DEF Before
  <2> QED
    BY <1>0, <2>4 DEF First
<1> HIDE DEF sent
<1>3. LastOf(sent) \in sent /\ \A e \in sent : e <= LastOf(sent)
  BY <1>1, <1>2, LastIsLast
<1>4. GoesOnAfter(fetched) = LastOf(sent)
  BY DEF GoesOnAfter, sent
<1> QED
  BY <1>3, <1>4 DEF sent

\* The window that is sent and the cursor to go on from leave nothing out: what is not among
\* the rows fetched comes after the cursor.
LEMMA WindowLeavesNone ==
  ASSUME NEW S, S \subseteq Nat \ {0}, IsFiniteSet(S), NEW fetched, fetched = First(S, MaxRows + 1),
         NEW d \in S
  PROVE  \/ d \in First(fetched, MaxRows)
         \/ GoesOnAfter(fetched) # 0 /\ d > GoesOnAfter(fetched)
<1>0. MaxRows \in Nat \ {0} /\ MaxRows + 1 \in Nat
  BY WindowAssumption
<1>1. fetched \subseteq S /\ fetched \subseteq Nat /\ IsFiniteSet(fetched) /\ Cardinality(fetched) \in Nat
  <2>1. fetched \subseteq S
    BY DEF First
  <2> QED
    BY <2>1, FS_Subset, FS_CardinalityType
<1>2. CASE Cardinality(fetched) <= MaxRows
  <2>1. fetched = S
    <3>1. Cardinality(First(S, MaxRows + 1)) < MaxRows + 1
      BY <1>0, <1>1, <1>2
    <3> QED
      BY <1>0, <3>1, FirstFew
  <2>2. First(fetched, MaxRows) = fetched
    BY <1>0, <1>1, <1>2, FirstAll
  <2> QED
    BY <2>1, <2>2
<1>3. CASE Cardinality(fetched) > MaxRows
  <2> DEFINE sent == First(fetched, MaxRows)
  <2>1. sent \subseteq fetched /\ sent \subseteq Nat
    BY <1>1 DEF First
  <2>2. GoesOnAfter(fetched) \in sent
    BY <1>1, <1>3, WindowCursor
  <2> HIDE DEF sent
  <2>4. GoesOnAfter(fetched) # 0 /\ GoesOnAfter(fetched) \in Nat /\ d \in Nat
    BY <1>1, <2>1, <2>2
  <2>5. ASSUME d \notin sent
        PROVE  ~(d <= GoesOnAfter(fetched))
    <3>1. CASE d \in fetched
      BY <1>0, <1>1, <2>2, <2>5, <3>1, FirstClosed DEF sent
    <3>2. CASE d \notin fetched
      <4>1. GoesOnAfter(fetched) \in First(S, MaxRows + 1)
        BY <2>1, <2>2
      <4> QED
        BY <1>0, <3>2, <4>1, FirstClosed
    <3> QED
      BY <3>1, <3>2
  <2> QED
    BY <2>4, <2>5 DEF sent
<1> QED
  BY <1>0, <1>1, <1>2, <1>3

-----------------------------------------------------------------------------
(* The batches of a snapshot join.                                           *)

\* What a snapshot still owes an invocation that sends it.
CastOK(c) ==
  IF cast[c].at = "idle" THEN cast[c].snapshot = NoSnapshot
  ELSE /\ cast[c].snapshot \in Snapshots
       /\ cast[c].at = "write" => cast[c].rows = {}
       /\ \A d \in owed[cast[c].snapshot] :
            \/ d \in cast[c].rows
            \/ cast[c].then # 0 /\ d > cast[c].then

\* What it owes whoever goes on behind the cursor.
ResumeOK ==
  resume.after # 0 =>
    /\ resume.snapshot \in Snapshots
    /\ \A d \in owed[resume.snapshot] : d > resume.after

\* Only chassis that are listed are owed, and all of them lie ahead of those who send them.
JoinInv ==
  /\ BroadcastTypeOK
  /\ \A s \in Snapshots : owed[s] \subseteq listed
  /\ ResumeOK
  /\ \A c \in Casts : CastOK(c)

LEMMA JoinInit == BroadcastInit => JoinInv
<1> SUFFICES ASSUME BroadcastInit
             PROVE  JoinInv
  OBVIOUS
<1>1. BroadcastTypeOK
  BY DEF BroadcastInit, BroadcastTypeOK, Cursor, Fresh, Away
<1> QED
  BY <1>1 DEF BroadcastInit, JoinInv, ResumeOK, CastOK, Fresh, Away

\* Of a snapshot in use something is dropped at most, of one that is not everything.
LEMMA SettlesLess ==
  ASSUME NEW owing \in [Snapshots -> SUBSET Chassis], Settles(owing)
  PROVE  /\ owed' \in [Snapshots -> SUBSET Chassis]
         /\ \A s \in Snapshots : owed'[s] \subseteq owing[s]
  BY DEF Settles

\* To owe less disturbs nobody.
LEMMA OwingLessKeeps ==
  ASSUME BroadcastTypeOK, NEW c \in Casts, CastOK(c),
         cast'[c] = cast[c],
         cast[c].snapshot \in Snapshots =>
           owed'[cast[c].snapshot] \subseteq owed[cast[c].snapshot]
  PROVE  CastOK(c)'
  BY DEF CastOK

\* An identifier that nothing refers to is there for every snapshot that begins.
LEMMA SpareSnapshot ==
  ASSUME JoinInv, NEW c \in Casts, cast[c].at = "idle"
  PROVE  \E s \in Snapshots : s \notin InUse
<1> DEFINE others == Casts \ {c}
           used == {cast[a].snapshot : a \in others}
<1>1. IsFiniteSet(Casts) /\ IsFiniteSet(Snapshots) /\ Cardinality(Snapshots) > Cardinality(Casts)
  BY CastsAssumption
<1>2. IsFiniteSet(others) /\ Cardinality(others) = Cardinality(Casts) - 1
  BY <1>1, FS_RemoveElement
<1>3. IsFiniteSet(used) /\ Cardinality(used) <= Cardinality(others)
  <2> DEFINE of == [a \in others |-> cast[a].snapshot]
  <2>1. of \in Surjection(others, used)
    BY DEF Surjection
  <2> HIDE DEF of, used, others
  <2> QED
    BY <1>2, <2>1, FS_Surjection
<1> HIDE DEF used, others
<1> DEFINE all == used \cup {resume.snapshot}
<1>4. IsFiniteSet(all) /\ Cardinality(all) <= Cardinality(used) + 1
  BY <1>3, FS_AddElement, FS_CardinalityType
<1>5. Cardinality(all) < Cardinality(Snapshots)
  BY <1>1, <1>2, <1>3, <1>4, FS_CardinalityType
<1>6. ~(Snapshots \subseteq all)
  BY <1>1, <1>4, <1>5, FS_Subset, FS_CardinalityType
<1>7. PICK s \in Snapshots : s \notin all
  BY <1>6
<1>8. cast[c].snapshot = NoSnapshot /\ s # NoSnapshot
  BY CastsAssumption DEF JoinInv, CastOK
<1>9. s \notin InUse
  BY <1>7, <1>8 DEF InUse, used, others
<1> QED
  BY <1>9

\* An invocation that loads the cursor, or misses it, is owed nothing that it has not got and
\* does not leave to the one after it.
LEMMA LoadKeeps ==
  ASSUME JoinInv, NEW c \in Casts, NEW from \in {resume, Fresh}, Load(c, from)
  PROVE  JoinInv'
<1> DEFINE ahead == {d \in listed : d > from.after}
           behind == First(ahead, MaxRows + 1)
           over == from.after = 0 \/ behind = {}
           fetched == IF over THEN First(listed, MaxRows + 1) ELSE behind
           snapshot == IF over THEN CHOOSE s \in Snapshots : s \notin InUse
                       ELSE from.snapshot
           owing == IF over THEN [owed EXCEPT ![snapshot] = listed] ELSE owed
           state == [at |-> "send", snapshot |-> snapshot,
                     rows |-> First(fetched, MaxRows), then |-> GoesOnAfter(fetched)]
<1>1. /\ cast[c].at = "idle" /\ cast' = [cast EXCEPT ![c] = state]
      /\ UNCHANGED <<listed, resume>> /\ Settles(owing)
  BY Zenon DEF Load
<1>2. /\ listed \subseteq Nat \ {0} /\ IsFiniteSet(listed) /\ listed \subseteq Chassis
      /\ ahead \subseteq listed /\ IsFiniteSet(ahead)
      /\ MaxRows \in Nat /\ MaxRows + 1 \in Nat
  <2>1. listed \subseteq Chassis /\ Chassis \subseteq Nat \ {0} /\ IsFiniteSet(Chassis)
    BY WindowAssumption DEF JoinInv, BroadcastTypeOK
  <2>2. IsFiniteSet(listed) /\ ahead \subseteq listed
    BY <2>1, FS_Subset
  <2> QED
    BY <2>1, <2>2, FS_Subset, WindowAssumption
<1>3. fetched \subseteq listed /\ IsFiniteSet(fetched)
      /\ (over => fetched = First(listed, MaxRows + 1)) /\ (~over => fetched = First(ahead, MaxRows + 1))
  <2>1. fetched \subseteq listed
    BY <1>2 DEF First
  <2> QED
    BY <1>2, <2>1, FS_Subset
<1>4. over => snapshot \in Snapshots /\ snapshot \notin InUse
  BY <1>1, SpareSnapshot
<1>5. ~over => from = resume /\ resume.after # 0 /\ snapshot = resume.snapshot
              /\ snapshot \in Snapshots /\ owing = owed
              /\ \A d \in owed[snapshot] : d \in ahead
  <2>1. ~over => from # Fresh
    BY DEF Fresh
  <2>2. ~over => from = resume /\ resume.after # 0 /\ snapshot = resume.snapshot /\ owing = owed
    BY <2>1
  <2> QED
    BY <2>2 DEF JoinInv, ResumeOK
<1>6. over => owing = [owed EXCEPT ![snapshot] = listed]
  OBVIOUS
<1>7. GoesOnAfter(fetched) \in Chassis \cup {0}
  <2>1. CASE Cardinality(fetched) > MaxRows
    <3>1. GoesOnAfter(fetched) \in First(fetched, MaxRows)
      BY <1>2, <1>3, <2>1, WindowCursor
    <3> QED
      BY <1>2, <1>3, <3>1 DEF First
  <2>2. CASE ~(Cardinality(fetched) > MaxRows)
    BY <2>2 DEF GoesOnAfter
  <2> QED
    BY <2>1, <2>2
<1>8. snapshot \in Snapshots
  BY <1>4, <1>5
<1>9. ASSUME NEW d \in owing[snapshot]
      PROVE  \/ d \in First(fetched, MaxRows)
             \/ GoesOnAfter(fetched) # 0 /\ d > GoesOnAfter(fetched)
  <2>1. CASE over
    <3>1. d \in listed
      BY <1>4, <1>6, <1>9, <2>1 DEF JoinInv, BroadcastTypeOK
    <3> QED
      BY <1>2, <1>3, <2>1, <3>1, WindowLeavesNone
  <2>2. CASE ~over
    <3>1. d \in ahead /\ ahead \subseteq Nat \ {0}
      BY <1>2, <1>5, <1>9, <2>2
    <3> QED
      BY <1>2, <1>3, <2>2, <3>1, WindowLeavesNone
  <2> QED
    BY <2>1, <2>2
<1>10. /\ owing \in [Snapshots -> SUBSET Chassis]
       /\ \A s \in Snapshots : owing[s] \subseteq listed
       /\ \A s \in Snapshots : s # snapshot \/ ~over => owing[s] = owed[s]
  BY <1>2, <1>5, <1>6 DEF JoinInv, BroadcastTypeOK
<1>11. First(fetched, MaxRows) \subseteq Chassis
  BY <1>2, <1>3 DEF First
<1> HIDE DEF owing, snapshot, fetched, over, behind, ahead
<1>12. /\ owed' \in [Snapshots -> SUBSET Chassis]
       /\ \A s \in Snapshots : owed'[s] \subseteq owing[s]
  BY <1>1, <1>10, SettlesLess
<1>13. BroadcastTypeOK'
  BY <1>1, <1>7, <1>8, <1>11, <1>12 DEF JoinInv, BroadcastTypeOK
<1>14. ResumeOK'
  <2>1. ASSUME resume.after # 0
        PROVE  resume.snapshot # snapshot \/ ~over
    BY <1>4 DEF InUse
  <2> QED
    BY <1>1, <1>10, <1>12, <2>1 DEF JoinInv, ResumeOK
<1>15. ASSUME NEW b \in Casts
       PROVE  CastOK(b)'
  <2>1. CASE b = c
    <3>1. cast'[b] = state
      BY <1>1, <2>1 DEF JoinInv, BroadcastTypeOK
    <3>2. /\ cast'[b].at = "send" /\ cast'[b].snapshot = snapshot
          /\ cast'[b].rows = First(fetched, MaxRows) /\ cast'[b].then = GoesOnAfter(fetched)
      BY <3>1
    <3>3. owed'[snapshot] \subseteq owing[snapshot]
      BY <1>8, <1>12
    <3>4. \A d \in owed'[snapshot] :
            \/ d \in First(fetched, MaxRows)
            \/ GoesOnAfter(fetched) # 0 /\ d > GoesOnAfter(fetched)
      BY <1>9, <3>3
    <3>5. \A d \in owed'[cast'[b].snapshot] :
            \/ d \in cast'[b].rows
            \/ cast'[b].then # 0 /\ d > cast'[b].then
      BY <3>2, <3>4
    <3>6. cast'[b].at # "idle" /\ cast'[b].at # "write" /\ cast'[b].snapshot \in Snapshots
      BY <1>8, <3>2
    <3> QED
      BY <3>5, <3>6 DEF CastOK
  <2>2. CASE b # c
    <3>1. cast'[b] = cast[b] /\ CastOK(b) /\ BroadcastTypeOK
      BY <1>1, <2>2 DEF JoinInv, BroadcastTypeOK
    <3>2. cast[b].snapshot # snapshot \/ ~over
      BY <1>4 DEF InUse
    <3>3. cast[b].snapshot \in Snapshots => owed'[cast[b].snapshot] \subseteq owed[cast[b].snapshot]
      BY <1>10, <1>12, <3>2
    <3> QED
      BY <3>1, <3>3, OwingLessKeeps
  <2> QED
    BY <2>1, <2>2
<1>16. \A s \in Snapshots : owed'[s] \subseteq listed'
  BY <1>1, <1>10, <1>12
<1> QED
  BY <1>13, <1>14, <1>15, <1>16 DEF JoinInv

\* A chunk is no longer owed; the last one leaves nothing to send.
LEMMA SendKeeps ==
  ASSUME JoinInv, NEW c \in Casts, SendChunk(c)
  PROVE  JoinInv'
<1> DEFINE chunk == First(cast[c].rows, ChunkSize)
           snapshot == cast[c].snapshot
<1>1. /\ cast[c].at = "send" /\ UNCHANGED <<listed, resume>>
      /\ cast' = [cast EXCEPT ![c].rows = @ \ chunk,
                              ![c].at = IF chunk = cast[c].rows THEN "write" ELSE "send"]
      /\ owed' = [owed EXCEPT ![snapshot] = @ \ chunk]
  BY DEF SendChunk
<1>2. BroadcastTypeOK /\ snapshot \in Snapshots
  BY <1>1 DEF JoinInv, CastOK
<1> HIDE DEF chunk
<1>3. /\ owed' \in [Snapshots -> SUBSET Chassis]
      /\ \A s \in Snapshots : owed'[s] = IF s = snapshot THEN owed[s] \ chunk ELSE owed[s]
  BY <1>1, <1>2 DEF BroadcastTypeOK
<1>4. /\ cast'[c].snapshot = snapshot /\ cast'[c].then = cast[c].then
      /\ cast'[c].rows = cast[c].rows \ chunk /\ cast'[c].at \in {"send", "write"}
      /\ cast'[c].at = "write" => cast[c].rows = chunk
  BY <1>1, <1>2 DEF BroadcastTypeOK
<1>5. BroadcastTypeOK'
  <2> DEFINE goesOn == [cast[c] EXCEPT !.rows = @ \ chunk,
                                       !.at = IF chunk = cast[c].rows THEN "write" ELSE "send"]
  <2>1. cast' = [cast EXCEPT ![c] = goesOn]
    BY <1>1, <1>2 DEF BroadcastTypeOK
  <2>2. goesOn \in [at : {"idle", "send", "write"}, snapshot : Snapshots \cup {NoSnapshot},
                    rows : SUBSET Chassis, then : Chassis \cup {0}]
    BY <1>2 DEF BroadcastTypeOK
  <2> HIDE DEF goesOn
  <2>3. cast' \in [Casts -> [at : {"idle", "send", "write"},
                             snapshot : Snapshots \cup {NoSnapshot},
                             rows : SUBSET Chassis, then : Chassis \cup {0}]]
    BY <1>2, <2>1, <2>2 DEF BroadcastTypeOK
  <2> QED
    BY <1>1, <1>2, <1>3, <2>3 DEF BroadcastTypeOK
<1>6. ResumeOK'
  BY <1>1, <1>3 DEF JoinInv, ResumeOK
<1>7. ASSUME NEW b \in Casts
      PROVE  CastOK(b)'
  <2>1. CASE b = c
    BY <1>1, <1>2, <1>3, <1>4, <2>1 DEF JoinInv, CastOK
  <2>2. CASE b # c
    <3>1. cast'[b] = cast[b]
      BY <1>1, <1>2, <2>2 DEF BroadcastTypeOK
    <3> QED
      BY <1>2, <1>3, <3>1, OwingLessKeeps DEF JoinInv
  <2> QED
    BY <2>1, <2>2
<1>8. \A s \in Snapshots : owed'[s] \subseteq listed'
  BY <1>1, <1>3 DEF JoinInv
<1> QED
  BY <1>5, <1>6, <1>7, <1>8 DEF JoinInv

\* Who goes on behind the cursor owes what its writer has left.
LEMMA LeaveKeeps ==
  ASSUME JoinInv, NEW c \in Casts, WriteResume(c) \/ CastFails(c)
  PROVE  JoinInv'
<1>1. /\ cast[c].at # "idle" /\ cast' = [cast EXCEPT ![c] = Away] /\ UNCHANGED listed
      /\ Settles(owed)
      /\ \/ UNCHANGED resume
         \/ resume' = Fresh
         \/ /\ cast[c].at = "write" /\ cast[c].then # 0
            /\ resume' = [after |-> cast[c].then, snapshot |-> cast[c].snapshot]
  BY DEF WriteResume, CastFails
<1>2. BroadcastTypeOK /\ CastOK(c) /\ ResumeOK
  BY DEF JoinInv
<1>3. /\ owed' \in [Snapshots -> SUBSET Chassis]
      /\ \A s \in Snapshots : owed'[s] \subseteq owed[s]
  <2>1. owed \in [Snapshots -> SUBSET Chassis]
    BY <1>2 DEF BroadcastTypeOK
  <2> QED
    BY <1>1, <2>1, SettlesLess
<1>4. resume' \in Cursor
  BY <1>1, <1>2 DEF BroadcastTypeOK, Cursor, Fresh
<1>5. BroadcastTypeOK'
  BY <1>1, <1>2, <1>3, <1>4 DEF BroadcastTypeOK, Away
<1>6. ResumeOK'
  BY <1>1, <1>2, <1>3 DEF ResumeOK, CastOK, Fresh
<1>7. ASSUME NEW b \in Casts
      PROVE  CastOK(b)'
  <2>1. CASE b = c
    BY <1>1, <1>2, <2>1 DEF BroadcastTypeOK, CastOK, Away
  <2>2. CASE b # c
    <3>1. cast'[b] = cast[b]
      BY <1>1, <1>2, <2>2 DEF BroadcastTypeOK
    <3> QED
      BY <1>2, <1>3, <3>1, OwingLessKeeps DEF JoinInv
  <2> QED
    BY <2>1, <2>2
<1>8. \A s \in Snapshots : owed'[s] \subseteq listed'
  BY <1>1, <1>3 DEF JoinInv
<1> QED
  BY <1>5, <1>6, <1>7, <1>8 DEF JoinInv

LEMMA ListKeeps ==
  ASSUME JoinInv, ChangeListed
  PROVE  JoinInv'
<1>1. PICK d \in Chassis :
        /\ listed' = IF d \in listed THEN listed \ {d} ELSE listed \cup {d}
        /\ owed' = [s \in Snapshots |-> owed[s] \ {d}]
        /\ UNCHANGED <<resume, cast>>
  BY DEF ChangeListed
<1>2. BroadcastTypeOK
  BY DEF JoinInv
<1>3. BroadcastTypeOK'
  BY <1>1, <1>2 DEF BroadcastTypeOK
<1>4. \A s \in Snapshots : owed'[s] \subseteq owed[s] /\ owed'[s] \subseteq listed'
  BY <1>1 DEF JoinInv
<1>5. ResumeOK'
  BY <1>1, <1>4 DEF JoinInv, ResumeOK
<1>6. \A b \in Casts : CastOK(b)'
  BY <1>1, <1>2, <1>4, OwingLessKeeps DEF JoinInv
<1> QED
  BY <1>3, <1>4, <1>5, <1>6 DEF JoinInv

LEMMA JoinStep == JoinInv /\ [BroadcastNext]_bvars => JoinInv'
<1> SUFFICES ASSUME JoinInv, [BroadcastNext]_bvars
             PROVE  JoinInv'
  OBVIOUS
<1>1. CASE UNCHANGED bvars
  <2>1. UNCHANGED <<listed, resume, cast, owed>>
    BY <1>1 DEF bvars
  <2>2. \A c \in Casts : CastOK(c)'
    BY <2>1 DEF JoinInv, CastOK
  <2> QED
    BY <2>1, <2>2 DEF JoinInv, BroadcastTypeOK, ResumeOK
<1> QED
  BY <1>1, LoadKeeps, SendKeeps, LeaveKeeps, ListKeeps DEF BroadcastNext

\* A snapshot that is declared complete has delivered every chassis that was listed all the time,
\* however many invocations of the broadcast shared its cursor, lost it or died on the way.
THEOREM CompleteSnapshotsOweNothing == BroadcastSpec => []SnapshotsJoin
<1>1. JoinInv => SnapshotsJoin
  BY DEF JoinInv, CastOK, SnapshotsJoin
<1> QED
  BY <1>1, JoinInit, JoinStep, PTL DEF BroadcastSpec

\* The state of the broadcast has its types: a cursor is the key of a chassis or none, and an
\* invocation holds chassis only.
THEOREM BroadcastTypeCorrect == BroadcastSpec => []BroadcastTypeOK
<1>1. JoinInv => BroadcastTypeOK
  BY DEF JoinInv
<1> QED
  BY <1>1, JoinInit, JoinStep, PTL DEF BroadcastSpec

-----------------------------------------------------------------------------
(* The services around discovery. *)

\* A behaviour of the services is one of each of them: those whose tasks do not run stutter.
LEMMA DiscoveryInitial == DiscoveryInit => RInit /\ SettingsInit /\ BroadcastInit /\ Init
BY DEF DiscoveryInit

LEMMA DiscoverySteps ==
  ASSUME [DiscoveryNext]_<<rvars, stvars, bvars, avars, service>>
  PROVE  [RNext]_rvars /\ [SettingsNext]_stvars /\ [BroadcastNext]_bvars /\ [Next]_avars
<1>1. CASE DiscoveryNext
  <2>1. [RNext]_rvars
    BY <1>1 DEF DiscoveryNext
  <2>2. [SettingsNext]_stvars
    BY <1>1 DEF DiscoveryNext
  <2>3. [BroadcastNext]_bvars
    BY <1>1 DEF DiscoveryNext
  <2>4. [Next]_avars
    BY <1>1 DEF DiscoveryNext
  <2> QED BY <2>1, <2>2, <2>3, <2>4
<1>2. CASE UNCHANGED <<rvars, stvars, bvars, avars, service>>
  BY <1>2
<1> QED BY <1>1, <1>2

(* A behaviour of the composition is one of each service: claimed discoveries, *)
(* settings, broadcasts and alerts share no row and no cache key, so where one *)
(* of them moves the others rest, and what is proved of one holds here.        *)
THEOREM ServicesApart == DiscoverySpec => RSpec /\ SettingsSpec /\ BroadcastSpec /\ Spec
BY DiscoveryInitial, DiscoverySteps, PTL DEF DiscoverySpec, RSpec, SettingsSpec, BroadcastSpec, Spec

(* The types of all four, and with them the budgets of the alerts.             *)
THEOREM DiscoveryTypeCorrect == DiscoverySpec => []DiscoveryTypeOK
<1>1. TypeOK /\ SettingsTypeOK /\ BroadcastTypeOK /\ AlertsTypeOK => DiscoveryTypeOK
  BY DEF DiscoveryTypeOK
<1> QED BY <1>1, ServicesApart, TypeCorrect, SettingsTypeCorrect, BroadcastTypeCorrect, AlertTypes, PTL

(* What the jobs, the settings, the broadcast and the alerts promise holds of  *)
(* the four together; what a successful run means, if the client reports its   *)
(* errors.                                                                     *)
THEOREM DiscoveryIsSafe ==
  DiscoverySpec => /\ []DiscoveryTypeOK
                   /\ []ExclusiveWork
                   /\ []StaleHasCause
                   /\ []SnapshotsJoin
                   /\ []NoDuplicates
                   /\ SettledStays
                   /\ VerdictFinal
                   /\ ClaimIsLease
                   /\ (Honest => SuccessMeansReconciled)
<1>1. Honest => (RSpec => SuccessMeansReconciled)
  BY SuccessIsReconciled
<1> QED
  BY <1>1, ServicesApart, DiscoveryTypeCorrect, WorkIsExclusive, OutdatedHasCause,
     CompleteSnapshotsOweNothing, AlertsAreUnique, SettlementLasts, VerdictsStay, ClaimsAreLeases, PTL
=============================================================================
