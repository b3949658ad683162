---------------------------- MODULE SettingsCache ----------------------------
(***************************************************************************)
(* The value of one setting, as the registry answers it from the shared    *)
(* cache.  The key of an entry carries a version that every edit replaces; *)
(* the definition of the setting is kept by each process under a version   *)
(* of its own and never expires.  The settings page commits and then       *)
(* replaces the version; the admin replaces the versions inside the        *)
(* transaction that Django's change view commits later.                    *)
(***************************************************************************)
EXTENDS Integers

CONSTANTS
  Readers,  \* processes that read the setting
  MaxEdits  \* bounds the edits

ASSUME EditsAssumption == MaxEdits \in Nat

VARIABLES
  stored,    \* the committed value and definition, as numbers of edits
  version,   \* their versions in the shared cache; a token is never used twice
  entries,   \* the entry under the current version, if any, in a set
  known,     \* the definition that each process keeps
  reader,    \* where each reader is and what it has read
  pageAt,    \* where the settings page is
  admin,     \* what the admin's open transaction has edited
  overtaken, \* history: the versions that were there when the admin last committed
  edits      \* edits so far

stvars == <<stored, version, entries, known, reader, pageAt, admin, overtaken, edits>>

Both == [value : 0 .. MaxEdits, definition : 0 .. MaxEdits]

None == [value |-> 0, definition |-> 0]

Untouched == [of |-> 0, definition |-> 0]

SettingsTypeOK ==
  /\ stored \in Both /\ version \in Both
  /\ entries \in {{}} \cup {{e} : e \in Both}
  /\ known \in [Readers -> [of : 0 .. MaxEdits, definition : 0 .. MaxEdits]]
  /\ reader \in [Readers -> [at : {"idle", "definition", "query", "value", "set"},
                             of : 0 .. MaxEdits, definition : 0 .. MaxEdits,
                             value : 0 .. MaxEdits]]
  /\ pageAt \in {"idle", "committed"}
  /\ admin \in [kind : {"none", "value", "definition"}, edit : 0 .. MaxEdits]
  /\ overtaken \in [value : -1 .. MaxEdits, definition : -1 .. MaxEdits]
  /\ edits \in 0 .. MaxEdits

Resting == [at |-> "idle", of |-> 0, definition |-> 0, value |-> 0]

NoEdit == [kind |-> "none", edit |-> 0]

SettingsInit ==
  /\ stored = None /\ version = None
  /\ entries = {}
  /\ known = [p \in Readers |-> Untouched]
  /\ reader = [p \in Readers |-> Resting]
  /\ pageAt = "idle"
  /\ admin = NoEdit
  /\ overtaken = [value |-> -1, definition |-> -1]
  /\ edits = 0

\* Five minutes later.
EntryExpires ==
  /\ entries # {}
  /\ entries' = {}
  /\ UNCHANGED <<stored, version, known, reader, pageAt, admin, overtaken, edits>>

-----------------------------------------------------------------------------
(* A read that finds no entry under the current version.                     *)

Reads(p, from, after) ==
  /\ reader[p].at = from
  /\ reader' = [reader EXCEPT ![p] = after]
  /\ UNCHANGED <<stored, version, pageAt, admin, overtaken, edits>>

Misses(p) ==
  /\ Reads(p, "idle", [Resting EXCEPT !.at = "definition", !.of = version.value])
  /\ entries = {}
  /\ UNCHANGED <<entries, known>>

\* What the process keeps counts only under the version it was read under.
ReadDefinitionVersion(p) ==
  /\ IF known[p].of = version.definition
       THEN Reads(p, "definition", [reader[p] EXCEPT !.at = "value",
                                                     !.definition = known[p].definition])
       ELSE Reads(p, "definition", [reader[p] EXCEPT !.at = "query",
                                                     !.definition = version.definition])
  /\ UNCHANGED <<entries, known>>

QueryDefinition(p) ==
  /\ Reads(p, "query", [reader[p] EXCEPT !.at = "value", !.definition = stored.definition])
  /\ known' = [known EXCEPT ![p] = [of |-> reader[p].definition,
                                    definition |-> stored.definition]]
  /\ UNCHANGED entries

QueryValue(p) ==
  /\ Reads(p, "value", [reader[p] EXCEPT !.at = "set", !.value = stored.value])
  /\ UNCHANGED <<entries, known>>

Answer(p) == [value |-> reader[p].value, definition |-> reader[p].definition]

\* A reader that builds the key again when it stores what it has read.
BugSetEntry(p) ==
  /\ Reads(p, "set", Resting)
  /\ entries' = {Answer(p)}
  /\ UNCHANGED known

\* An entry under a version that was replaced is never found again.
SetEntry(p) ==
  /\ Reads(p, "set", Resting)
  /\ entries' = IF reader[p].of = version.value THEN {Answer(p)} ELSE entries
  /\ UNCHANGED known

-----------------------------------------------------------------------------
(* Edits.                                                                    *)

Edits ==
  /\ edits < MaxEdits
  /\ edits' = edits + 1
  /\ UNCHANGED <<known, reader>>

\* update_or_create commits by itself.
PageSaves ==
  /\ Edits
  /\ pageAt = "idle"
  /\ pageAt' = "committed"
  /\ stored' = [stored EXCEPT !.value = edits + 1]
  /\ UNCHANGED <<version, entries, admin, overtaken>>

PageInvalidates ==
  /\ pageAt = "committed"
  /\ pageAt' = "idle"
  /\ version' = [version EXCEPT !.value = @ + 1]
  /\ entries' = {}
  /\ UNCHANGED <<stored, known, reader, admin, overtaken, edits>>

\* save_model of a setting, or of a definition, whose values go with it.
AdminSaves(kind) ==
  /\ Edits
  /\ admin = NoEdit
  /\ admin' = [kind |-> kind, edit |-> edits + 1]
  /\ entries' = {}
  /\ version' = [value |-> version.value + 1,
                 definition |-> version.definition + (IF kind = "definition" THEN 1 ELSE 0)]
  /\ UNCHANGED <<stored, pageAt, overtaken>>

AdminCommits ==
  /\ admin # NoEdit
  /\ admin' = NoEdit
  /\ stored' = [stored EXCEPT ![admin.kind] = admin.edit]
  /\ overtaken' = version
  /\ UNCHANGED <<version, entries, known, reader, pageAt, edits>>

AdminRollsBack ==
  /\ admin # NoEdit
  /\ admin' = NoEdit
  /\ UNCHANGED <<stored, version, entries, known, reader, pageAt, overtaken, edits>>

-----------------------------------------------------------------------------

SettingsNext ==
  \/ EntryExpires \/ PageSaves \/ PageInvalidates
  \/ \E kind \in {"value", "definition"} : AdminSaves(kind)
  \/ AdminCommits \/ AdminRollsBack
  \/ \E p \in Readers :
       \/ Misses(p) \/ ReadDefinitionVersion(p) \/ QueryDefinition(p) \/ QueryValue(p)
       \/ SetEntry(p)

SettingsSpec == SettingsInit /\ [][SettingsNext]_stvars
-----------------------------------------------------------------------------
(* Properties. *)

(* Nobody is answered from an outdated entry, or by an outdated definition,  *)
(* under the current version, unless the settings page has yet to replace    *)
(* the version or it was replaced before the admin's transaction committed:  *)
(* a reader that is slow, or that read between a commit and the new version, *)
(* leaves nothing behind.                                                    *)
StaleHasCause ==
  /\ \A e \in entries :
       /\ e.value # stored.value =>
            pageAt = "committed" \/ overtaken.value = version.value
       /\ e.definition # stored.definition =>
            overtaken.value = version.value \/ overtaken.definition = version.definition
  /\ \A p \in Readers :
       known[p].of = version.definition /\ known[p].definition # stored.definition =>
         overtaken.definition = version.definition
=============================================================================
