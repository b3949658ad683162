----------------------- MODULE ChassisLifecycle_proofs -----------------------
(***************************************************************************)
(* What ChassisLifecycle guarantees for any number of writers and          *)
(* addresses: its types; that a retirement is final and a commit follows   *)
(* the transition table while no address changes; that the writers which   *)
(* lock the row before they read it keep is_online in step with status;    *)
(* and that all writers do, and keep maintenance, where they come one by   *)
(* one.                                                                    *)
(***************************************************************************)
EXTENDS MCChassisLifecycle, FiniteSetTheorems, SequenceTheorems, TLAPS

(* The pending transitions are never read when there are none. *)
TodoNonEmpty ==
  \A a \in Actors :
    \/ pc[a] = "transition"
    \/ pc[a] \in {"save", "update", "saved"} /\ fields[a] = "status"
    => todo[a] # << >>

TypeInv == TypeOK /\ TodoNonEmpty

LEMMA TableType ==
  ASSUME NEW s \in Statuses
  PROVE  VALID_TRANSITIONS[s] \subseteq Statuses
BY DEF Statuses, VALID_TRANSITIONS

LEMMA DiscardedType ==
  ASSUME NEW i \in Addresses
  PROVE  Discarded \in Row
BY DEF Discarded, Row, Statuses

LEMMA WithOnlineType ==
  ASSUME NEW r \in Row, NEW b \in BOOLEAN
  PROVE  [r EXCEPT !.online = b] \in Row
BY DEF Row

LEMMA RetiredHasNoTransition ==
  ASSUME NEW s \in Statuses, IsValidTransition("retired", s)
  PROVE  s = "retired"
BY DEF IsValidTransition, VALID_TRANSITIONS

LEMMA HopsType ==
  ASSUME NEW s \in Statuses, NEW t \in Statuses
  PROVE  Hops(s, t) \in Seq(Statuses)
BY DEF Hops, Statuses

LEMMA PlansType ==
  ASSUME TypeOK, NEW a \in Actors, NEW p \in Plans(a)
  PROVE  p \in Seq(Statuses)
<1>1. inst[a].status \in Statuses
  BY DEF TypeOK, Row
<1>2. << >> \in Seq(Statuses)
  OBVIOUS
<1>3. \A t \in {"online", "provisioning", "offline", "discovered"} :
        Hops(inst[a].status, t) \in Seq(Statuses)
  BY <1>1, HopsType DEF Statuses
<1>. QED
  BY <1>2, <1>3 DEF Plans

LEMMA ViewType ==
  ASSUME TypeOK, NEW a \in Actors
  PROVE  View(a) \in Row
BY DEF TypeOK, View

LEMMA WrittenType ==
  ASSUME TypeOK, NEW a \in Actors
  PROVE  Written(a) \in Row
<1>1. View(a) \in Row /\ inst[a] \in Row
  BY ViewType DEF TypeOK
<1>. DEFINE d == IF old[a] = inst[a].status THEN View(a).online ELSE inst[a].online
<1>2. d \in BOOLEAN
  BY <1>1 DEF Row
<1>3. fields[a] \in {"meta", "address", "status", "all"}
  BY DEF TypeOK
<1>. QED
  BY <1>1, <1>2, <1>3 DEF Written, Row

-----------------------------------------------------------------------------
(* Facts about the shared transaction endings. *)

LEMMA EndedTypes ==
  ASSUME TypeInv, NEW a \in Actors, Ended(a)
  PROVE  /\ task' \in [Actors -> Tasks \cup {"none"}]
         /\ pc' \in [Actors -> {"idle", "transition", "save", "update", "saved"}]
         /\ inst' \in [Actors -> Row]
         /\ fields' \in [Actors -> {"meta", "address", "status", "all"}]
         /\ old' \in [Actors -> Statuses]
         /\ todo' \in [Actors -> Seq(Statuses)]
         /\ TodoNonEmpty'
<1>1. Discarded \in Row
  BY DiscardedType DEF TypeInv, TypeOK, Row
<1>2. Discarded.status \in Statuses
  BY <1>1 DEF Row
<1>3. << >> \in Seq(Statuses)
  OBVIOUS
<1>4. /\ task' \in [Actors -> Tasks \cup {"none"}]
      /\ pc' \in [Actors -> {"idle", "transition", "save", "update", "saved"}]
      /\ inst' \in [Actors -> Row]
      /\ fields' \in [Actors -> {"meta", "address", "status", "all"}]
      /\ old' \in [Actors -> Statuses]
      /\ todo' \in [Actors -> Seq(Statuses)]
  BY <1>1, <1>2, <1>3 DEF Ended, TypeInv, TypeOK
<1>5. TodoNonEmpty'
  BY DEF Ended, TypeInv, TypeOK, TodoNonEmpty
<1>. QED
  BY <1>4, <1>5

LEMMA ReleaseTypes ==
  ASSUME TypeOK, NEW a \in Actors, Release(a)
  PROVE  /\ rowLock' \in Actors \cup {NoOne}
         /\ addressLock' \in [Addresses -> Actors \cup {NoOne}]
         /\ identityLock' \in Actors \cup {NoOne}
BY DEF Release, TypeOK

LEMMA CommitTypes ==
  ASSUME TypeOK, NEW a \in Actors, Commit(a)
  PROVE  /\ row' \in Row
         /\ draft' \in Row
         /\ rowLock' \in Actors \cup {NoOne}
         /\ addressLock' \in [Addresses -> Actors \cup {NoOne}]
         /\ identityLock' \in Actors \cup {NoOne}
BY ViewType, ReleaseTypes DEF Commit, TypeOK

LEMMA RollbackTypeInv ==
  ASSUME TypeInv, NEW a \in Actors, Rollback(a)
  PROVE  TypeInv'
<1>1. row' \in Row /\ draft' \in Row
  BY DEF Rollback, TypeInv, TypeOK
<1>. QED
  BY <1>1, EndedTypes, ReleaseTypes DEF Rollback, TypeInv, TypeOK

LEMMA LoadsTypes ==
  ASSUME TypeInv, NEW a \in Actors, NEW t, NEW i \in Row,
         NEW fs \in {"meta", "address", "status", "all"}, Loads(a, t, i, fs)
  PROVE  /\ row' \in Row
         /\ addressLock' \in [Addresses -> Actors \cup {NoOne}]
         /\ task' \in [Actors -> Tasks \cup {"none"}]
         /\ pc' \in [Actors -> {"idle", "transition", "save", "update", "saved"}]
         /\ inst' \in [Actors -> Row]
         /\ fields' \in [Actors -> {"meta", "address", "status", "all"}]
         /\ old' \in [Actors -> Statuses]
BY DEF Loads, TypeInv, TypeOK

LEMMA LoadsTodo ==
  ASSUME TypeInv, NEW a \in Actors, NEW t, NEW i \in Row,
         NEW fs \in {"meta", "address", "all"}, Loads(a, t, i, fs), UNCHANGED todo
  PROVE  TodoNonEmpty'
BY DEF Loads, TypeInv, TypeOK, TodoNonEmpty

-----------------------------------------------------------------------------
(* Type correctness. *)

LEMMA BeginTypeInv ==
  ASSUME TypeInv, NEW a \in Actors, Begin(a)
  PROVE  TypeInv'
<1>. row \in Row /\ row.ip \in Addresses
  BY DEF TypeInv, TypeOK, Row
<1>. CarriedAddresses \subseteq Addresses
  BY DEF CarriedAddresses
<1>1. CASE Upsert(a)
  <2>1. PICK ip \in CarriedAddresses :
          /\ rowLock' = a /\ draft' = row
          /\ Loads(a, "realtime", [row EXCEPT !.ip = ip], "address")
          /\ UNCHANGED <<identityLock, todo>>
    BY <1>1 DEF Upsert
  <2>2. [row EXCEPT !.ip = ip] \in Row
    BY DEF Row
  <2>. QED
    BY <2>1, <2>2, LoadsTypes, LoadsTodo DEF TypeInv, TypeOK
<1>2. CASE RefreshLoad(a)
  BY <1>2, LoadsTypes, LoadsTodo DEF RefreshLoad, TypeInv, TypeOK
<1>3. CASE SyncLoad(a)
  <2>1. PICK ip \in CarriedAddresses :
          /\ identityLock' = a
          /\ Loads(a, "sync", [row EXCEPT !.ip = ip],
                   IF ip = row.ip THEN "meta" ELSE "address")
          /\ UNCHANGED <<rowLock, draft, todo>>
    BY <1>3 DEF SyncLoad
  <2>2. [row EXCEPT !.ip = ip] \in Row
    BY DEF Row
  <2>3. (IF ip = row.ip THEN "meta" ELSE "address") \in {"meta", "address"}
    OBVIOUS
  <2>. QED
    BY <2>1, <2>2, <2>3, LoadsTypes, LoadsTodo DEF TypeInv, TypeOK
<1>4. CASE ImportLoad(a)
  <2>1. PICK ip \in CarriedAddresses :
          /\ identityLock' = a
          /\ Loads(a, "import", [row EXCEPT !.ip = ip], "address")
          /\ UNCHANGED <<rowLock, draft, todo>>
    BY <1>4 DEF ImportLoad
  <2>2. [row EXCEPT !.ip = ip] \in Row
    BY DEF Row
  <2>. QED
    BY <2>1, <2>2, LoadsTypes, LoadsTodo DEF TypeInv, TypeOK
<1>5. CASE FormLoad(a)
  <2>1. PICK ip \in CarriedAddresses, s \in Statuses :
          /\ Loads(a, "form", [row EXCEPT !.status = s, !.ip = ip], "all")
          /\ UNCHANGED <<rowLock, draft, identityLock, todo>>
    BY <1>5 DEF FormLoad
  <2>2. [row EXCEPT !.status = s, !.ip = ip] \in Row
    BY DEF Row
  <2>. QED
    BY <2>1, <2>2, LoadsTypes, LoadsTodo DEF TypeInv, TypeOK
<1>6. CASE ButtonLoad(a)
  <2>1. PICK s \in {"online", "offline"} :
          /\ Loads(a, "button", [row EXCEPT !.status = s], "status")
          /\ todo' = [todo EXCEPT ![a] = <<s>>]
          /\ UNCHANGED <<rowLock, draft, identityLock>>
    BY <1>6 DEF ButtonLoad
  <2>2. [row EXCEPT !.status = s] \in Row /\ <<s>> \in Seq(Statuses) /\ <<s>> # << >>
    BY DEF Row, Statuses
  <2>3. TodoNonEmpty'
    BY <2>1, <2>2 DEF Loads, TypeInv, TypeOK, TodoNonEmpty
  <2>. QED
    BY <2>1, <2>2, <2>3, LoadsTypes DEF TypeInv, TypeOK
<1>7. CASE AbsentList(a)
  <2>1. <<"offline">> \in Seq(Statuses) /\ <<"offline">> # << >>
    BY DEF Statuses
  <2>2. TypeOK'
    BY <1>7, <2>1 DEF AbsentList, TypeInv, TypeOK, locks, memory
  <2>3. TodoNonEmpty'
    BY <1>7, <2>1 DEF AbsentList, TypeInv, TypeOK, TodoNonEmpty, memory
  <2>. QED
    BY <2>2, <2>3 DEF TypeInv
<1>. QED
  BY <1>1, <1>2, <1>3, <1>4, <1>5, <1>6, <1>7 DEF Begin

LEMMA StepTypeInv ==
  ASSUME TypeInv, NEW a \in Actors, Step(a)
  PROVE  TypeInv'
<1>. View(a) \in Row /\ inst[a] \in Row
  BY ViewType DEF TypeInv, TypeOK
<1>1. CASE TransitionAccepted(a)
  <2>1. todo[a] \in Seq(Statuses) /\ todo[a] # << >>
    BY <1>1 DEF TransitionAccepted, TypeInv, TypeOK, TodoNonEmpty
  <2>2. Head(todo[a]) \in Statuses
    BY <2>1
  <2>3. [View(a) EXCEPT !.status = Head(todo[a])] \in Row
    BY <2>2 DEF Row
  <2>4. TypeOK'
    BY <1>1, <2>3 DEF TransitionAccepted, TypeInv, TypeOK
  <2>5. TodoNonEmpty'
    BY <1>1, <2>1 DEF TransitionAccepted, TypeInv, TypeOK, TodoNonEmpty
  <2>. QED
    BY <2>4, <2>5 DEF TypeInv
<1>2. CASE TransitionRefused(a)
  <2>1. todo[a] \in Seq(Statuses) /\ todo[a] # << >>
    BY <1>2 DEF TransitionRefused, TypeInv, TypeOK, TodoNonEmpty
  <2>2. CASE Rollback(a)
    BY <2>2, RollbackTypeInv
  <2>3. CASE Commit(a) /\ Ended(a)
    BY <2>3, CommitTypes, EndedTypes DEF TypeInv, TypeOK
  <2>4. CASE /\ Tail(todo[a]) # << >>
             /\ todo' = [todo EXCEPT ![a] = Tail(@)]
             /\ UNCHANGED <<row, draft, locks, task, pc, memory>>
    <3>1. Tail(todo[a]) \in Seq(Statuses)
      BY <2>1
    <3>2. TypeOK'
      BY <2>4, <3>1 DEF TypeInv, TypeOK, locks, memory
    <3>3. TodoNonEmpty'
      BY <2>4 DEF TypeInv, TypeOK, TodoNonEmpty, memory
    <3>. QED
      BY <3>2, <3>3 DEF TypeInv
  <2>. QED
    BY <1>2, <2>2, <2>3, <2>4 DEF TransitionRefused
<1>3. CASE PreSave(a)
  <2>3. View(a).status \in Statuses /\ inst[a].ip \in Addresses
    BY DEF Row
  <2>6. inst' \in [Actors -> Row]
    <3>1. CASE View(a).status = inst[a].status
      BY <1>3, <3>1 DEF PreSave, Validated, TypeInv, TypeOK
    <3>2. CASE View(a).status # inst[a].status
      <4>1. inst' = [inst EXCEPT ![a] =
                       [inst[a] EXCEPT !.online = inst[a].status \in Operational]]
        BY <1>3, <3>2 DEF PreSave, Validated
      <4>2. (inst[a].status \in Operational) \in BOOLEAN
        OBVIOUS
      <4>3. [inst[a] EXCEPT !.online = inst[a].status \in Operational] \in Row
        BY <4>2, WithOnlineType
      <4>. QED
        BY <4>1, <4>3 DEF TypeInv, TypeOK
    <3>. QED
      BY <3>1, <3>2
  <2>1. TypeOK'
    BY <1>3, <2>3, <2>6 DEF PreSave, Validated, TypeInv, TypeOK
  <2>2. TodoNonEmpty'
    BY <1>3 DEF PreSave, Validated, TypeInv, TypeOK, TodoNonEmpty
  <2>. QED
    BY <2>1, <2>2 DEF TypeInv
<1>4. CASE PreSaveRejected(a)
  BY <1>4, RollbackTypeInv DEF PreSaveRejected
<1>5. CASE Update(a)
  <2>1. TypeOK'
    BY <1>5, WrittenType DEF Update, TypeInv, TypeOK, memory
  <2>2. TodoNonEmpty'
    BY <1>5 DEF Update, TypeInv, TypeOK, TodoNonEmpty, memory
  <2>. QED
    BY <2>1, <2>2 DEF TypeInv
<1>6. CASE Saved(a)
  <2>1. PICK rest \in IF fields[a] = "status" THEN {Tail(todo[a])} ELSE Plans(a) :
          IF rest = << >>
            THEN Commit(a) /\ Ended(a)
            ELSE /\ IF task[a] = "realtime"
                      THEN Commit(a) ELSE UNCHANGED <<row, draft, locks>>
                 /\ todo' = [todo EXCEPT ![a] = rest]
                 /\ pc' = [pc EXCEPT ![a] = "transition"]
                 /\ UNCHANGED <<task, memory>>
    BY <1>6 DEF Saved
  <2>2. rest \in Seq(Statuses)
    <3>1. CASE fields[a] = "status"
      <4>1. todo[a] \in Seq(Statuses) /\ todo[a] # << >>
        BY <1>6, <3>1 DEF Saved, TypeInv, TypeOK, TodoNonEmpty
      <4>. QED
        BY <2>1, <3>1, <4>1
    <3>2. CASE fields[a] # "status"
      BY <2>1, <3>2, PlansType DEF TypeInv
    <3>. QED
      BY <3>1, <3>2
  <2>3. CASE rest = << >>
    BY <2>1, <2>3, CommitTypes, EndedTypes DEF TypeInv, TypeOK
  <2>4. CASE rest # << >>
    <3>1. /\ row' \in Row
          /\ draft' \in Row
          /\ rowLock' \in Actors \cup {NoOne}
          /\ addressLock' \in [Addresses -> Actors \cup {NoOne}]
          /\ identityLock' \in Actors \cup {NoOne}
      BY <2>1, <2>4, CommitTypes DEF TypeInv, TypeOK, locks
    <3>2. TypeOK'
      BY <2>1, <2>2, <2>4, <3>1 DEF TypeInv, TypeOK, memory
    <3>3. TodoNonEmpty'
      BY <2>1, <2>2, <2>4 DEF TypeInv, TypeOK, TodoNonEmpty, memory
    <3>. QED
      BY <3>2, <3>3 DEF TypeInv
  <2>. QED
    BY <2>3, <2>4
<1>. QED
  BY <1>1, <1>2, <1>3, <1>4, <1>5, <1>6 DEF Step

LEMMA InitTypeInv == Init => TypeInv
<1>. SUFFICES ASSUME Init PROVE TypeInv
  OBVIOUS
<1>1. row \in Row /\ row.ip \in Addresses
  BY DEF Init, Row
<1>2. Discarded \in Row /\ Discarded.status \in Statuses
  BY <1>1, DiscardedType DEF Row
<1>3. << >> \in Seq(Statuses)
  OBVIOUS
<1>4. TypeOK
  BY <1>1, <1>2, <1>3 DEF Init, TypeOK
<1>5. TodoNonEmpty
  BY DEF Init, TodoNonEmpty
<1>. QED
  BY <1>4, <1>5 DEF TypeInv

LEMMA NextTypeInv == TypeInv /\ [Next]_vars => TypeInv'
<1>. SUFFICES ASSUME TypeInv, [Next]_vars PROVE TypeInv'
  OBVIOUS
<1>1. CASE UNCHANGED vars
  BY <1>1 DEF vars, locks, memory, TypeInv, TypeOK, TodoNonEmpty
<1>2. ASSUME NEW a \in Actors, Begin(a) PROVE TypeInv'
  BY <1>2, BeginTypeInv
<1>3. ASSUME NEW a \in Actors, Step(a) PROVE TypeInv'
  BY <1>3, StepTypeInv
<1>4. ASSUME NEW a \in Actors, DeadlockVictim(a) \/ WorkerDies(a) PROVE TypeInv'
  BY <1>4, RollbackTypeInv DEF DeadlockVictim, WorkerDies
<1>. QED
  BY <1>1, <1>2, <1>3, <1>4 DEF Next

LEMMA TypeInvHolds == Spec => []TypeInv
BY InitTypeInv, NextTypeInv, PTL DEF Spec

(* Every variable keeps its type whatever the writers and their failures:  *)
(* no pending transition is ever taken from an empty list, and no save     *)
(* writes a value outside the model's choices.                             *)
THEOREM TypeCorrect == Spec => []TypeOK
<1>1. TypeInv => TypeOK
  BY DEF TypeInv
<1>. QED
  BY <1>1, TypeInvHolds, PTL

-----------------------------------------------------------------------------
(***************************************************************************)
(* A retirement is final while no payload and no form moves the chassis.   *)
(* The savers then all lock the one address of the row before they read    *)
(* it, so the status a save was validated against is still the status it   *)
(* replaces, and a row that changes status under another lock is not       *)
(* committed before that saver has finished.                               *)
(***************************************************************************)
DraftWhenUnlocked == rowLock = NoOne => draft = row

OneAddress ==
  /\ draft.ip = row.ip
  /\ \A a \in Actors : pc[a] \in {"save", "update", "saved"} => inst[a].ip = row.ip

SaverHoldsAddress ==
  \A a \in Actors : pc[a] \in {"update", "saved"} => addressLock[row.ip] = a

WriterHoldsAddress ==
  draft.status # row.status => rowLock # NoOne /\ addressLock[row.ip] = rowLock

ValidatedNow ==
  \A a \in Actors :
    pc[a] = "update" => /\ old[a] = View(a).status
                       /\ IsValidTransition(old[a], inst[a].status)

RetiredDraft == row.status = "retired" => draft.status = "retired"

SerialInv ==
  /\ DraftWhenUnlocked
  /\ OneAddress
  /\ SaverHoldsAddress
  /\ WriterHoldsAddress
  /\ ValidatedNow
  /\ RetiredDraft

\* a is in no save after the step; the other actors are where they were.
LeavesSave(a) ==
  /\ pc'[a] \in {"idle", "transition"}
  /\ \A b \in Actors \ {a} : pc'[b] = pc[b] /\ inst'[b] = inst[b] /\ old'[b] = old[b]

LEMMA EndedLeavesSave ==
  ASSUME TypeInv, NEW a \in Actors, Ended(a)
  PROVE  LeavesSave(a)
BY DEF Ended, LeavesSave, TypeInv, TypeOK

LEMMA CommitSerial ==
  ASSUME TypeInv, SerialInv, NEW a \in Actors, Commit(a), LeavesSave(a)
  PROVE  SerialInv'
<1>. USE DEF SerialInv, Commit, Release, LeavesSave
<1>. a # NoOne
  BY NoOneAssumption
<1>1. row'.ip = row.ip /\ row'.ip \in Addresses
  BY DEF OneAddress, View, TypeInv, TypeOK, Row
<1>2. DraftWhenUnlocked'
  BY DEF DraftWhenUnlocked, View
<1>3. OneAddress'
  BY <1>1 DEF OneAddress, View
<1>4. SaverHoldsAddress'
  BY <1>1 DEF SaverHoldsAddress
<1>5. WriterHoldsAddress'
  BY <1>1 DEF WriterHoldsAddress, DraftWhenUnlocked, View
<1>6. ValidatedNow'
  <2>. SUFFICES ASSUME NEW b \in Actors, pc'[b] = "update"
                PROVE  old'[b] = View(b)'.status /\ IsValidTransition(old'[b], inst'[b].status)
    BY DEF ValidatedNow
  <2>1. b # a /\ pc[b] = "update" /\ inst'[b] = inst[b] /\ old'[b] = old[b]
    OBVIOUS
  <2>2. old[b] = View(b).status /\ IsValidTransition(old[b], inst[b].status)
    BY <2>1 DEF ValidatedNow
  <2>3. addressLock[row.ip] = b
    BY <2>1 DEF SaverHoldsAddress
  <2>4. View(b)'.status = View(b).status
    BY <2>1, <2>3 DEF View, WriterHoldsAddress, DraftWhenUnlocked
  <2>. QED
    BY <2>1, <2>2, <2>4
<1>7. RetiredDraft'
  BY DEF RetiredDraft, View
<1>. QED
  BY <1>2, <1>3, <1>4, <1>5, <1>6, <1>7

LEMMA RollbackSerial ==
  ASSUME TypeInv, SerialInv, NEW a \in Actors, Rollback(a)
  PROVE  SerialInv'
<1>. USE DEF SerialInv, Rollback, Release
<1>. a # NoOne
  BY NoOneAssumption
<1>. LeavesSave(a)
  BY EndedLeavesSave
<1>. USE DEF LeavesSave
<1>1. row.ip \in Addresses
  BY DEF TypeInv, TypeOK, Row
<1>2. DraftWhenUnlocked'
  BY DEF DraftWhenUnlocked
<1>3. OneAddress'
  BY DEF OneAddress
<1>4. SaverHoldsAddress'
  BY <1>1 DEF SaverHoldsAddress
<1>5. WriterHoldsAddress'
  BY <1>1 DEF WriterHoldsAddress
<1>6. ValidatedNow'
  BY DEF ValidatedNow, View
<1>7. RetiredDraft'
  BY DEF RetiredDraft
<1>. QED
  BY <1>2, <1>3, <1>4, <1>5, <1>6, <1>7

\* A start of a task: a enters "save" (or "transition") with the row's address,
\* and either takes the free row lock or leaves the locks of the row alone.
LEMMA BeginSerial ==
  ASSUME ~Moves, TypeInv, SerialInv, NEW a \in Actors, Begin(a)
  PROVE  SerialInv'
<1>1. /\ row' = row /\ draft' = draft /\ addressLock' = addressLock
      /\ rowLock' = rowLock \/ (rowLock = NoOne /\ rowLock' = a)
  BY DEF Begin, Upsert, RefreshLoad, SyncLoad, ImportLoad, FormLoad, ButtonLoad,
         AbsentList, Loads, locks, SerialInv, DraftWhenUnlocked
<1>2. /\ pc'[a] \in {"save", "transition"}
      /\ pc'[a] = "save" => inst'[a].ip = row.ip
      /\ \A b \in Actors \ {a} : pc'[b] = pc[b] /\ inst'[b] = inst[b]
      /\ old' = old
  <2>. row \in Row
    BY DEF TypeInv, TypeOK
  <2>1. CASE AbsentList(a)
    BY <2>1 DEF AbsentList, memory, TypeInv, TypeOK
  <2>2. ASSUME NEW t, NEW i \in Row, NEW fs, Loads(a, t, i, fs), i.ip = row.ip
        PROVE  /\ pc'[a] \in {"save", "transition"}
               /\ pc'[a] = "save" => inst'[a].ip = row.ip
               /\ \A b \in Actors \ {a} : pc'[b] = pc[b] /\ inst'[b] = inst[b]
               /\ old' = old
    BY <2>2 DEF Loads, TypeInv, TypeOK
  <2>3. CarriedAddresses = {row.ip}
    BY DEF CarriedAddresses, Row
  <2>4. [row EXCEPT !.ip = row.ip] \in Row /\ [row EXCEPT !.ip = row.ip].ip = row.ip
    BY DEF Row
  <2>5. CASE Upsert(a)
    BY <2>2, <2>3, <2>4, <2>5 DEF Upsert
  <2>6. CASE RefreshLoad(a)
    BY <2>2, <2>6 DEF RefreshLoad
  <2>7. CASE SyncLoad(a)
    BY <2>2, <2>3, <2>4, <2>7 DEF SyncLoad
  <2>8. CASE ImportLoad(a)
    BY <2>2, <2>3, <2>4, <2>8 DEF ImportLoad
  <2>9. CASE FormLoad(a)
    <3>1. PICK s \in Statuses : Loads(a, "form", [row EXCEPT !.status = s, !.ip = row.ip], "all")
      BY <2>3, <2>9 DEF FormLoad
    <3>2. /\ [row EXCEPT !.status = s, !.ip = row.ip] \in Row
          /\ [row EXCEPT !.status = s, !.ip = row.ip].ip = row.ip
      BY DEF Row
    <3>. QED
      BY <2>2, <3>1, <3>2
  <2>10. CASE ButtonLoad(a)
    <3>1. PICK s \in {"online", "offline"} :
             Loads(a, "button", [row EXCEPT !.status = s], "status")
      BY <2>10 DEF ButtonLoad
    <3>2. [row EXCEPT !.status = s] \in Row /\ [row EXCEPT !.status = s].ip = row.ip
      BY DEF Row, Statuses
    <3>. QED
      BY <2>2, <3>1, <3>2
  <2>. QED
    BY <2>1, <2>5, <2>6, <2>7, <2>8, <2>9, <2>10 DEF Begin
<1>. USE <1>1, <1>2 DEF SerialInv
<1>3. DraftWhenUnlocked'
  BY NoOneAssumption DEF DraftWhenUnlocked
<1>4. OneAddress'
  BY DEF OneAddress
<1>5. SaverHoldsAddress'
  BY DEF SaverHoldsAddress
<1>6. WriterHoldsAddress'
  BY DEF WriterHoldsAddress, DraftWhenUnlocked
<1>7. ValidatedNow'
  BY DEF ValidatedNow, View, DraftWhenUnlocked
<1>8. RetiredDraft'
  BY DEF RetiredDraft
<1>. QED
  BY <1>3, <1>4, <1>5, <1>6, <1>7, <1>8

LEMMA StepSerial ==
  ASSUME ~Moves, TypeInv, SerialInv, NEW a \in Actors, Step(a)
  PROVE  SerialInv'
<1>. USE DEF SerialInv
<1>. a # NoOne /\ row.ip \in Addresses
  BY NoOneAssumption DEF TypeInv, TypeOK, Row
<1>. View(a) \in Row /\ inst[a] \in Row
  BY ViewType DEF TypeInv, TypeOK
<1>1. CASE TransitionAccepted(a)
  <2>1. draft' = draft /\ View(a).ip = row.ip
    BY <1>1 DEF TransitionAccepted, Free, View, DraftWhenUnlocked, OneAddress
  <2>2. /\ pc'[a] = "save" /\ inst'[a].ip = row.ip
        /\ \A b \in Actors \ {a} : pc'[b] = pc[b] /\ inst'[b] = inst[b]
        /\ old' = old /\ row' = row /\ addressLock' = addressLock
        /\ rowLock \in {NoOne, a} /\ rowLock' = a
    BY <1>1, <2>1 DEF TransitionAccepted, Free, TypeInv, TypeOK, Row
  <2>3. DraftWhenUnlocked' /\ OneAddress' /\ SaverHoldsAddress' /\ RetiredDraft'
    BY <2>1, <2>2 DEF DraftWhenUnlocked, OneAddress, SaverHoldsAddress, RetiredDraft
  <2>4. WriterHoldsAddress'
    BY <2>1, <2>2 DEF WriterHoldsAddress
  <2>5. ValidatedNow'
    BY <2>1, <2>2 DEF ValidatedNow, View, DraftWhenUnlocked
  <2>. QED
    BY <2>3, <2>4, <2>5
<1>2. CASE TransitionRefused(a)
  <2>1. CASE Rollback(a)
    BY <2>1, RollbackSerial
  <2>2. CASE Commit(a) /\ Ended(a)
    BY <2>2, CommitSerial, EndedLeavesSave
  <2>3. CASE UNCHANGED <<row, draft, locks, task, pc, memory>>
    BY <2>3 DEF locks, memory, DraftWhenUnlocked, OneAddress, SaverHoldsAddress,
                WriterHoldsAddress, ValidatedNow, RetiredDraft, View
  <2>. QED
    BY <1>2, <2>1, <2>2, <2>3 DEF TransitionRefused
<1>3. CASE PreSave(a)
  <2>1. inst[a].ip = row.ip
    BY <1>3 DEF PreSave, OneAddress
  <2>2. /\ row' = row /\ draft' = draft /\ rowLock' = rowLock
        /\ addressLock' = [addressLock EXCEPT ![row.ip] = a]
        /\ addressLock[row.ip] \in {NoOne, a}
        /\ pc'[a] = "update" /\ old'[a] = View(a).status
        /\ IsValidTransition(View(a).status, inst[a].status)
        /\ \A b \in Actors \ {a} : pc'[b] = pc[b] /\ old'[b] = old[b]
    BY <1>3, <2>1 DEF PreSave, Validated, Free, TypeInv, TypeOK
  <2>3. /\ inst'[a].ip = inst[a].ip /\ inst'[a].status = inst[a].status
        /\ \A b \in Actors \ {a} : inst'[b] = inst[b]
    BY <1>3 DEF PreSave, Validated, TypeInv, TypeOK, Row
  <2>4. \A b \in Actors : View(b)' = View(b)
    BY <2>2 DEF View
  <2>5. DraftWhenUnlocked' /\ OneAddress' /\ RetiredDraft'
    BY <2>1, <2>2, <2>3 DEF DraftWhenUnlocked, OneAddress, RetiredDraft
  <2>6. addressLock'[row.ip] = a
    BY <2>2 DEF TypeInv, TypeOK
  <2>7. \A b \in Actors \ {a} : pc[b] \notin {"update", "saved"}
    BY <2>2, NoOneAssumption DEF SaverHoldsAddress
  <2>8. SaverHoldsAddress'
    BY <2>2, <2>6, <2>7 DEF SaverHoldsAddress
  <2>9. WriterHoldsAddress'
    BY <2>2, <2>6 DEF WriterHoldsAddress
  <2>10. ValidatedNow'
    BY <2>2, <2>3, <2>4, <2>7 DEF ValidatedNow
  <2>. QED
    BY <2>5, <2>8, <2>9, <2>10
<1>4. CASE PreSaveRejected(a)
  BY <1>4, RollbackSerial DEF PreSaveRejected
<1>5. CASE Update(a)
  <2>1. /\ row' = row /\ draft' = Written(a) /\ rowLock' = a /\ addressLock' = addressLock
        /\ inst' = inst /\ old' = old /\ pc[a] = "update" /\ pc'[a] = "saved"
        /\ \A b \in Actors \ {a} : pc'[b] = pc[b]
    BY <1>5 DEF Update, memory, TypeInv, TypeOK
  <2>2. addressLock[row.ip] = a /\ inst[a].ip = row.ip /\ View(a).ip = row.ip
    BY <2>1 DEF SaverHoldsAddress, OneAddress, View
  <2>3. /\ Written(a).ip = row.ip
        /\ Written(a).status \in {View(a).status, inst[a].status}
    BY <2>2 DEF Written
  <2>4. \A b \in Actors \ {a} : pc[b] \notin {"update", "saved"}
    BY <2>2 DEF SaverHoldsAddress
  <2>5. DraftWhenUnlocked' /\ OneAddress' /\ SaverHoldsAddress' /\ WriterHoldsAddress'
    BY <2>1, <2>2, <2>3 DEF DraftWhenUnlocked, OneAddress, SaverHoldsAddress,
                            WriterHoldsAddress
  <2>6. ValidatedNow'
    BY <2>1, <2>4 DEF ValidatedNow
  <2>7. RetiredDraft'
    <3>. SUFFICES ASSUME row.status = "retired" PROVE Written(a).status = "retired"
      BY <2>1 DEF RetiredDraft
    <3>1. View(a).status = "retired"
      BY DEF View, RetiredDraft
    <3>2. inst[a].status \in Statuses /\ IsValidTransition("retired", inst[a].status)
      BY <2>1, <3>1 DEF ValidatedNow, Row
    <3>. QED
      BY <2>3, <3>1, <3>2, RetiredHasNoTransition
  <2>. QED
    BY <2>5, <2>6, <2>7
<1>6. CASE Saved(a)
  <2>1. CASE Commit(a) /\ Ended(a)
    BY <2>1, CommitSerial, EndedLeavesSave
  <2>2. CASE /\ Commit(a) \/ UNCHANGED <<row, draft, locks>>
             /\ pc' = [pc EXCEPT ![a] = "transition"]
             /\ UNCHANGED memory
    <3>1. LeavesSave(a)
      BY <2>2 DEF LeavesSave, memory, TypeInv, TypeOK
    <3>2. CASE Commit(a)
      BY <3>1, <3>2, CommitSerial
    <3>3. CASE UNCHANGED <<row, draft, locks>>
      BY <3>1, <3>3 DEF LeavesSave, locks, DraftWhenUnlocked, OneAddress,
                        SaverHoldsAddress, WriterHoldsAddress, ValidatedNow,
                        RetiredDraft, View
    <3>. QED
      BY <2>2, <3>2, <3>3
  <2>. QED
    BY <1>6, <2>1, <2>2 DEF Saved
<1>. QED
  BY <1>1, <1>2, <1>3, <1>4, <1>5, <1>6 DEF Step

LEMMA InitSerial == Init => SerialInv
BY DEF Init, SerialInv, DraftWhenUnlocked, OneAddress, SaverHoldsAddress,
       WriterHoldsAddress, ValidatedNow, RetiredDraft

LEMMA NextSerial ==
  ASSUME ~Moves, TypeInv, SerialInv, [Next]_vars
  PROVE  SerialInv'
<1>1. CASE UNCHANGED vars
  BY <1>1 DEF vars, locks, memory, SerialInv, DraftWhenUnlocked, OneAddress,
              SaverHoldsAddress, WriterHoldsAddress, ValidatedNow, RetiredDraft, View
<1>2. ASSUME NEW a \in Actors, Begin(a) PROVE SerialInv'
  BY <1>2, BeginSerial
<1>3. ASSUME NEW a \in Actors, Step(a) PROVE SerialInv'
  BY <1>3, StepSerial
<1>4. ASSUME NEW a \in Actors, DeadlockVictim(a) \/ WorkerDies(a) PROVE SerialInv'
  BY <1>4, RollbackSerial DEF DeadlockVictim, WorkerDies
<1>. QED
  BY <1>1, <1>2, <1>3, <1>4 DEF Next

\* The committed row changes only when the transaction that wrote it commits.
LEMMA RowStep ==
  ASSUME [Next]_vars
  PROVE  row' = row \/ row' = draft
BY DEF Next, vars, Begin, Upsert, RefreshLoad, SyncLoad, ImportLoad, FormLoad,
       ButtonLoad, AbsentList, Loads, Step, TransitionAccepted, TransitionRefused,
       PreSave, Validated, PreSaveRejected, Update, Saved, DeadlockVictim, WorkerDies,
       Rollback, Commit, View

(* Once a retirement has committed, no writer's commit changes the status, *)
(* for any number of writers of every kind, crashes and deadlock victims   *)
(* included, as long as no payload or form carries another address.        *)
THEOREM RetirementIsFinal == ASSUME ~Moves PROVE Spec => RetiredIsTerminal
<1>1. TypeInv /\ SerialInv /\ [Next]_vars => [row.status = "retired" => row'.status = "retired"]_row
  BY RowStep DEF SerialInv, RetiredDraft
<1>2. TypeInv /\ SerialInv /\ [Next]_vars => SerialInv'
  BY NextSerial
<1>3. Spec => []TypeInv
  BY TypeInvHolds
<1>. QED
  BY <1>1, <1>2, <1>3, InitSerial, PTL DEF Spec, RetiredIsTerminal

(* Under the same condition every status save still waits or writes on top *)
(* of the status it was validated against.                                 *)
THEOREM ValidationIsCurrent == ASSUME ~Moves PROVE Spec => []ValidatedAgainstRow
<1>1. SerialInv => ValidatedAgainstRow
  BY DEF SerialInv, ValidatedNow, ValidatedAgainstRow
<1>2. TypeInv /\ SerialInv /\ [Next]_vars => SerialInv'
  BY NextSerial
<1>3. Spec => []TypeInv
  BY TypeInvHolds
<1>. QED
  BY <1>1, <1>2, <1>3, InitSerial, PTL DEF Spec

-----------------------------------------------------------------------------
(***************************************************************************)
(* What one commit may do to the status, under the same condition.  A      *)
(* transaction that has written a status and goes on is on the way from    *)
(* discovered over provisioning to online; every other transaction writes  *)
(* one status, which the table allows after the committed one.             *)
(***************************************************************************)
Saving(a) == pc[a] \in {"save", "update", "saved"}

\* The transitions left are one, or the two hops.
ShapeOK(a) ==
  /\ pc[a] = "transition" \/ (Saving(a) /\ fields[a] = "status") =>
       Tail(todo[a]) = << >> \/ (Head(todo[a]) = "provisioning" /\ Tail(todo[a]) = <<"online">>)
  /\ Saving(a) /\ fields[a] = "status" => inst[a].status = Head(todo[a])
  /\ Saving(a) /\ fields[a] = "all" => task[a] = "form"
  /\ pc[a] = "idle" <=> task[a] = "none"

\* The first hop is written, and rest is the second.
Halfway(rest) ==
  /\ rest = <<"online">>
  /\ draft.status = "provisioning"
  /\ row.status \in {"discovered", "provisioning"}

ChainOK(a) ==
  rowLock = a =>
    /\ pc[a] # "idle"
    /\ pc[a] \in {"transition", "save", "update"} =>
         \/ draft.status = row.status
         \/ Halfway(todo[a]) /\ (pc[a] # "transition" => fields[a] = "status")
    /\ pc[a] = "saved" =>
         \/ draft.status = row.status
         \/ fields[a] = "all" /\ CommittedStep(row.status, draft.status)
         \/ fields[a] = "status" /\ Tail(todo[a]) = << >> /\ CommittedStep(row.status, draft.status)
         \/ fields[a] = "status" /\ Halfway(Tail(todo[a]))

TableInv == \A a \in Actors : ShapeOK(a) /\ ChainOK(a)

LEMMA FirstHop ==
  ASSUME NEW s \in Statuses, IsValidTransition(s, "provisioning")
  PROVE  s \in {"discovered", "provisioning"}
BY DEF IsValidTransition, VALID_TRANSITIONS, Statuses

LEMMA SecondHop ==
  ASSUME NEW s \in {"discovered", "provisioning"}
  PROVE  CommittedStep(s, "provisioning") /\ CommittedStep(s, "online")
BY DEF CommittedStep, IsValidTransition, VALID_TRANSITIONS

LEMMA PlansShape ==
  ASSUME NEW a \in Actors, NEW p \in Plans(a), p # << >>
  PROVE  Tail(p) = << >> \/ (Head(p) = "provisioning" /\ Tail(p) = <<"online">>)
<1>1. \A from, to : \/ Tail(Hops(from, to)) = << >>
                    \/ Head(Hops(from, to)) = "provisioning" /\ Tail(Hops(from, to)) = <<"online">>
  BY DEF Hops
<1>2. PICK from, to : p = Hops(from, to)
  BY DEF Plans
<1>. QED
  BY <1>1, <1>2

\* A step of a leaves the others where they were, and their row alone.
AsideOf(a) ==
  \A b \in Actors \ {a} :
    /\ pc'[b] = pc[b] /\ inst'[b] = inst[b] /\ fields'[b] = fields[b]
    /\ todo'[b] = todo[b] /\ task'[b] = task[b]
    /\ rowLock' = b => rowLock = b /\ row' = row /\ draft' = draft

LEMMA OthersTable ==
  ASSUME TableInv, NEW a \in Actors, AsideOf(a), ShapeOK(a)', ChainOK(a)'
  PROVE  TableInv'
<1>. SUFFICES ASSUME NEW b \in Actors \ {a} PROVE ShapeOK(b)' /\ ChainOK(b)'
  BY DEF TableInv
<1>1. ShapeOK(b) /\ ChainOK(b)
  BY DEF TableInv
<1>2. ShapeOK(b)'
  BY <1>1 DEF AsideOf, ShapeOK, Saving
<1>3. ChainOK(b)'
  BY <1>1 DEF AsideOf, ChainOK, Halfway, CommittedStep
<1>. QED
  BY <1>2, <1>3

\* Whoever ends holds nothing and is nowhere.
LEMMA EndedTable ==
  ASSUME TypeInv, TableInv, NEW a \in Actors, Ended(a), Release(a),
         rowLock \in Actors \ {a} => row' = row /\ draft' = draft
  PROVE  TableInv'
<1>1. pc'[a] = "idle" /\ task'[a] = "none" /\ rowLock' # a
  BY NoOneAssumption DEF Ended, Release, TypeInv, TypeOK
<1>2. AsideOf(a)
  BY NoOneAssumption DEF AsideOf, Ended, Release, TypeInv, TypeOK
<1>. QED
  BY <1>1, <1>2, OthersTable DEF ShapeOK, ChainOK, Saving

LEMMA RollbackTable ==
  ASSUME TypeInv, TableInv, NEW a \in Actors, Rollback(a)
  PROVE  TableInv'
BY EndedTable DEF Rollback

LEMMA CommitEndTable ==
  ASSUME TypeInv, TableInv, NEW a \in Actors, Commit(a), Ended(a)
  PROVE  TableInv'
BY NoOneAssumption, EndedTable DEF Commit, View

LEMMA BeginTable ==
  ASSUME TypeInv, DraftWhenUnlocked, TableInv, NEW a \in Actors, Begin(a)
  PROVE  TableInv'
<1>. a # NoOne
  BY NoOneAssumption
<1>1. /\ row' = row
      /\ \/ rowLock' = rowLock /\ draft' = draft
         \/ rowLock = NoOne /\ rowLock' = a /\ draft' = row
      /\ task[a] = "none"
  BY DEF Begin, Upsert, RefreshLoad, SyncLoad, ImportLoad, FormLoad, ButtonLoad,
         AbsentList, Loads, locks
<1>2. AsideOf(a)
  BY <1>1 DEF AsideOf, Begin, Upsert, RefreshLoad, SyncLoad, ImportLoad, FormLoad, ButtonLoad,
              AbsentList, Loads, memory, TypeInv, TypeOK
<1>3. ShapeOK(a)'
  <2>1. CASE AbsentList(a)
    BY <2>1 DEF AbsentList, ShapeOK, Saving, TypeInv, TypeOK
  <2>2. CASE ButtonLoad(a)
    <3>1. PICK s \in {"online", "offline"} :
            /\ Loads(a, "button", [row EXCEPT !.status = s], "status")
            /\ todo' = [todo EXCEPT ![a] = <<s>>]
      BY <2>2 DEF ButtonLoad
    <3>2. /\ todo'[a] = <<s>> /\ inst'[a].status = s /\ fields'[a] = "status"
          /\ pc'[a] = "save" /\ task'[a] = "button"
      BY <3>1 DEF Loads, TypeInv, TypeOK, Row
    <3>3. Head(<<s>>) = s /\ Tail(<<s>>) = << >>
      OBVIOUS
    <3>. QED
      BY <3>2, <3>3 DEF ShapeOK
  <2>3. CASE FormLoad(a)
    BY <2>3 DEF FormLoad, Loads, ShapeOK, TypeInv, TypeOK
  <2>4. CASE Upsert(a) \/ RefreshLoad(a) \/ SyncLoad(a) \/ ImportLoad(a)
    BY <2>4 DEF Upsert, RefreshLoad, SyncLoad, ImportLoad, Loads, ShapeOK, TypeInv, TypeOK
  <2>. QED
    BY <2>1, <2>2, <2>3, <2>4 DEF Begin
<1>4. rowLock # a
  BY <1>1 DEF TableInv, ShapeOK, ChainOK
<1>5. pc'[a] \in {"save", "transition"}
  BY DEF Begin, Upsert, RefreshLoad, SyncLoad, ImportLoad, FormLoad, ButtonLoad, AbsentList,
         Loads, TypeInv, TypeOK
<1>6. ChainOK(a)'
  BY <1>1, <1>4, <1>5 DEF ChainOK
<1>. QED
  BY <1>2, <1>3, <1>6, OthersTable

LEMMA StepTable ==
  ASSUME ~Moves, TypeInv, SerialInv, TableInv, NEW a \in Actors, Step(a)
  PROVE  TableInv'
<1>. a # NoOne /\ row.status \in Statuses /\ View(a) \in Row /\ inst[a] \in Row
  BY NoOneAssumption, ViewType DEF TypeInv, TypeOK, Row
<1>. ShapeOK(a) /\ ChainOK(a)
  BY DEF TableInv
<1>1. CASE TransitionAccepted(a)
  <2>1. /\ pc[a] = "transition" /\ pc'[a] = "save" /\ fields'[a] = "status"
        /\ inst'[a].status = Head(todo[a])
        /\ todo' = todo /\ task' = task /\ row' = row /\ draft' = View(a)
        /\ rowLock \in {NoOne, a} /\ rowLock' = a
    BY <1>1 DEF TransitionAccepted, Free, TypeInv, TypeOK, Row
  <2>2. AsideOf(a)
    BY <1>1, <2>1 DEF AsideOf, TransitionAccepted, TypeInv, TypeOK
  <2>3. ShapeOK(a)'
    BY <2>1 DEF ShapeOK, Saving
  <2>4. ChainOK(a)'
    <3>1. CASE rowLock = a
      <4>1. draft' = draft
        BY <2>1, <3>1 DEF View
      <4>2. draft.status = row.status \/ Halfway(todo[a])
        BY <2>1, <3>1 DEF ChainOK
      <4>. QED
        BY <2>1, <4>1, <4>2 DEF ChainOK, Halfway
    <3>2. CASE rowLock # a
      BY <2>1, <3>2 DEF ChainOK, View
    <3>. QED
      BY <3>1, <3>2
  <2>. QED
    BY <2>2, <2>3, <2>4, OthersTable
<1>2. CASE TransitionRefused(a)
  <2>1. CASE Rollback(a)
    BY <2>1, RollbackTable
  <2>2. CASE Commit(a) /\ Ended(a)
    BY <2>2, CommitEndTable
  <2>3. CASE /\ Tail(todo[a]) # << >>
             /\ todo' = [todo EXCEPT ![a] = Tail(@)]
             /\ UNCHANGED <<row, draft, locks, task, pc, memory>>
    <3>1. pc[a] = "transition" /\ todo'[a] = <<"online">>
      BY <1>2, <2>3 DEF TransitionRefused, ShapeOK, TypeInv, TypeOK
    <3>2. AsideOf(a)
      BY <2>3 DEF AsideOf, locks, memory, TypeInv, TypeOK
    <3>3. ShapeOK(a)'
      BY <2>3, <3>1 DEF ShapeOK, Saving
    <3>4. ChainOK(a)'
      BY <2>3, <3>1 DEF ChainOK, Halfway, locks
    <3>. QED
      BY <3>2, <3>3, <3>4, OthersTable
  <2>. QED
    BY <1>2, <2>1, <2>2, <2>3 DEF TransitionRefused
<1>3. CASE PreSave(a)
  <2>1. /\ pc[a] = "save" /\ pc'[a] = "update" /\ inst'[a].status = inst[a].status
        /\ UNCHANGED <<row, draft, rowLock, task, fields, todo>>
    BY <1>3 DEF PreSave, Validated, TypeInv, TypeOK, Row
  <2>2. AsideOf(a)
    BY <1>3, <2>1 DEF AsideOf, PreSave, Validated, TypeInv, TypeOK
  <2>3. ShapeOK(a)'
    BY <2>1 DEF ShapeOK, Saving
  <2>4. ChainOK(a)'
    BY <2>1 DEF ChainOK, Halfway
  <2>. QED
    BY <2>2, <2>3, <2>4, OthersTable
<1>4. CASE PreSaveRejected(a)
  BY <1>4, RollbackTable DEF PreSaveRejected
<1>5. CASE Update(a)
  <2>1. /\ pc[a] = "update" /\ pc'[a] = "saved" /\ rowLock \in {NoOne, a} /\ rowLock' = a
        /\ row' = row /\ draft' = Written(a)
        /\ UNCHANGED <<task, inst, fields, todo>>
    BY <1>5 DEF Update, Free, memory, TypeInv, TypeOK
  <2>2. AsideOf(a)
    BY <1>5, <2>1 DEF AsideOf, Update, memory, TypeInv, TypeOK
  <2>3. ShapeOK(a)'
    BY <2>1 DEF ShapeOK, Saving
  <2>4. IsValidTransition(View(a).status, inst[a].status)
    BY <2>1 DEF SerialInv, ValidatedNow
  <2>5. View(a).status = row.status \/ (Halfway(todo[a]) /\ fields[a] = "status")
    BY <2>1 DEF ChainOK, View
  <2>6. /\ fields[a] \in {"status", "all"} => draft'.status = inst[a].status
        /\ fields[a] \notin {"status", "all"} => draft'.status = View(a).status
    BY <2>1 DEF Written
  <2>7. ASSUME fields[a] = "all" PROVE ChainOK(a)'
    BY <2>1, <2>4, <2>5, <2>6, <2>7 DEF ChainOK, CommittedStep
  <2>8. ASSUME fields[a] \notin {"status", "all"} PROVE ChainOK(a)'
    BY <2>1, <2>5, <2>6, <2>8 DEF ChainOK
  <2>9. ASSUME fields[a] = "status" PROVE ChainOK(a)'
    <3>1. inst[a].status = Head(todo[a])
      BY <2>1, <2>9 DEF ShapeOK, Saving
    <3>2. CASE Halfway(todo[a])
      <4>1. Tail(todo[a]) = << >> /\ draft'.status = "online"
        BY <2>6, <2>9, <3>1, <3>2 DEF Halfway
      <4>2. CommittedStep(row.status, "online")
        BY <3>2, SecondHop DEF Halfway
      <4>. QED
        BY <2>1, <2>9, <4>1, <4>2 DEF ChainOK, CommittedStep
    <3>3. CASE View(a).status = row.status /\ Tail(todo[a]) = << >>
      BY <2>1, <2>4, <2>6, <2>9, <3>3 DEF ChainOK, CommittedStep
    <3>4. CASE /\ View(a).status = row.status
               /\ Head(todo[a]) = "provisioning" /\ Tail(todo[a]) = <<"online">>
      <4>1. row.status \in {"discovered", "provisioning"} /\ draft'.status = "provisioning"
        BY <2>4, <2>6, <2>9, <3>1, <3>4, FirstHop
      <4>. QED
        BY <2>1, <2>9, <3>4, <4>1 DEF ChainOK, Halfway
    <3>. QED
      BY <2>1, <2>5, <2>9, <3>2, <3>3, <3>4 DEF ShapeOK, Saving
  <2>. QED
    BY <2>1, <2>2, <2>3, <2>7, <2>8, <2>9, OthersTable
<1>6. CASE Saved(a)
  <2>1. PICK rest \in IF fields[a] = "status" THEN {Tail(todo[a])} ELSE Plans(a) :
          IF rest = << >>
            THEN Commit(a) /\ Ended(a)
            ELSE /\ IF task[a] = "realtime"
                      THEN Commit(a) ELSE UNCHANGED <<row, draft, locks>>
                 /\ todo' = [todo EXCEPT ![a] = rest]
                 /\ pc' = [pc EXCEPT ![a] = "transition"]
                 /\ UNCHANGED <<task, memory>>
    BY <1>6 DEF Saved
  <2>2. pc[a] = "saved"
    BY <1>6 DEF Saved
  <2>3. CASE rest = << >>
    BY <2>1, <2>3, CommitEndTable
  <2>4. CASE rest # << >>
    <3>1. /\ pc'[a] = "transition" /\ todo'[a] = rest
          /\ \A b \in Actors \ {a} : pc'[b] = pc[b] /\ todo'[b] = todo[b]
          /\ UNCHANGED <<task, memory>>
          /\ Commit(a) \/ UNCHANGED <<row, draft, locks>>
      BY <2>1, <2>4 DEF TypeInv, TypeOK
    <3>2. AsideOf(a)
      <4>1. \A b \in Actors \ {a} : rowLock' = b => rowLock = b /\ row' = row /\ draft' = draft
        BY <3>1, NoOneAssumption DEF Commit, Release, View, locks
      <4>. QED
        BY <3>1, <4>1 DEF AsideOf, memory
    <3>3. Tail(rest) = << >> \/ (Head(rest) = "provisioning" /\ Tail(rest) = <<"online">>)
      <4>1. CASE fields[a] = "status"
        <5>1. rest = Tail(todo[a])
          BY <2>1, <4>1
        <5>2. Tail(todo[a]) = << >> \/ Tail(todo[a]) = <<"online">>
          BY <2>2, <4>1 DEF ShapeOK, Saving
        <5>3. Tail(<<"online">>) = << >>
          OBVIOUS
        <5>. QED
          BY <2>4, <5>1, <5>2, <5>3
      <4>2. CASE fields[a] # "status"
        BY <2>1, <2>4, <4>2, PlansShape
      <4>. QED
        BY <4>1, <4>2
    <3>4. ShapeOK(a)'
      BY <2>2, <3>1, <3>3 DEF ShapeOK, Saving
    <3>5. ChainOK(a)'
      <4>1. CASE Commit(a)
        BY <4>1 DEF Commit, Release, ChainOK
      <4>2. CASE UNCHANGED <<row, draft, locks>> /\ fields[a] = "status"
        BY <2>1, <2>2, <2>4, <3>1, <4>2 DEF ChainOK, Halfway, locks
      <4>3. CASE UNCHANGED <<row, draft, locks>> /\ fields[a] # "status"
        <5>1. fields[a] # "all"
          <6>1. SUFFICES ASSUME fields[a] = "all" PROVE FALSE
            OBVIOUS
          <6>2. task[a] = "form"
            BY <2>2, <6>1 DEF ShapeOK, Saving
          <6>. QED
            BY <2>1, <2>4, <6>1, <6>2 DEF Plans, Settled
        <5>. QED
          BY <2>2, <3>1, <4>3, <5>1 DEF ChainOK, locks
      <4>. QED
        BY <3>1, <4>1, <4>2, <4>3
    <3>. QED
      BY <3>2, <3>4, <3>5, OthersTable
  <2>. QED
    BY <2>3, <2>4
<1>. QED
  BY <1>1, <1>2, <1>3, <1>4, <1>5, <1>6 DEF Step

LEMMA NextTable ==
  ASSUME ~Moves, TypeInv, SerialInv, TableInv, [Next]_vars
  PROVE  TableInv'
<1>1. CASE UNCHANGED vars
  BY <1>1 DEF vars, locks, memory, TableInv, ShapeOK, ChainOK, Saving, Halfway, CommittedStep
<1>2. ASSUME NEW a \in Actors, Begin(a) PROVE TableInv'
  BY <1>2, BeginTable DEF SerialInv
<1>3. ASSUME NEW a \in Actors, Step(a) PROVE TableInv'
  BY <1>3, StepTable
<1>4. ASSUME NEW a \in Actors, DeadlockVictim(a) \/ WorkerDies(a) PROVE TableInv'
  BY <1>4, RollbackTable DEF DeadlockVictim, WorkerDies
<1>. QED
  BY <1>1, <1>2, <1>3, <1>4 DEF Next

\* A commit that changes the status takes a step of the table.
LEMMA CommitFollows ==
  ASSUME TypeInv, TableInv, [Next]_vars
  PROVE  [CommittedStep(row.status, row'.status)]_row
<1>. row.status \in Statuses
  BY DEF TypeInv, TypeOK, Row
<1>1. CASE UNCHANGED vars
  BY <1>1 DEF vars
<1>2. ASSUME NEW a \in Actors, Begin(a) \/ DeadlockVictim(a) \/ WorkerDies(a) PROVE row' = row
  BY <1>2 DEF Begin, Upsert, RefreshLoad, SyncLoad, ImportLoad, FormLoad, ButtonLoad, AbsentList,
              Loads, DeadlockVictim, WorkerDies, Rollback
<1>3. ASSUME NEW a \in Actors, Step(a)
      PROVE  [CommittedStep(row.status, row'.status)]_row
  <2>. ChainOK(a)
    BY DEF TableInv
  <2>1. row' = row \/ (Commit(a) /\ pc[a] \in {"transition", "saved"})
    BY <1>3 DEF Step, TransitionAccepted, TransitionRefused, PreSave, Validated, PreSaveRejected,
                Update, Saved, Rollback
  <2>2. CASE Commit(a) /\ pc[a] \in {"transition", "saved"} /\ rowLock = a
    <3>1. row' = draft
      BY <2>2 DEF Commit, View
    <3>2. \/ draft.status = row.status
          \/ CommittedStep(row.status, draft.status)
          \/ draft.status = "provisioning" /\ row.status \in {"discovered", "provisioning"}
      BY <2>2 DEF ChainOK, Halfway
    <3>. QED
      BY <3>1, <3>2, SecondHop DEF CommittedStep, IsValidTransition
  <2>3. CASE Commit(a) /\ rowLock # a
    BY <2>3 DEF Commit, View
  <2>. QED
    BY <2>1, <2>2, <2>3
<1>. QED
  BY <1>1, <1>2, <1>3 DEF Next

LEMMA InitTable == Init => TableInv
BY NoOneAssumption DEF Init, TableInv, ShapeOK, ChainOK, Saving

(* Whatever writers overlap, die or are aborted, a commit moves the status *)
(* along one entry of the table, or over provisioning from discovered to   *)
(* online, as long as no payload or form carries another address.          *)
THEOREM CommitsFollowTable == ASSUME ~Moves PROVE Spec => StatusFollowsTable
<1>1. TypeInv /\ TableInv /\ [Next]_vars => [CommittedStep(row.status, row'.status)]_row
  BY CommitFollows
<1>2. TypeInv /\ SerialInv /\ [Next]_vars => SerialInv'
  BY NextSerial
<1>3. TypeInv /\ SerialInv /\ TableInv /\ [Next]_vars => TableInv'
  BY NextTable
<1>4. Spec => []TypeInv
  BY TypeInvHolds
<1>. QED
  BY <1>1, <1>2, <1>3, <1>4, InitSerial, InitTable, PTL DEF Spec, StatusFollowsTable

-----------------------------------------------------------------------------
(***************************************************************************)
(* The writers that lock the row before they read it keep the derived      *)
(* column in step with the status, even when they move the chassis: the    *)
(* instance they save is the row, and only they can change it.             *)
(***************************************************************************)
Matches(r) == r.online <=> r.status \in Operational

SaverHoldsRow ==
  \A a \in Actors : pc[a] \in {"save", "update", "saved"} => rowLock = a

CopyIsCurrent ==
  \A a \in Actors :
    pc[a] \in {"save", "update"} /\ fields[a] # "status" => inst[a].status = draft.status

DerivedIsCurrent ==
  \A a \in Actors :
    pc[a] = "update" =>
      /\ old[a] = draft.status
      /\ old[a] # inst[a].status => Matches(inst[a])

LockedInv ==
  /\ DraftWhenUnlocked
  /\ Matches(row)
  /\ Matches(draft)
  /\ SaverHoldsRow
  /\ \A a \in Actors : fields[a] # "all"
  /\ CopyIsCurrent
  /\ DerivedIsCurrent

LEMMA CommitLocked ==
  ASSUME TypeInv, LockedInv, NEW a \in Actors, Commit(a), LeavesSave(a),
         \A b \in Actors : fields'[b] # "all",
         \A b \in Actors \ {a} : fields'[b] = fields[b]
  PROVE  LockedInv'
<1>. a # NoOne
  BY NoOneAssumption
<1>1. DraftWhenUnlocked' /\ Matches(row)' /\ Matches(draft)'
  BY DEF LockedInv, DraftWhenUnlocked, Matches, Commit, Release, View
<1>2. ASSUME NEW b \in Actors \ {a}, pc[b] \in {"save", "update", "saved"}
      PROVE  rowLock' = rowLock /\ rowLock = b /\ draft' = draft
  BY <1>2, NoOneAssumption DEF LockedInv, SaverHoldsRow, Commit, Release
<1>3. SaverHoldsRow' /\ CopyIsCurrent' /\ DerivedIsCurrent'
  BY <1>2 DEF LockedInv, SaverHoldsRow, CopyIsCurrent, DerivedIsCurrent, LeavesSave, Matches
<1>. QED
  BY <1>1, <1>3 DEF LockedInv

LEMMA RollbackLocked ==
  ASSUME TypeInv, LockedInv, NEW a \in Actors, Rollback(a)
  PROVE  LockedInv'
<1>. a # NoOne /\ LeavesSave(a)
  BY NoOneAssumption, EndedLeavesSave DEF Rollback
<1>0. \A b \in Actors : fields'[b] # "all" /\ (b # a => fields'[b] = fields[b])
  BY DEF LockedInv, Rollback, Ended, TypeInv, TypeOK
<1>1. DraftWhenUnlocked' /\ Matches(row)' /\ Matches(draft)'
  BY DEF LockedInv, DraftWhenUnlocked, Matches, Rollback, Release
<1>2. ASSUME NEW b \in Actors \ {a}, pc[b] \in {"save", "update", "saved"}
      PROVE  rowLock' = rowLock /\ rowLock = b /\ draft' = draft
  BY <1>2, NoOneAssumption DEF LockedInv, SaverHoldsRow, Rollback, Release
<1>3. SaverHoldsRow' /\ CopyIsCurrent' /\ DerivedIsCurrent'
  BY <1>0, <1>2 DEF LockedInv, SaverHoldsRow, CopyIsCurrent, DerivedIsCurrent,
                    LeavesSave, Matches
<1>. QED
  BY <1>0, <1>1, <1>3 DEF LockedInv

LEMMA BeginLocked ==
  ASSUME Tasks \subseteq {"realtime", "absent", "refresh"},
         TypeInv, LockedInv, NEW a \in Actors, Begin(a)
  PROVE  LockedInv'
<1>. a # NoOne /\ row \in Row
  BY NoOneAssumption DEF TypeInv, TypeOK
<1>1. CASE AbsentList(a)
  BY <1>1 DEF AbsentList, locks, memory, LockedInv, DraftWhenUnlocked, Matches,
              SaverHoldsRow, CopyIsCurrent, DerivedIsCurrent, TypeInv, TypeOK
<1>2. ASSUME NEW t, NEW i \in Row, NEW fs \in {"meta", "address"}, Loads(a, t, i, fs),
             i.status = row.status, rowLock = NoOne, rowLock' = a, draft' = row
      PROVE  LockedInv'
  <2>1. /\ row' = row /\ draft' = draft
        /\ \A b \in Actors : pc[b] \notin {"save", "update", "saved"}
        /\ \A b \in Actors \ {a} : pc'[b] = pc[b]
        /\ pc'[a] = "save" /\ inst'[a] = i
        /\ \A b \in Actors : fields'[b] # "all"
    BY <1>2, NoOneAssumption DEF Loads, LockedInv, DraftWhenUnlocked, SaverHoldsRow,
                                 TypeInv, TypeOK
  <2>. QED
    BY <1>2, <2>1 DEF LockedInv, DraftWhenUnlocked, Matches, SaverHoldsRow,
                      CopyIsCurrent, DerivedIsCurrent
<1>3. CASE Upsert(a)
  <2>1. PICK ip \in CarriedAddresses :
          /\ rowLock = NoOne /\ rowLock' = a /\ draft' = row
          /\ Loads(a, "realtime", [row EXCEPT !.ip = ip], "address")
    BY <1>3 DEF Upsert
  <2>2. ip \in Addresses
    BY DEF CarriedAddresses, Row
  <2>3. [row EXCEPT !.ip = ip] \in Row /\ [row EXCEPT !.ip = ip].status = row.status
    BY <2>2 DEF Row
  <2>. QED
    BY <1>2, <2>1, <2>3
<1>4. CASE RefreshLoad(a)
  BY <1>2, <1>4 DEF RefreshLoad
<1>5. Upsert(a) \/ RefreshLoad(a) \/ AbsentList(a)
  BY DEF Begin, SyncLoad, ImportLoad, FormLoad, ButtonLoad, Loads
<1>. QED
  BY <1>1, <1>3, <1>4, <1>5

LEMMA StepLocked ==
  ASSUME TypeInv, LockedInv, NEW a \in Actors, Step(a)
  PROVE  LockedInv'
<1>. a # NoOne /\ View(a) \in Row /\ inst[a] \in Row
  BY NoOneAssumption, ViewType DEF TypeInv, TypeOK
<1>1. CASE TransitionAccepted(a)
  <2>1. /\ draft' = draft /\ row' = row /\ rowLock \in {NoOne, a} /\ rowLock' = a
        /\ old' = old /\ pc'[a] = "save" /\ fields'[a] = "status"
        /\ \A b \in Actors \ {a} : pc'[b] = pc[b] /\ inst'[b] = inst[b] /\ fields'[b] = fields[b]
    BY <1>1 DEF TransitionAccepted, Free, View, LockedInv, DraftWhenUnlocked, TypeInv, TypeOK
  <2>2. \A b \in Actors \ {a} : pc[b] \notin {"save", "update", "saved"}
    BY <2>1, NoOneAssumption DEF LockedInv, SaverHoldsRow
  <2>. QED
    BY <2>1, <2>2 DEF LockedInv, DraftWhenUnlocked, Matches, SaverHoldsRow,
                      CopyIsCurrent, DerivedIsCurrent
<1>2. CASE TransitionRefused(a)
  <2>1. CASE Rollback(a)
    BY <2>1, RollbackLocked
  <2>2. CASE Commit(a) /\ Ended(a)
    <3>1. \A b \in Actors : fields'[b] # "all" /\ (b # a => fields'[b] = fields[b])
      BY <2>2 DEF LockedInv, Ended, TypeInv, TypeOK
    <3>. QED
      BY <2>2, <3>1, CommitLocked, EndedLeavesSave
  <2>3. CASE UNCHANGED <<row, draft, locks, task, pc, memory>>
    BY <2>3 DEF locks, memory, LockedInv, DraftWhenUnlocked, Matches, SaverHoldsRow,
                CopyIsCurrent, DerivedIsCurrent
  <2>. QED
    BY <1>2, <2>1, <2>2, <2>3 DEF TransitionRefused
<1>3. CASE PreSave(a)
  <2>1. /\ row' = row /\ draft' = draft /\ rowLock' = rowLock /\ fields' = fields
        /\ pc[a] = "save" /\ pc'[a] = "update" /\ old'[a] = View(a).status
        /\ \A b \in Actors \ {a} : pc'[b] = pc[b] /\ old'[b] = old[b] /\ inst'[b] = inst[b]
    BY <1>3 DEF PreSave, Validated, TypeInv, TypeOK
  <2>2. rowLock = a /\ View(a) = draft
    BY <2>1 DEF LockedInv, SaverHoldsRow, View
  <2>3. /\ inst'[a].status = inst[a].status
        /\ old'[a] # inst[a].status => Matches(inst'[a])
    <3>1. CASE View(a).status = inst[a].status
      BY <1>3, <2>1, <3>1 DEF PreSave, Validated
    <3>2. CASE View(a).status # inst[a].status
      <4>1. inst'[a] = [inst[a] EXCEPT !.online = inst[a].status \in Operational]
        BY <1>3, <3>2 DEF PreSave, Validated, TypeInv, TypeOK
      <4>. DEFINE b == inst[a].status \in Operational
      <4>2. b \in BOOLEAN
        OBVIOUS
      <4>3. ASSUME NEW r \in Row, NEW c \in BOOLEAN
            PROVE  [r EXCEPT !.online = c].online = c /\ [r EXCEPT !.online = c].status = r.status
        BY DEF Row
      <4>4. inst'[a].online = b /\ inst'[a].status = inst[a].status
        BY <4>1, <4>2, <4>3
      <4>. QED
        BY <4>4 DEF Matches
    <3>. QED
      BY <3>1, <3>2
  <2>4. DraftWhenUnlocked' /\ SaverHoldsRow' /\ Matches(row)' /\ Matches(draft)'
    BY <2>1, <2>2 DEF LockedInv, DraftWhenUnlocked, Matches, SaverHoldsRow
  <2>5. CopyIsCurrent' /\ DerivedIsCurrent'
    BY <2>1, <2>2, <2>3 DEF LockedInv, CopyIsCurrent, DerivedIsCurrent, Matches
  <2>. QED
    BY <2>1, <2>4, <2>5 DEF LockedInv
<1>4. CASE PreSaveRejected(a)
  BY <1>4, RollbackLocked DEF PreSaveRejected
<1>5. CASE Update(a)
  <2>1. /\ row' = row /\ draft' = Written(a) /\ rowLock' = a /\ inst' = inst
        /\ old' = old /\ fields' = fields /\ pc[a] = "update" /\ pc'[a] = "saved"
        /\ \A b \in Actors \ {a} : pc'[b] = pc[b]
    BY <1>5 DEF Update, memory, TypeInv, TypeOK
  <2>2. rowLock = a /\ View(a) = draft
    BY <2>1 DEF LockedInv, SaverHoldsRow, View
  <2>3. \A b \in Actors \ {a} : pc[b] \notin {"save", "update", "saved"}
    BY <2>2 DEF LockedInv, SaverHoldsRow
  <2>4. Matches(Written(a))
    BY <2>1, <2>2 DEF LockedInv, CopyIsCurrent, DerivedIsCurrent, Written, Matches, Row
  <2>. QED
    BY <2>1, <2>2, <2>4 DEF LockedInv, DraftWhenUnlocked, Matches, SaverHoldsRow,
                                  CopyIsCurrent, DerivedIsCurrent
<1>6. CASE Saved(a)
  <2>1. CASE Commit(a) /\ Ended(a)
    <3>1. \A b \in Actors : fields'[b] # "all" /\ (b # a => fields'[b] = fields[b])
      BY <2>1 DEF LockedInv, Ended, TypeInv, TypeOK
    <3>. QED
      BY <2>1, <3>1, CommitLocked, EndedLeavesSave
  <2>2. CASE /\ Commit(a) \/ UNCHANGED <<row, draft, locks>>
             /\ pc' = [pc EXCEPT ![a] = "transition"]
             /\ UNCHANGED memory
    <3>1. LeavesSave(a) /\ fields' = fields
      BY <2>2 DEF LeavesSave, memory, TypeInv, TypeOK
    <3>2. CASE Commit(a)
      BY <3>1, <3>2, CommitLocked DEF LockedInv
    <3>3. CASE UNCHANGED <<row, draft, locks>>
      BY <3>1, <3>3 DEF LeavesSave, locks, LockedInv, DraftWhenUnlocked, Matches,
                        SaverHoldsRow, CopyIsCurrent, DerivedIsCurrent
    <3>. QED
      BY <2>2, <3>2, <3>3
  <2>. QED
    BY <1>6, <2>1, <2>2 DEF Saved
<1>. QED
  BY <1>1, <1>2, <1>3, <1>4, <1>5, <1>6 DEF Step

LEMMA NextLocked ==
  ASSUME Tasks \subseteq {"realtime", "absent", "refresh"},
         TypeInv, LockedInv, [Next]_vars
  PROVE  LockedInv'
<1>1. CASE UNCHANGED vars
  BY <1>1 DEF vars, locks, memory, LockedInv, DraftWhenUnlocked, Matches, SaverHoldsRow,
              CopyIsCurrent, DerivedIsCurrent
<1>2. ASSUME NEW a \in Actors, Begin(a) PROVE LockedInv'
  BY <1>2, BeginLocked
<1>3. ASSUME NEW a \in Actors, Step(a) PROVE LockedInv'
  BY <1>3, StepLocked
<1>4. ASSUME NEW a \in Actors, DeadlockVictim(a) \/ WorkerDies(a) PROVE LockedInv'
  BY <1>4, RollbackLocked DEF DeadlockVictim, WorkerDies
<1>. QED
  BY <1>1, <1>2, <1>3, <1>4 DEF Next

LEMMA InitLocked == Init => LockedInv
BY DEF Init, LockedInv, DraftWhenUnlocked, Matches, SaverHoldsRow, CopyIsCurrent,
       DerivedIsCurrent, Row

(* The upsert, the offline pass and the single-chassis refresh, any number *)
(* of them and with any failures, never leave a committed row whose        *)
(* is_online contradicts its status.                                       *)
THEOREM LockedWritersKeepOnline ==
  ASSUME Tasks \subseteq {"realtime", "absent", "refresh"}
  PROVE  Spec => []OnlineMatchesStatus
<1>1. LockedInv => OnlineMatchesStatus
  BY DEF LockedInv, Matches, OnlineMatchesStatus
<1>2. TypeInv /\ LockedInv /\ [Next]_vars => LockedInv'
  BY NextLocked
<1>3. Spec => []TypeInv
  BY TypeInvHolds
<1>. QED
  BY <1>1, <1>2, <1>3, InitLocked, PTL DEF Spec

-----------------------------------------------------------------------------
(***************************************************************************)
(* One writer of a chassis at a time.  While nobody else is at work, what  *)
(* the writer reads is the row or its own write, so the instance it holds  *)
(* is current except for what it is about to write.                        *)
(***************************************************************************)
Busy(a) == task[a] # "none"

Saves(a) == pc[a] \in {"save", "update", "saved"}

\* What the writer at work knows of the row.
Sound(a) ==
  /\ Matches(View(a))
  /\ pc[a] = "save" => inst[a].online = View(a).online
  /\ pc[a] = "update" => old[a] = View(a).status /\ Matches(inst[a])
  /\ pc[a] \in {"save", "update"} /\ fields[a] \in {"meta", "address"} =>
       inst[a].status = View(a).status

OtherStatuses == Statuses \ {"maintenance"}

\* A writer that must keep maintenance found the chassis in it and has no transition to make,
\* or did not find it there and makes none to it.
Keeps(a) ==
  task[a] \in {"realtime", "absent", "sync"} =>
    \/ /\ row.status = "maintenance" /\ View(a).status = "maintenance"
       /\ Saves(a) /\ inst[a].status = "maintenance"
       /\ task[a] # "absent"
       /\ fields[a] = "meta" \/ (fields[a] = "address" /\ task[a] = "realtime")
    \/ /\ row.status # "maintenance" /\ View(a).status # "maintenance"
       /\ Saves(a) => inst[a].status # "maintenance"
       /\ pc[a] = "transition" \/ (Saves(a) /\ fields[a] = "status") =>
            todo[a] \in Seq(OtherStatuses)

AloneInv ==
  /\ \A a \in Actors : pc[a] = "idle" <=> ~Busy(a)
  /\ \A a, b \in Actors : Busy(a) /\ Busy(b) => a = b
  /\ rowLock # NoOne => Busy(rowLock)
  /\ DraftWhenUnlocked
  /\ Matches(row)
  /\ \A a \in Actors : Busy(a) => Sound(a) /\ (~Moves => Keeps(a))

\* Nothing of the others stands in the way of the writer at work.
LEMMA OwnView ==
  ASSUME TypeInv, AloneInv, NEW a \in Actors, Busy(a)
  PROVE  /\ rowLock \in {NoOne, a} /\ View(a) = draft
         /\ \A b \in Actors \ {a} : ~Busy(b) /\ pc[b] = "idle"
BY DEF AloneInv, TypeInv, TypeOK, DraftWhenUnlocked, View

\* Where nobody is at work the row is unlocked.
LEMMA Unlocked ==
  ASSUME TypeInv, AloneInv, \A b \in Actors : ~Busy(b)
  PROVE  rowLock = NoOne /\ draft = row
BY DEF AloneInv, TypeInv, TypeOK, DraftWhenUnlocked

\* The writer goes on, and the others are where they were.
LEMMA GoesOnAlone ==
  ASSUME TypeInv, AloneInv, NEW a \in Actors, \A b \in Actors \ {a} : ~Busy(b),
         Busy(a)', pc'[a] # "idle",
         \A b \in Actors \ {a} : task'[b] = task[b] /\ pc'[b] = pc[b],
         rowLock' \in {NoOne, a}, rowLock' = NoOne => draft' = row',
         Matches(row)', Sound(a)', ~Moves => Keeps(a)'
  PROVE  AloneInv'
BY NoOneAssumption DEF AloneInv, Busy, DraftWhenUnlocked

\* The writer has ended, and nobody is at work.
LEMMA EndsAlone ==
  ASSUME TypeInv, AloneInv, NEW a \in Actors, Busy(a), Ended(a), Release(a),
         Matches(row)', draft' = row'
  PROVE  AloneInv'
<1>1. \A b \in Actors : task'[b] = "none" /\ pc'[b] = "idle"
  BY OwnView DEF Ended, Busy, TypeInv, TypeOK
<1>2. rowLock' = NoOne
  BY OwnView DEF Release
<1> QED
  BY <1>1, <1>2 DEF AloneInv, Busy, DraftWhenUnlocked

LEMMA CommitsAlone ==
  ASSUME TypeInv, AloneInv, NEW a \in Actors, Busy(a), Commit(a)
  PROVE  row' = draft /\ draft' = draft /\ Matches(row)' /\ rowLock' = NoOne
BY OwnView DEF Commit, Release, AloneInv, Sound, Matches

LEMMA CommitEndsAlone ==
  ASSUME TypeInv, AloneInv, NEW a \in Actors, Busy(a), Commit(a), Ended(a)
  PROVE  AloneInv'
BY CommitsAlone, EndsAlone DEF Commit

LEMMA RollbackAlone ==
  ASSUME TypeInv, AloneInv, NEW a \in Actors, Busy(a), Rollback(a)
  PROVE  AloneInv'
<1>1. row' = row /\ draft' = row /\ Release(a) /\ Ended(a)
  BY OwnView DEF Rollback, AloneInv, DraftWhenUnlocked
<1>2. Matches(row)'
  BY <1>1 DEF AloneInv, Matches
<1> QED
  BY <1>1, <1>2, EndsAlone

\* A writer that begins holds the row as it is, except for what it may write.
LEMMA LoadsAlone ==
  ASSUME TypeInv, AloneInv, NEW a \in Actors, \A b \in Actors : ~Busy(b),
         NEW t \in AllTasks, NEW i \in Row, NEW fs \in {"meta", "address", "status", "all"},
         Loads(a, t, i, fs),
         rowLock' \in {rowLock, a}, draft' \in {draft, row},
         i.online = row.online,
         fs \in {"meta", "address"} => i.status = row.status,
         t \in {"realtime", "sync"} => fs = "meta" \/ (fs = "address" /\ (t = "sync" => Moves)),
         t # "absent"
  PROVE  AloneInv'
<1>1. rowLock = NoOne /\ draft = row
  BY Unlocked
<1>2. /\ row' = row /\ draft' = row /\ task'[a] = t /\ pc'[a] = "save" /\ inst'[a] = i
      /\ fields'[a] = fs /\ t # "none"
      /\ \A b \in Actors \ {a} : task'[b] = task[b] /\ pc'[b] = pc[b]
  BY <1>1 DEF Loads, TypeInv, TypeOK, AllTasks
<1>3. View(a)' = row
  BY <1>2 DEF View
<1>4. Sound(a)'
  BY <1>2, <1>3 DEF Sound, AloneInv, Matches
<1>5. ~Moves => Keeps(a)'
  BY <1>2, <1>3 DEF Keeps, Saves
<1> QED
  BY <1>1, <1>2, <1>4, <1>5, GoesOnAlone DEF Busy, AloneInv, Matches

LEMMA BeginAlone ==
  ASSUME TypeInv, AloneInv, NEW a \in Actors, \A b \in Actors : ~Busy(b), Begin(a)
  PROVE  AloneInv'
<1>0. row \in Row /\ row.ip \in Addresses
  BY DEF TypeInv, TypeOK, Row
<1>1. \A ip \in CarriedAddresses : ip \in Addresses /\ (~Moves => ip = row.ip)
  BY DEF CarriedAddresses
<1>2. ASSUME NEW ip \in Addresses
      PROVE  LET i == [row EXCEPT !.ip = ip]
             IN  i \in Row /\ i.online = row.online /\ i.status = row.status
  BY <1>0 DEF Row
<1>3. ASSUME NEW ip \in Addresses, NEW s \in Statuses
      PROVE  LET i == [row EXCEPT !.status = s, !.ip = ip]
             IN  i \in Row /\ i.online = row.online
  BY <1>0 DEF Row
<1>4. ASSUME NEW s \in Statuses
      PROVE  LET i == [row EXCEPT !.status = s]
             IN  i \in Row /\ i.online = row.online
  BY <1>0 DEF Row
<1>5. CASE Upsert(a)
  <2>1. PICK ip \in CarriedAddresses :
          /\ rowLock' = a /\ draft' = row
          /\ Loads(a, "realtime", [row EXCEPT !.ip = ip], "address")
    BY <1>5 DEF Upsert
  <2> DEFINE i == [row EXCEPT !.ip = ip]
  <2>2. i \in Row /\ i.online = row.online /\ i.status = row.status
    BY <1>1, <1>2
  <2> HIDE DEF i
  <2>3. Loads(a, "realtime", i, "address")
    BY <2>1 DEF i
  <2> QED
    BY <2>1, <2>2, <2>3, LoadsAlone DEF AllTasks
<1>6. CASE RefreshLoad(a)
  BY <1>0, <1>6, LoadsAlone DEF RefreshLoad, AllTasks
<1>7. CASE SyncLoad(a)
  <2>1. PICK ip \in CarriedAddresses :
          /\ UNCHANGED <<rowLock, draft>>
          /\ Loads(a, "sync", [row EXCEPT !.ip = ip], IF ip = row.ip THEN "meta" ELSE "address")
    BY <1>7 DEF SyncLoad
  <2> DEFINE i == [row EXCEPT !.ip = ip]
             fs == IF ip = row.ip THEN "meta" ELSE "address"
  <2>2. /\ i \in Row /\ i.online = row.online /\ i.status = row.status
        /\ fs \in {"meta", "address"} /\ (fs = "address" => Moves)
    BY <1>1, <1>2, MovesAssumption
  <2> HIDE DEF i, fs
  <2>3. Loads(a, "sync", i, fs)
    BY <2>1 DEF i, fs
  <2> QED
    BY <2>1, <2>2, <2>3, LoadsAlone DEF AllTasks
<1>8. CASE ImportLoad(a)
  <2>1. PICK ip \in CarriedAddresses :
          /\ UNCHANGED <<rowLock, draft>>
          /\ Loads(a, "import", [row EXCEPT !.ip = ip], "address")
    BY <1>8 DEF ImportLoad
  <2> DEFINE i == [row EXCEPT !.ip = ip]
  <2>2. i \in Row /\ i.online = row.online /\ i.status = row.status
    BY <1>1, <1>2
  <2> HIDE DEF i
  <2>3. Loads(a, "import", i, "address")
    BY <2>1 DEF i
  <2> QED
    BY <2>1, <2>2, <2>3, LoadsAlone DEF AllTasks
<1>9. CASE FormLoad(a)
  <2>1. PICK ip \in CarriedAddresses, s \in Statuses :
          /\ UNCHANGED <<rowLock, draft>>
          /\ Loads(a, "form", [row EXCEPT !.status = s, !.ip = ip], "all")
    BY <1>9 DEF FormLoad
  <2> DEFINE i == [row EXCEPT !.status = s, !.ip = ip]
  <2>2. i \in Row /\ i.online = row.online
    BY <1>1, <1>3
  <2> HIDE DEF i
  <2>3. Loads(a, "form", i, "all")
    BY <2>1 DEF i
  <2> QED
    BY <2>1, <2>2, <2>3, LoadsAlone DEF AllTasks
<1>10. CASE ButtonLoad(a)
  <2>1. PICK s \in {"online", "offline"} :
          /\ UNCHANGED <<rowLock, draft>>
          /\ Loads(a, "button", [row EXCEPT !.status = s], "status")
    BY <1>10 DEF ButtonLoad
  <2> DEFINE i == [row EXCEPT !.status = s]
  <2>2. i \in Row /\ i.online = row.online
    BY <1>4 DEF Statuses
  <2> HIDE DEF i
  <2>3. Loads(a, "button", i, "status")
    BY <2>1 DEF i
  <2> QED
    BY <2>1, <2>2, <2>3, LoadsAlone DEF AllTasks
<1>11. CASE AbsentList(a)
  <2>1. rowLock = NoOne /\ draft = row
    BY Unlocked
  <2>2. /\ UNCHANGED <<row, draft, rowLock>> /\ row.status # "maintenance"
        /\ task'[a] = "absent" /\ pc'[a] = "transition" /\ todo'[a] = <<"offline">>
        /\ \A b \in Actors \ {a} : task'[b] = task[b] /\ pc'[b] = pc[b]
    BY <1>11 DEF AbsentList, locks, memory, TypeInv, TypeOK
  <2>3. View(a)' = row /\ Matches(row)'
    BY <2>1, <2>2 DEF View, AloneInv, Matches
  <2>4. Sound(a)' /\ Keeps(a)'
    BY <2>2, <2>3 DEF Sound, Keeps, AloneInv, Matches, Saves, OtherStatuses, Statuses
  <2> QED
    BY <2>1, <2>2, <2>3, <2>4, GoesOnAlone DEF Busy
<1> QED
  BY <1>5, <1>6, <1>7, <1>8, <1>9, <1>10, <1>11 DEF Begin

LEMMA HopsAside ==
  ASSUME NEW s \in Statuses
  PROVE  Hops(s, "online") \in Seq(OtherStatuses)
<1>1. {"online", "provisioning"} \subseteq OtherStatuses
  BY DEF OtherStatuses, Statuses
<1> HIDE DEF OtherStatuses
<1>2. <<"online">> \in Seq(OtherStatuses) /\ <<"provisioning", "online">> \in Seq(OtherStatuses)
  BY <1>1
<1> QED
  BY <1>2 DEF Hops

\* Who has found the chassis under maintenance and must leave it there is settled; who must
\* leave it there otherwise plans transitions to other statuses only.
LEMMA PlansAside ==
  ASSUME TypeInv, NEW a \in Actors, Keeps(a), pc[a] = "saved", fields[a] # "status",
         task[a] \in {"realtime", "absent", "sync"}, NEW rest \in Plans(a)
  PROVE  /\ rest \in Seq(OtherStatuses)
         /\ row.status = "maintenance" => rest = << >>
<1>1. inst[a].status \in Statuses
  BY DEF TypeInv, TypeOK, Row
<1>2. rest = << >> \/ (~Settled(a) /\ rest = Hops(inst[a].status, "online"))
  BY DEF Plans
<1>3. row.status = "maintenance" => Settled(a)
  BY DEF Keeps, Saves, Settled
<1>4. << >> \in Seq(OtherStatuses)
  OBVIOUS
<1> QED
  BY <1>1, <1>2, <1>3, <1>4, HopsAside

LEMMA HeadAside ==
  ASSUME NEW s \in Seq(OtherStatuses), s # << >>
  PROVE  Head(s) \in OtherStatuses /\ Tail(s) \in Seq(OtherStatuses)
OBVIOUS

LEMMA StepAlone ==
  ASSUME TypeInv, AloneInv, NEW a \in Actors, Busy(a), Step(a)
  PROVE  AloneInv'
<1>0. /\ View(a) \in Row /\ inst[a] \in Row /\ row \in Row /\ a # NoOne
      /\ rowLock \in {NoOne, a} /\ View(a) = draft
      /\ \A b \in Actors \ {a} : ~Busy(b)
      /\ Sound(a) /\ (~Moves => Keeps(a)) /\ Matches(row)
  BY NoOneAssumption, OwnView, ViewType DEF AloneInv, TypeInv, TypeOK
<1>1. CASE TransitionAccepted(a)
  <2>1. PICK s \in Statuses : s = Head(todo[a])
    BY <1>1, TypeInv DEF TransitionAccepted, TypeInv, TypeOK, TodoNonEmpty
  <2>2. /\ pc[a] = "transition" /\ row' = row /\ rowLock' = a /\ draft' = draft
        /\ inst' = [inst EXCEPT ![a] = [View(a) EXCEPT !.status = s]]
        /\ fields'[a] = "status" /\ pc'[a] = "save" /\ UNCHANGED <<task, todo>>
        /\ \A b \in Actors \ {a} : pc'[b] = pc[b]
    BY <1>0, <1>1, <2>1 DEF TransitionAccepted, TypeInv, TypeOK
  <2>3. inst'[a].status = s /\ inst'[a].online = View(a).online
    BY <1>0, <2>2 DEF TypeInv, TypeOK, Row
  <2>4. View(a)' = View(a)
    BY <1>0, <2>2 DEF View
  <2>5. Sound(a)' /\ Matches(row)'
    BY <1>0, <2>2, <2>3, <2>4 DEF Sound, Matches
  <2>6. ASSUME ~Moves
        PROVE  Keeps(a)'
    <3>1. task[a] \in {"realtime", "absent", "sync"} => s \in OtherStatuses
      BY <1>0, <1>1, <2>1, <2>2, <2>6, HeadAside DEF Keeps, Saves, TypeInv, TodoNonEmpty
    <3> QED
      BY <1>0, <2>2, <2>3, <2>4, <2>6, <3>1 DEF Keeps, Saves, OtherStatuses
  <2> QED
    BY <1>0, <2>2, <2>5, <2>6, GoesOnAlone DEF Busy
<1>2. CASE TransitionRefused(a)
  <2>1. CASE Rollback(a)
    BY <2>1, RollbackAlone
  <2>2. CASE Commit(a) /\ Ended(a)
    BY <2>2, CommitEndsAlone
  <2>3. CASE task[a] = "refresh" /\ UNCHANGED <<row, draft, locks, task, pc, memory>>
    <3>1. pc[a] = "transition" /\ UNCHANGED <<row, draft, rowLock, task, pc, inst, fields, old>>
      BY <1>2, <2>3 DEF TransitionRefused, locks, memory
    <3>2. View(a)' = View(a)
      BY <3>1 DEF View
    <3>3. Sound(a)' /\ Keeps(a)' /\ Matches(row)'
      BY <1>0, <2>3, <3>1, <3>2 DEF Sound, Keeps, Matches
    <3>4. rowLock = NoOne => draft = row
      BY DEF AloneInv, DraftWhenUnlocked
    <3> QED
      BY <1>0, <3>1, <3>3, <3>4, GoesOnAlone DEF Busy
  <2> QED
    BY <1>2, <2>1, <2>2, <2>3 DEF TransitionRefused
<1>3. CASE PreSave(a)
  <2>1. /\ UNCHANGED <<row, draft, rowLock, task, fields, todo>>
        /\ pc[a] = "save" /\ pc'[a] = "update" /\ old'[a] = View(a).status
        /\ \A b \in Actors \ {a} : pc'[b] = pc[b]
    BY <1>3 DEF PreSave, Validated, TypeInv, TypeOK
  <2>2. View(a)' = View(a)
    BY <2>1 DEF View
  <2>3. inst'[a].status = inst[a].status /\ Matches(inst'[a])
    <3>1. CASE View(a).status = inst[a].status
      BY <1>0, <1>3, <2>1, <3>1 DEF PreSave, Validated, Sound, Matches
    <3>2. CASE View(a).status # inst[a].status
      <4>1. inst'[a] = [inst[a] EXCEPT !.online = inst[a].status \in Operational]
        BY <1>3, <3>2 DEF PreSave, Validated, TypeInv, TypeOK
      <4> DEFINE b == inst[a].status \in Operational
      <4>2. b \in BOOLEAN
        OBVIOUS
      <4>3. ASSUME NEW r \in Row, NEW c \in BOOLEAN
            PROVE  [r EXCEPT !.online = c].online = c /\ [r EXCEPT !.online = c].status = r.status
        BY DEF Row
      <4>4. inst'[a].online = b /\ inst'[a].status = inst[a].status
        BY <1>0, <4>1, <4>2, <4>3
      <4> QED
        BY <4>4 DEF Matches
    <3> QED
      BY <3>1, <3>2
  <2>4. Sound(a)' /\ Matches(row)'
    BY <1>0, <2>1, <2>2, <2>3 DEF Sound, Matches
  <2>5. ASSUME ~Moves
        PROVE  Keeps(a)'
    BY <1>0, <2>1, <2>2, <2>3, <2>5 DEF Keeps, Saves
  <2>6. rowLock = NoOne => draft = row
    BY DEF AloneInv, DraftWhenUnlocked
  <2> QED
    BY <1>0, <2>1, <2>4, <2>5, <2>6, GoesOnAlone DEF Busy
<1>4. CASE PreSaveRejected(a)
  BY <1>4, RollbackAlone DEF PreSaveRejected
<1>5. CASE Update(a)
  <2>1. /\ row' = row /\ draft' = Written(a) /\ rowLock' = a
        /\ UNCHANGED <<inst, old, fields, task, todo>>
        /\ pc[a] = "update" /\ pc'[a] = "saved"
        /\ \A b \in Actors \ {a} : pc'[b] = pc[b]
    BY <1>5 DEF Update, memory, TypeInv, TypeOK
  <2>2. View(a)' = Written(a)
    BY <2>1 DEF View
  <2>3. fields[a] \in {"meta", "address", "status", "all"}
    BY DEF TypeInv, TypeOK
  <2>4. Matches(Written(a))
    BY <1>0, <2>1, <2>3 DEF Sound, Written, Matches, Row
  <2>5. /\ fields[a] \in {"status", "all"} => Written(a).status = inst[a].status
        /\ fields[a] \in {"meta", "address"} => Written(a).status = View(a).status
    BY <2>3 DEF Written
  <2>6. Sound(a)' /\ Matches(row)'
    BY <1>0, <2>1, <2>2, <2>4 DEF Sound, Matches
  <2>7. ASSUME ~Moves
        PROVE  Keeps(a)'
    BY <1>0, <2>1, <2>2, <2>3, <2>5, <2>7 DEF Keeps, Saves
  <2> QED
    BY <1>0, <2>1, <2>6, <2>7, GoesOnAlone DEF Busy
<1>6. CASE Saved(a)
  <2>1. PICK rest \in IF fields[a] = "status" THEN {Tail(todo[a])} ELSE Plans(a) :
          IF rest = << >>
            THEN Commit(a) /\ Ended(a)
            ELSE /\ IF task[a] = "realtime"
                      THEN Commit(a) ELSE UNCHANGED <<row, draft, locks>>
                 /\ todo' = [todo EXCEPT ![a] = rest]
                 /\ pc' = [pc EXCEPT ![a] = "transition"]
                 /\ UNCHANGED <<task, memory>>
    BY <1>6 DEF Saved
  <2>2. CASE rest = << >>
    BY <2>1, <2>2, CommitEndsAlone
  <2>3. CASE rest # << >>
    <3>1. /\ pc[a] = "saved" /\ todo'[a] = rest /\ pc'[a] = "transition" /\ task' = task
          /\ \A b \in Actors \ {a} : pc'[b] = pc[b]
      BY <1>6, <2>1, <2>3 DEF Saved, TypeInv, TypeOK
    <3>2. CASE Commit(a)
      <4>1. row' = draft /\ draft' = draft /\ Matches(row)' /\ rowLock' = NoOne
        BY <3>2, CommitsAlone
      <4>2. View(a)' = View(a)
        BY <1>0, <4>1 DEF View
      <4>3. Sound(a)'
        BY <1>0, <3>1, <4>2 DEF Sound, Matches
      <4>4. ASSUME ~Moves
            PROVE  Keeps(a)'
        <5> SUFFICES ASSUME task[a] \in {"realtime", "absent", "sync"}
                     PROVE  Keeps(a)'
          BY <3>1 DEF Keeps
        <5>1. rest \in Seq(OtherStatuses) /\ row.status # "maintenance"
          <6>1. CASE fields[a] = "status"
            BY <1>0, <2>1, <2>3, <3>1, <4>4, <6>1, HeadAside
               DEF Keeps, Saves, TypeInv, TodoNonEmpty
          <6>2. CASE fields[a] # "status"
            BY <1>0, <2>1, <2>3, <3>1, <4>4, <6>2, PlansAside
          <6> QED
            BY <6>1, <6>2
        <5>2. View(a).status # "maintenance"
          BY <1>0, <4>4, <5>1 DEF Keeps
        <5> QED
          BY <1>0, <3>1, <4>1, <4>2, <5>1, <5>2 DEF Keeps, Saves
      <4> QED
        BY <1>0, <3>1, <4>1, <4>3, <4>4, GoesOnAlone DEF Busy
    <3>3. CASE UNCHANGED <<row, draft, locks>>
      <4>1. UNCHANGED <<row, draft, rowLock>> /\ View(a)' = View(a)
        BY <3>3 DEF locks, View
      <4>2. Sound(a)' /\ Matches(row)'
        BY <1>0, <3>1, <4>1 DEF Sound, Matches
      <4>3. ASSUME ~Moves
            PROVE  Keeps(a)'
        <5> SUFFICES ASSUME task[a] \in {"realtime", "absent", "sync"}
                     PROVE  Keeps(a)'
          BY <3>1 DEF Keeps
        <5>1. rest \in Seq(OtherStatuses) /\ row.status # "maintenance"
          <6>1. CASE fields[a] = "status"
            BY <1>0, <2>1, <2>3, <3>1, <4>3, <6>1, HeadAside
               DEF Keeps, Saves, TypeInv, TodoNonEmpty
          <6>2. CASE fields[a] # "status"
            BY <1>0, <2>1, <2>3, <3>1, <4>3, <6>2, PlansAside
          <6> QED
            BY <6>1, <6>2
        <5>2. View(a).status # "maintenance"
          BY <1>0, <4>3, <5>1 DEF Keeps
        <5> QED
          BY <3>1, <4>1, <5>1, <5>2 DEF Keeps, Saves
      <4>4. rowLock = NoOne => draft = row
        BY DEF AloneInv, DraftWhenUnlocked
      <4> QED
        BY <1>0, <3>1, <4>1, <4>2, <4>3, <4>4, GoesOnAlone DEF Busy
    <3> QED
      BY <2>1, <2>3, <3>2, <3>3
  <2> QED
    BY <2>2, <2>3
<1> QED
  BY <1>1, <1>2, <1>3, <1>4, <1>5, <1>6 DEF Step

LEMMA AtMostOne ==
  ASSUME NEW S, IsFiniteSet(S), Cardinality(S) <= 1, NEW x \in S, NEW y \in S
  PROVE  x = y
<1>1. Cardinality(S) \in Nat /\ Cardinality(S) # 0
  BY FS_CardinalityType, FS_EmptySet
<1>2. Cardinality(S) = 1
  BY <1>1
<1> QED
  BY <1>2, FS_Singleton

LEMMA AloneInit == Init => AloneInv
BY DEF Init, AloneInv, Busy, DraftWhenUnlocked, Matches, Row

\* Whoever acts and does not begin is at work already.
LEMMA ActsBusy ==
  ASSUME AloneInv, NEW a \in Actors, Step(a) \/ DeadlockVictim(a) \/ WorkerDies(a)
  PROVE  Busy(a)
<1>1. CASE Step(a)
  <2>1. pc[a] # "idle"
    BY <1>1 DEF Step, TransitionAccepted, TransitionRefused, PreSave, PreSaveRejected, Update,
                Saved
  <2> QED
    BY <2>1 DEF AloneInv
<1>2. CASE DeadlockVictim(a)
  <2>1. pc[a] # "idle"
    BY <1>2, NoOneAssumption DEF DeadlockVictim, WaitsFor
  <2> QED
    BY <2>1 DEF AloneInv
<1>3. CASE WorkerDies(a)
  BY <1>3 DEF WorkerDies, Busy
<1> QED
  BY <1>1, <1>2, <1>3

LEMMA WatchedStep ==
  ASSUME IsFiniteSet(Actors), TypeInv, alone => AloneInv, [WatchedNext]_<<vars, alone>>, alone'
  PROVE  AloneInv'
<1>1. CASE UNCHANGED <<vars, alone>>
  BY <1>1 DEF vars, locks, memory, AloneInv, Busy, DraftWhenUnlocked, Matches, Sound, Keeps,
              Saves, View
<1>2. CASE WatchedNext
  <2> DEFINE busy == {b \in Actors : task'[b] # "none"}
  <2>1. AloneInv /\ Next /\ Cardinality(busy) <= 1
    <3>1. Next /\ alone' = (alone /\ Cardinality(busy) <= 1)
      BY Zenon, <1>2 DEF WatchedNext
    <3>2. alone /\ Cardinality(busy) <= 1
      BY Zenon, <3>1
    <3> QED
      BY <3>1, <3>2
  <2>2. IsFiniteSet(busy)
    BY FS_Subset
  <2>3. PICK a \in Actors : Begin(a) \/ Step(a) \/ DeadlockVictim(a) \/ WorkerDies(a)
    BY <2>1 DEF Next
  <2>4. CASE Begin(a)
    <3>1. /\ ~Busy(a) /\ task'[a] # "none"
          /\ \A b \in Actors \ {a} : task'[b] = task[b]
      BY <2>4, TasksAssumption DEF Begin, Upsert, RefreshLoad, SyncLoad, ImportLoad, FormLoad,
           ButtonLoad, AbsentList, Loads, Busy, TypeInv, TypeOK
    <3>2. ASSUME NEW b \in Actors, Busy(b)
          PROVE  FALSE
      <4>1. a \in busy /\ b \in busy /\ a # b
        BY <3>1, <3>2 DEF Busy
      <4> HIDE DEF busy
      <4> QED
        BY <2>1, <2>2, <4>1, AtMostOne
    <3> QED
      BY <2>1, <2>4, <3>2, BeginAlone
  <2>5. CASE Step(a)
    BY <2>1, <2>5, ActsBusy, StepAlone
  <2>6. CASE DeadlockVictim(a) \/ WorkerDies(a)
    BY <2>1, <2>6, ActsBusy, RollbackAlone DEF DeadlockVictim, WorkerDies
  <2> QED
    BY <2>3, <2>4, <2>5, <2>6
<1> QED
  BY <1>1, <1>2

\* A commit ends its writer, except that of an upsert, which goes on.
LEMMA CommitsOnce ==
  ASSUME TypeInv, NEW a \in Actors, Begin(a) \/ Step(a) \/ DeadlockVictim(a) \/ WorkerDies(a)
  PROVE  \/ row' = row
         \/ /\ Step(a) /\ row' = View(a)
            /\ task[a] = "realtime" \/ task'[a] = "none"
<1>1. CASE Begin(a)
  BY <1>1 DEF Begin, Upsert, RefreshLoad, SyncLoad, ImportLoad, FormLoad, ButtonLoad, AbsentList,
              Loads
<1>2. CASE DeadlockVictim(a) \/ WorkerDies(a)
  BY <1>2 DEF DeadlockVictim, WorkerDies, Rollback
<1>3. CASE TransitionAccepted(a) \/ PreSave(a) \/ PreSaveRejected(a) \/ Update(a)
  BY <1>3 DEF TransitionAccepted, PreSave, Validated, PreSaveRejected, Update, Rollback
<1>4. CASE TransitionRefused(a) \/ Saved(a)
  <2>1. \/ row' = row
        \/ row' = View(a) /\ Ended(a)
        \/ row' = View(a) /\ task[a] = "realtime"
    BY <1>4 DEF TransitionRefused, Saved, Rollback, Commit
  <2>2. Ended(a) => task'[a] = "none"
    BY DEF Ended, TypeInv, TypeOK
  <2> QED
    BY <1>4, <2>1, <2>2 DEF Step
<1> QED
  BY <1>1, <1>2, <1>3, <1>4 DEF Step

LEMMA KeptStep ==
  ASSUME ~Moves, TypeInv, AloneInv, Next
  PROVE  KeepsMaintenance
<1> SUFFICES ASSUME row.status = "maintenance", row'.status # "maintenance"
             PROVE  \E a \in Actors :
                      task[a] \in {"form", "button", "refresh", "import"} /\ task'[a] = "none"
  BY DEF KeepsMaintenance
<1>1. PICK a \in Actors : Begin(a) \/ Step(a) \/ DeadlockVictim(a) \/ WorkerDies(a)
  BY DEF Next
<1>2. Step(a) /\ row' = View(a) /\ (task[a] = "realtime" \/ task'[a] = "none")
  BY <1>1, CommitsOnce
<1>3. Busy(a) /\ Keeps(a)
  BY <1>2, ActsBusy DEF AloneInv
<1>4. task[a] \notin {"realtime", "absent", "sync"}
  BY <1>2, <1>3 DEF Keeps
<1>5. task[a] \in AllTasks
  BY <1>3, TasksAssumption DEF Busy, TypeInv, TypeOK
<1> QED
  BY <1>2, <1>4, <1>5 DEF AllTasks

LEMMA WatchedTypes == WatchedSpec => []TypeInv
<1>1. TypeInv /\ [WatchedNext]_<<vars, alone>> => TypeInv'
  BY NextTypeInv DEF WatchedNext
<1> QED
  BY <1>1, InitTypeInv, PTL DEF WatchedSpec

\* Writers that come one after the other leave is_online in step with status in every committed
\* row, in whatever order, from whatever status and wherever they fail: the derived column is
\* wrong only where an instance was read before somebody else's commit.
THEOREM OnlineMatchesOneByOne ==
  ASSUME IsFiniteSet(Actors)
  PROVE  WatchedSpec => []OnlineMatchesAlone
<1>1. Init => (alone => AloneInv)
  BY AloneInit
<1>2. TypeInv /\ (alone => AloneInv) /\ [WatchedNext]_<<vars, alone>> => (alone => AloneInv)'
  BY WatchedStep
<1>3. (alone => AloneInv) => OnlineMatchesAlone
  BY DEF AloneInv, Matches, OnlineMatchesAlone, OnlineMatchesStatus
<1> QED
  BY <1>1, <1>2, <1>3, WatchedTypes, PTL DEF WatchedSpec

\* Writers that come one after the other keep the operator's maintenance: the realtime update,
\* the offline pass and the synchronization of a manufacturer never commit a status that takes
\* a chassis out of it, as long as none of them carries another address.
THEOREM MaintenanceKeptOneByOne ==
  ASSUME IsFiniteSet(Actors), ~Moves
  PROVE  WatchedSpec => MaintenanceKeptAlone
<1>1. Init => (alone => AloneInv)
  BY AloneInit
<1>2. TypeInv /\ (alone => AloneInv) /\ [WatchedNext]_<<vars, alone>> => (alone => AloneInv)'
  BY WatchedStep
<1>3. TypeInv /\ (alone => AloneInv) /\ [WatchedNext]_<<vars, alone>> =>
        [alone' => KeepsMaintenance]_row
  BY KeptStep DEF WatchedNext, vars
<1> QED
  BY <1>1, <1>2, <1>3, WatchedTypes, PTL DEF WatchedSpec, MaintenanceKeptAlone
=============================================================================
