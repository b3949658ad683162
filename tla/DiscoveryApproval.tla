------------------------- MODULE DiscoveryApproval -------------------------
(***************************************************************************)
(* The review queue of discovered devices and the identity of managed      *)
(* hardware: chassis and chargers, who owns which address, which serial    *)
(* number and which vendor identifier belong to which chassis.             *)
(*                                                                         *)
(* Six kinds of transactions meet here: the approval of a batch of queue   *)
(* entries, the synchronization of a manufacturer's inventory, the upsert  *)
(* of a realtime message or poll, the promotion of a discovered device,    *)
(* the edit of a charger, and the upsert of a queue entry.  Exclusion      *)
(* comes from row locks, from the sentinel manufacturer row, from one      *)
(* advisory lock per address and from unique indexes.  A transaction takes *)
(* its locks one at a time from `todo`, in the order the code asks for     *)
(* them; what it has written and not committed is its `draft`.             *)
(***************************************************************************)
EXTENDS Integers, Sequences, FiniteSets, SequencesExt

CONSTANTS
  Actors,         \* web and task workers
  Tasks,          \* the kinds of transactions that run, a subset of AllTasks
  Chassis,        \* primary keys of wireless chassis
  Chargers,       \* primary keys of chargers
  Entries,        \* primary keys of queue entries
  Manufacturers,  \* primary keys of manufacturers; the least is the sentinel
  Addresses,      \* values of ip, in the order of their text
  Payloads,       \* what vendors report: [mfr, api, serial, ip, role]
  Inventories,    \* what a poll may return: sequences of payloads of one manufacturer
  Reviewers,      \* the sets of permissions a reviewer may hold
  Beginnings,     \* the states it may start in: [rows, queue]
  MaxTransactions, \* bound: transactions that begin
  Blank,          \* an empty serial number or identifier
  Nobody          \* no lock holder, no row, no link

AllTasks == {"approve", "sync", "realtime", "promote", "charger", "queue"}
Hardware == Chassis \cup Chargers

ASSUME TasksAssumption == Tasks \subseteq AllTasks
ASSUME KeysAssumption ==
  /\ Chassis \subseteq Nat /\ Chargers \subseteq Nat /\ Chassis \cap Chargers = {}
  /\ Entries \subseteq Nat /\ Addresses \subseteq Nat /\ Manufacturers \subseteq Nat
  /\ \A S \in {Chassis, Chargers, Entries, Addresses, Manufacturers} : IsFiniteSet(S)
ASSUME NobodyAssumption == Nobody \notin Actors \cup Hardware \cup Addresses
ASSUME PayloadsAssumption ==
  /\ \A p \in Payloads : p.mfr \in Manufacturers /\ p.ip \in Addresses
  /\ Inventories \subseteq Seq(Payloads) \ {<< >>}
  /\ \A inv \in Inventories : \A k \in DOMAIN inv : inv[k].api # Blank /\ inv[k].mfr = inv[1].mfr

VARIABLES
  rows,     \* the committed rows of chassis and chargers
  queue,    \* the committed rows of the review queue
  draft,    \* uncommitted rows of each transaction, Nobody where it wrote none
  holder,   \* the holder of each lock
  todo,     \* the locks each transaction still waits for, in its order
  stage,    \* where each transaction is
  work,     \* what each transaction remembers
  begun     \* the number of transactions that have begun

vars == <<rows, queue, draft, holder, todo, stage, work, begun>>

-----------------------------------------------------------------------------
(* Rows and locks. *)

\* The identifiers made for a device its vendor gave none, and for one found at an address.
SerialApi(s) == <<"serial", s>>
IpApi(i) == <<"ip", i>>

Serials == {p.serial : p \in Payloads} \cup {Blank}
Apis == {p.api : p \in Payloads} \cup {SerialApi(t) : t \in Serials} \cup {IpApi(i) : i \in Addresses}

ASSUME BlankAssumption ==
  Blank \notin {SerialApi(t) : t \in Serials} \cup {IpApi(i) : i \in Addresses}

\* A unique index is a lock on its key: an insertion waits for the transaction that
\* inserted an equal key and has not ended.
Identities == Manufacturers \X Apis

Locks == ({"entry"} \X Entries) \cup ({"manufacturer"} \X Manufacturers)
         \cup ({"address"} \X Addresses) \cup ({"row"} \X Hardware)
         \cup ({"identity"} \X Identities)

\* The k-th of a set of keys, in ascending order.
Kth(k, S) == CHOOSE n \in S : Cardinality({m \in S : m < n}) = k - 1

\* The locks of one kind on the keys S, in ascending order.
Ordered(kind, S) == [k \in 1..Cardinality(S) |-> <<kind, Kth(k, S)>>]

Row(m, api, s, i, retired, origin) ==
  [mfr |-> m, api |-> api, serial |-> s, ip |-> i, retired |-> retired, origin |-> origin]

NewChassis(m, api, s, i, origin) == Row(m, api, s, i, FALSE, origin)

\* The row r at the address i.
Readdressed(r, i) == Row(r.mfr, r.api, r.serial, i, r.retired, r.origin)

\* A chassis always has an identifier, a charger never.
RowType(h) ==
  [mfr : Manufacturers, api : IF h \in Chassis THEN Apis \ {Blank} ELSE {Blank},
   serial : Serials, ip : Addresses, retired : BOOLEAN, origin : {"seen", "promoted"}]

ASSUME NoRowAssumption == \A h \in Hardware : Nobody \notin RowType(h)

EntryType ==
  {q \in [state : {"absent", "pending", "imported", "dismissed"},
          mfr : Manufacturers \cup {Nobody}, api : {p.api : p \in Payloads} \cup {Blank},
          serial : Serials, ip : Addresses \cup {Nobody},
          role : {p.role : p \in Payloads} \cup {"none"}, device : Chassis \cup {Nobody},
          charger : Chargers \cup {Nobody}, conflict : BOOLEAN, reviewed : BOOLEAN] :
     q.state # "absent" => q.mfr \in Manufacturers /\ q.ip \in Addresses}

\* An installation starts with chassis and chargers at different addresses, and with the
\* serial numbers of a manufacturer's chassis different or blank.
ASSUME BeginningsAssumption ==
  \A b \in Beginnings :
    /\ b.queue \in [Entries -> EntryType]
    /\ \A c \in Chassis, g \in Chargers :
         b.rows[c] # Nobody /\ b.rows[g] # Nobody => b.rows[c].ip # b.rows[g].ip
    /\ \A h \in Hardware : b.rows[h] \in RowType(h) \cup {Nobody}
    /\ \A c, d \in Chassis :
         /\ c # d /\ b.rows[c] # Nobody /\ b.rows[d] # Nobody /\ b.rows[c].mfr = b.rows[d].mfr
         => b.rows[c].serial = Blank \/ b.rows[c].serial # b.rows[d].serial

NoEntry == [state |-> "absent", mfr |-> Nobody, api |-> Blank, serial |-> Blank, ip |-> Nobody,
            role |-> "none", device |-> Nobody, charger |-> Nobody, conflict |-> FALSE,
            reviewed |-> FALSE]

NoPayload == [mfr |-> Nobody, api |-> Blank, serial |-> Blank, ip |-> Nobody, role |-> "none"]

NoDraft == [h \in Hardware |-> Nobody]

\* The rows w over the rows r.
Over(w, r) == [h \in Hardware |-> IF w[h] # Nobody THEN w[h] ELSE r[h]]

\* What a query of transaction a reads: its own writes over the committed rows.
Sees(a) == Over(draft[a], rows)

Idle == [task |-> "none", batch |-> {}, locked |-> {}, ips |-> {}, perms |-> {},
         payload |-> NoPayload, inventory |-> << >>, index |-> NoDraft, target |-> Nobody,
         verdict |-> "none"]

Init ==
  /\ \E b \in Beginnings : rows = b.rows /\ queue = b.queue
  /\ draft = [a \in Actors |-> NoDraft]
  /\ holder = [l \in Locks |-> Nobody]
  /\ todo = [a \in Actors |-> << >>]
  /\ stage = [a \in Actors |-> "idle"]
  /\ work = [a \in Actors |-> Idle]
  /\ begun = 0

-----------------------------------------------------------------------------
(* Transactions. *)

At(a, s) == stage[a] = s /\ todo[a] = << >>

Starts(a, task) ==
  /\ stage[a] = "idle" /\ task \in Tasks
  /\ begun < MaxTransactions /\ begun' = begun + 1

Goto(a, s, locks, w) ==
  /\ stage' = [stage EXCEPT ![a] = s]
  /\ todo' = [todo EXCEPT ![a] = locks]
  /\ work' = [work EXCEPT ![a] = w]

\* A step that only remembers something and asks for the next locks.
Proceeds(a, s, locks, w) == Goto(a, s, locks, w) /\ UNCHANGED <<rows, queue, draft, holder>>

Released(a) == [l \in Locks |-> IF holder[l] = a THEN Nobody ELSE holder[l]]

\* Mutated: a transaction that ends keeps its locks.
BugEndedHolding(a) ==
  /\ draft' = [draft EXCEPT ![a] = NoDraft]
  /\ Goto(a, "idle", << >>, Idle)
  /\ UNCHANGED holder

\* The transaction ends: its locks are free and nothing of it is remembered.
Ended(a) ==
  /\ holder' = Released(a)
  /\ draft' = [draft EXCEPT ![a] = NoDraft]
  /\ Goto(a, "idle", << >>, Idle)

Rollback(a) == UNCHANGED <<rows, queue>> /\ Ended(a)

Commits(a, w) == rows' = Over(w, rows) /\ Ended(a)

Acquire(a) ==
  /\ todo[a] # << >>
  /\ holder[Head(todo[a])] \in {Nobody, a}
  /\ holder' = [holder EXCEPT ![Head(todo[a])] = a]
  /\ todo' = [todo EXCEPT ![a] = Tail(@)]
  /\ UNCHANGED <<rows, queue, draft, stage, work, begun>>

Waits(a) == todo[a] # << >> /\ holder[Head(todo[a])] \notin {Nobody, a}

\* PostgreSQL aborts a member of a cycle of waiting transactions.
DeadlockVictim(a) ==
  /\ \E S \in SUBSET Actors :
       a \in S /\ \A b \in S : Waits(b) /\ holder[Head(todo[b])] \in S
  /\ Rollback(a) /\ UNCHANGED begun

\* The process dies, or loses its connection, at any point of its work.
Dies(a) == stage[a] # "idle" /\ Rollback(a) /\ UNCHANGED begun

\* The save hook: an address belongs to hardware of one kind.
TakenByOtherKind(seen, h, i) ==
  \E g \in IF h \in Chassis THEN Chargers ELSE Chassis : seen[g] # Nobody /\ seen[g].ip = i

\* Unique columns: the address within each table, the identifier within a manufacturer.
Duplicates(seen, h, r) ==
  \E g \in (IF h \in Chassis THEN Chassis ELSE Chargers) \ {h} :
    /\ seen[g] # Nobody
    /\ \/ seen[g].ip = r.ip
       \/ (h \in Chassis /\ seen[g].mfr = r.mfr /\ seen[g].api = r.api)

\* The write of r to row h passes the save hook and the unique indexes.
Writable(seen, h, r) == ~TakenByOtherKind(seen, h, r.ip) /\ ~Duplicates(seen, h, r)

Write(h, r) == [NoDraft EXCEPT ![h] = r]

\* The primary keys a new chassis may get; Chassis is a bound, and an insertion waits for one.
FreeKeys == {c \in Chassis : rows[c] = Nobody /\ \A b \in Actors : draft[b][c] = Nobody}

NextKey == CHOOSE c \in FreeKeys : TRUE

-----------------------------------------------------------------------------
(* Approval: what a batch of entries means for the locked hardware L. *)

IsCharger(e) == queue[e].role = "charger"

SameIdentity(r, q) ==
  /\ r.mfr = q.mfr
  /\ \/ q.api # Blank /\ r.api = q.api
     \/ q.serial # Blank /\ r.serial = q.serial

\* The statements that lock hardware select it by address, link, identifier or serial number.
Wanted(items, h) ==
  /\ rows[h] # Nobody
  /\ \/ \E e \in items : rows[h].ip = queue[e].ip
     \/ /\ h \in Chassis
        /\ \E e \in items : ~IsCharger(e) /\ (h = queue[e].device \/ SameIdentity(rows[h], queue[e]))
     \/ /\ h \in Chargers
        /\ \E e \in items :
             /\ IsCharger(e)
             /\ \/ h = queue[e].charger
                \/ rows[h].mfr = queue[e].mfr /\ rows[h].serial = queue[e].serial

\* The hardware an entry resolves to; a charger's explicit link has precedence.
MatchesOf(e, L) ==
  IF ~IsCharger(e)
    THEN {c \in L \cap Chassis : c = queue[e].device \/ SameIdentity(rows[c], queue[e])}
    ELSE IF queue[e].charger # Nobody
           THEN L \cap {queue[e].charger}
           ELSE {g \in L \cap Chargers :
                   rows[g].mfr = queue[e].mfr /\ rows[g].serial = queue[e].serial}

\* Mutated: an entry replaces the serial number of the chassis it matches.
BugAgreesOnApi(r, q) == r.mfr = q.mfr /\ (q.device # Nobody => r.api = q.api)

\* No entry takes over a chassis of another manufacturer, serial number or identifier.
Agrees(r, q) ==
  LET serialMatches == q.serial # Blank /\ r.serial = q.serial
      apiMatches == q.api # Blank /\ r.api = q.api
  IN  /\ r.mfr = q.mfr
      /\ q.serial = Blank \/ r.serial \in {Blank, q.serial}
      /\ IF q.device # Nobody
           THEN (r.api = q.api \/ serialMatches) /\ (q.conflict => apiMatches \/ serialMatches)
           ELSE q.api \in {Blank, r.api}

ChargerAgrees(r, q) ==
  /\ r.mfr \in {Nobody, q.mfr}
  /\ q.serial = Blank \/ r.serial = q.serial
  /\ q.conflict => q.serial # Blank

Resolves(e, L) ==
  LET M == MatchesOf(e, L)
  IN  /\ Cardinality(M) <= 1
      /\ IF IsCharger(e)
           THEN M # {} /\ \A g \in M : ChargerAgrees(rows[g], queue[e])
           ELSE /\ \A c \in M : Agrees(rows[c], queue[e]) /\ ~rows[c].retired
                /\ M # {} \/ queue[e].api # Blank \/ queue[e].serial # Blank

\* Mutated: no identifier is made from the serial number.
BugIdentityAsReported(e, L) == <<queue[e].mfr, IF IsCharger(e) THEN Blank ELSE queue[e].api>>

IdentityOf(e, L) ==
  LET M == MatchesOf(e, L)
  IN  <<queue[e].mfr, IF IsCharger(e) THEN Blank
                      ELSE IF queue[e].api # Blank THEN queue[e].api
                      ELSE IF M # {} THEN rows[CHOOSE c \in M : TRUE].api
                      ELSE SerialApi(queue[e].serial)>>

TargetOf(e, L) ==
  LET M == MatchesOf(e, L)
  IN  IF M # {} THEN <<"old", CHOOSE h \in M : TRUE>> ELSE <<"new", IdentityOf(e, L)>>

\* The address of an entry belongs to its target or to no locked hardware.
OwnsAddress(e, L) == \A h \in L : rows[h].ip = queue[e].ip => TargetOf(e, L) = <<"old", h>>

\* Addresses and targets are one to one, identities agree on role and serial number.
Consistent(e, f, L) ==
  /\ (TargetOf(e, L) = TargetOf(f, L)) <=> queue[e].ip = queue[f].ip
  /\ TargetOf(e, L) = TargetOf(f, L) => IdentityOf(e, L) = IdentityOf(f, L)
  /\ ~IsCharger(e) /\ ~IsCharger(f) =>
       /\ IdentityOf(e, L) = IdentityOf(f, L) =>
            /\ queue[e].role = queue[f].role
            /\ Blank \in {queue[e].serial, queue[f].serial} \/ queue[e].serial = queue[f].serial
       /\ /\ queue[e].mfr = queue[f].mfr
          /\ queue[e].serial = queue[f].serial /\ queue[e].serial # Blank
          => IdentityOf(e, L) = IdentityOf(f, L)

Permission(e, L) ==
  IF IsCharger(e) THEN "charger" ELSE IF MatchesOf(e, L) # {} THEN "change" ELSE "add"

\* Mutated: the permissions the preflight checked are not checked again.
BugAcceptableUnchecked(items, perms, L) ==
  /\ \A e \in items : Resolves(e, L) /\ OwnsAddress(e, L)
  /\ \A e, f \in items : Consistent(e, f, L)

\* The plan the whole batch depends on.
Acceptable(items, perms, L) ==
  /\ \A e \in items : Resolves(e, L) /\ OwnsAddress(e, L)
  /\ \A e, f \in items : Consistent(e, f, L)
  /\ {Permission(e, L) : e \in items} \subseteq perms

\* The first entry of each new identity.
Leaders(items, L) ==
  {f \in items : /\ TargetOf(f, L)[1] = "new"
                 /\ \A g \in items : TargetOf(g, L) = TargetOf(f, L) => f <= g}

\* One new chassis for each new identity, in the order of the first entry that has it.
NewKey(e, items, L) ==
  LET first == Min({f \in items : TargetOf(f, L) = TargetOf(e, L)})
  IN  Kth(Cardinality({f \in Leaders(items, L) : f <= first}), FreeKeys)

KeyOf(e, items, L) ==
  IF TargetOf(e, L)[1] = "old" THEN TargetOf(e, L)[2] ELSE NewKey(e, items, L)

\* The serial number a group of entries gives its target, a blank one never.
SerialFor(e, items, L, old) ==
  LET given == {queue[f].serial : f \in {g \in items : TargetOf(g, L) = TargetOf(e, L)}} \ {Blank}
  IN  IF given = {} THEN old ELSE CHOOSE s \in given : TRUE

Adopted(e, items, L) ==
  LET q == queue[e]
      h == KeyOf(e, items, L)
  IN  IF IsCharger(e)
        THEN Row(q.mfr, rows[h].api, rows[h].serial, q.ip, rows[h].retired, rows[h].origin)
      ELSE IF TargetOf(e, L)[1] = "old"
        THEN Row(rows[h].mfr, IdentityOf(e, L)[2], SerialFor(e, items, L, rows[h].serial), q.ip,
                 rows[h].retired, rows[h].origin)
        ELSE NewChassis(q.mfr, IdentityOf(e, L)[2], SerialFor(e, items, L, Blank), q.ip, "seen")

Adoptions(items, L) ==
  [h \in Hardware |->
     IF \E e \in items : KeyOf(e, items, L) = h
       THEN Adopted(CHOOSE e \in items : KeyOf(e, items, L) = h, items, L)
       ELSE Nobody]

Imported(e, h) ==
  [queue[e] EXCEPT !.state = "imported", !.reviewed = TRUE,
                   !.device = IF h \in Chassis THEN h ELSE @,
                   !.charger = IF h \in Chargers THEN h ELSE @]

-----------------------------------------------------------------------------
(* Approval: the steps of the transaction. *)

\* The statements before any lock: the permission preflight and the requested rows.
ApproveBegins(a) ==
  /\ Starts(a, "approve")
  /\ \E asked \in SUBSET {e \in Entries : queue[e].state = "pending"}, perms \in Reviewers :
       LET exists(e) == \/ queue[e].device # Nobody
                        \/ \E c \in Chassis : rows[c] # Nobody /\ SameIdentity(rows[c], queue[e])
           needed(e) == IF IsCharger(e) THEN "charger" ELSE IF exists(e) THEN "change" ELSE "add"
       IN  /\ asked # {} /\ {needed(e) : e \in asked} \subseteq perms
           /\ Proceeds(a, "listed", << >>,
                [Idle EXCEPT !.task = "approve", !.batch = asked, !.perms = perms,
                             !.ips = {queue[e].ip : e \in asked}])

\* Mutated: the requested entries are locked before the others that share their addresses.
BugApproveLocksOwnFirst(a) ==
  /\ At(a, "listed")
  /\ LET found == {e \in Entries : queue[e].state = "pending" /\ queue[e].ip \in work[a].ips}
     IN  Proceeds(a, "entries", Ordered("entry", found \cap work[a].batch)
                                \o Ordered("entry", found \ work[a].batch),
                  [work[a] EXCEPT !.locked = found])

\* Every pending entry that shares a requested address is locked.
ApproveLocksEntries(a) ==
  /\ At(a, "listed")
  /\ LET found == {e \in Entries : queue[e].state = "pending" /\ queue[e].ip \in work[a].ips}
     IN  Proceeds(a, "entries", Ordered("entry", found), [work[a] EXCEPT !.locked = found])

\* Mutated: the entries are not looked at again when they are locked.
BugApproveSelectsStale(a) ==
  /\ At(a, "entries")
  /\ LET items == work[a].locked \cap work[a].batch
     IN  IF items = {}
           THEN Rollback(a)
           ELSE Proceeds(a, "makers", Ordered("manufacturer", {queue[e].mfr : e \in items}),
                         [work[a] EXCEPT !.batch = items, !.locked = {}, !.ips = {}])

\* Mutated: no manufacturer is locked.
BugApproveSelectsUnlocked(a) ==
  /\ At(a, "entries")
  /\ LET items == {e \in work[a].locked \cap work[a].batch : queue[e].state = "pending"}
     IN  IF items = {}
           THEN Rollback(a)
           ELSE Proceeds(a, "makers", << >>,
                         [work[a] EXCEPT !.batch = items, !.locked = {}, !.ips = {}])

\* Rows that changed while the statement waited for their locks no longer match it.
ApproveSelects(a) ==
  /\ At(a, "entries")
  /\ LET locked == {e \in work[a].locked :
                      queue[e].state = "pending" /\ queue[e].ip \in work[a].ips}
         items == locked \cap work[a].batch
     IN  IF items = {}
           THEN Rollback(a)
           ELSE Proceeds(a, "makers", Ordered("manufacturer", {queue[e].mfr : e \in locked}),
                         [work[a] EXCEPT !.batch = items, !.locked = {}, !.ips = {}])

ApproveLocksAddresses(a) ==
  /\ At(a, "makers")
  /\ Proceeds(a, "addresses", Ordered("address", {queue[e].ip : e \in work[a].batch}), work[a])

ApproveLocksChassis(a) ==
  /\ At(a, "addresses")
  /\ LET found == {c \in Chassis : Wanted(work[a].batch, c)}
     IN  Proceeds(a, "chassis", Ordered("row", found), [work[a] EXCEPT !.locked = found])

ApproveLocksChargers(a) ==
  /\ At(a, "chassis")
  /\ LET found == {g \in Chargers : Wanted(work[a].batch, g)}
     IN  Proceeds(a, "chargers", Ordered("row", found), [work[a] EXCEPT !.locked = @ \cup found])

\* The hardware the two statements returned.
Inventory(a) == {h \in work[a].locked : Wanted(work[a].batch, h)}

\* The plan; new or changed identifiers will wait for their unique index.
ApprovePlans(a) ==
  /\ At(a, "chargers")
  /\ LET items == work[a].batch
         L == Inventory(a)
         identities == {IdentityOf(e, L) : e \in {f \in items : ~IsCharger(f)}}
     IN  IF Acceptable(items, work[a].perms, L)
           THEN Proceeds(a, "write", [k \in 1..Cardinality(identities) |->
                                        <<"identity", SetToSeq(identities)[k]>>], work[a])
           ELSE Rollback(a)

\* Every target is written once, every entry is marked, or nothing happens.
ApproveWrites(a) ==
  /\ At(a, "write")
  /\ Cardinality(Leaders(work[a].batch, Inventory(a))) <= Cardinality(FreeKeys)
  /\ \E w \in {Adoptions(work[a].batch, Inventory(a))} :
       LET items == work[a].batch
           L == Inventory(a)
           written == {h \in Hardware : w[h] # Nobody}
       IN  IF \A h \in written : Writable(Over(w, rows), h, w[h])
             THEN /\ Commits(a, w)
                  /\ queue' = [e \in Entries |->
                                 IF e \in items THEN Imported(e, KeyOf(e, items, L)) ELSE queue[e]]
             ELSE Rollback(a)

\* The review actions that import nothing, reject and mark as duplicate: one UPDATE of the
\* pending rows.
Dismiss(e) ==
  /\ queue[e].state = "pending" /\ holder[<<"entry", e>>] = Nobody
  /\ queue' = [queue EXCEPT ![e].state = "dismissed", ![e].reviewed = TRUE]
  /\ UNCHANGED <<rows, draft, holder, todo, stage, work, begun>>

-----------------------------------------------------------------------------
(* Deduplication: what a payload is, compared with the chassis in seen. *)

Verdict(kind, c) == [kind |-> kind, chassis |-> c]

\* Serial number first, then the address, then the vendor's identifier; a key that two
\* chassis have is an error.
CheckDevice(p, seen) ==
  LET known == {c \in Chassis : seen[c] # Nobody}
      bySerial == {c \in known : p.serial # Blank /\ seen[c].serial = p.serial}
      byIp == {c \in known : seen[c].ip = p.ip}
      byApi == {c \in known : seen[c].mfr = p.mfr /\ seen[c].api = p.api}
      found == IF bySerial # {} THEN bySerial ELSE IF byIp # {} THEN byIp ELSE byApi
      c == CHOOSE d \in found : TRUE
      contradicted == IF bySerial # {} THEN seen[c].mfr # p.mfr
                      ELSE byIp # {} /\ p.serial # Blank
  IN  IF found = {} THEN Verdict("new", Nobody)
      ELSE IF Cardinality(found) > 1 THEN Verdict("error", Nobody)
      ELSE IF contradicted THEN Verdict("conflict", c)
      ELSE Verdict(IF seen[c].ip = p.ip THEN "duplicate" ELSE "moved", c)

-----------------------------------------------------------------------------
(* Synchronization of a manufacturer's inventory, one transaction. *)

\* The sentinel manufacturer is locked first, then the manufacturer itself.
SyncBegins(a) ==
  /\ Starts(a, "sync")
  /\ \E inv \in Inventories :
       Proceeds(a, "index", << <<"manufacturer", Min(Manufacturers)>>,
                               <<"manufacturer", inv[1].mfr>> >>,
                [Idle EXCEPT !.task = "sync", !.inventory = inv])

\* The identities of the batch are read once.
SyncIndexes(a) ==
  /\ At(a, "index")
  /\ Proceeds(a, "payload", << >>,
       [work[a] EXCEPT !.index = [h \in Hardware |-> IF h \in Chassis THEN rows[h] ELSE Nobody]])

\* A candidate of another manufacturer is rejected like a conflict.
SyncDecides(a) ==
  /\ At(a, "payload") /\ work[a].inventory # << >>
  /\ LET p == Head(work[a].inventory)
         v == CheckDevice(p, work[a].index)
         c == v.chassis
         foreign == c # Nobody /\ work[a].index[c].mfr # p.mfr
         next == [work[a] EXCEPT !.inventory = Tail(@), !.payload = p, !.target = c,
                                 !.verdict = v.kind]
     IN  CASE v.kind = "error" -> Rollback(a)
           [] v.kind = "conflict" \/ foreign ->
                Proceeds(a, "payload", << >>, [work[a] EXCEPT !.inventory = Tail(@)])
           [] v.kind = "duplicate" /\ ~foreign ->
                Proceeds(a, "store", << <<"address", work[a].index[c].ip>>, <<"row", c>> >>, next)
           [] v.kind = "moved" /\ ~foreign ->
                Proceeds(a, "store", << <<"address", p.ip>>, <<"row", c>> >>, next)
           [] v.kind = "new" ->
                Proceeds(a, "store", << <<"address", p.ip>>, <<"identity", <<p.mfr, p.api>> >> >>,
                         next)

\* What the payload writes: a duplicate refreshes metadata only, at the address the index has.
SyncStores(a) ==
  /\ At(a, "store")
  /\ work[a].verdict = "new" => FreeKeys # {}
  /\ LET p == work[a].payload
         v == work[a].verdict
         c == IF v = "new" THEN NextKey ELSE work[a].target
         r == CASE v = "new" -> NewChassis(p.mfr, p.api, p.serial, p.ip, "seen")
                [] v = "moved" -> Readdressed(Sees(a)[c], p.ip)
                [] v = "duplicate" -> work[a].index[c]
         refused == \/ TakenByOtherKind(Sees(a), c, r.ip)
                    \/ v # "duplicate" /\ Duplicates(Sees(a), c, r)
                    \/ v # "new" /\ Sees(a)[c].retired
         known == [work[a].index EXCEPT
                     ![c] = IF v = "new" THEN r ELSE Readdressed(@, r.ip)]
     IN  IF refused
           THEN Rollback(a)
           ELSE /\ draft' = IF v = "duplicate" THEN draft ELSE [draft EXCEPT ![a][c] = r]
                /\ Goto(a, "payload", << >>,
                        [work[a] EXCEPT !.index = known, !.payload = NoPayload, !.target = Nobody,
                                        !.verdict = "none"])
                /\ UNCHANGED <<rows, queue, holder>>

SyncCommits(a) ==
  /\ At(a, "payload") /\ work[a].inventory = << >>
  /\ Commits(a, draft[a]) /\ UNCHANGED queue

-----------------------------------------------------------------------------
(* The upsert of a realtime message or poll, by the vendor's identifier. *)

\* A message names a device by its identifier only.
Anonymous(p) == [p EXCEPT !.serial = Blank, !.role = "none"]

SameApi(p) == {c \in Chassis : rows[c] # Nobody /\ rows[c].mfr = p.mfr /\ rows[c].api = p.api}

InsertLocks(p) == << <<"address", p.ip>>, <<"identity", <<p.mfr, p.api>> >> >>

\* The row is selected for update, or there is none and an insertion is tried.
Upsert(a, w) ==
  LET found == SameApi(w.payload)
  IN  IF found = {}
        THEN Goto(a, "insert", InsertLocks(w.payload), w)
        ELSE \E c \in found : Goto(a, "selected", << <<"row", c>> >>, [w EXCEPT !.target = c])

RealtimeBegins(a) ==
  /\ Starts(a, "realtime")
  /\ \E p \in {Anonymous(q) : q \in {r \in Payloads : r.api # Blank}} : Upsert(a, [Idle EXCEPT !.task = "realtime", !.payload = p])
  /\ UNCHANGED <<rows, queue, draft, holder>>

\* A row whose identifier changed while the select waited is not returned.
RealtimeSelected(a) ==
  /\ At(a, "selected")
  /\ IF work[a].target \in SameApi(work[a].payload)
       THEN Proceeds(a, "update", << <<"address", work[a].payload.ip>> >>, work[a])
       ELSE IF work[a].verdict = "retried"
         THEN Rollback(a)
         ELSE Proceeds(a, "insert", InsertLocks(work[a].payload), [work[a] EXCEPT !.target = Nobody])

RealtimeUpdates(a) ==
  /\ At(a, "update")
  /\ LET c == work[a].target
         r == Readdressed(rows[c], work[a].payload.ip)
     IN  IF Writable(rows, c, r) THEN Commits(a, Write(c, r)) /\ UNCHANGED queue ELSE Rollback(a)

\* A lost race for the identifier returns to its winner; the savepoint's locks are gone.
RealtimeInserts(a) ==
  /\ At(a, "insert") /\ work[a].task = "realtime"
  /\ FreeKeys # {}
  /\ LET p == work[a].payload
         c == NextKey
         r == NewChassis(p.mfr, p.api, Blank, p.ip, "seen")
     IN  CASE Writable(rows, c, r) -> Commits(a, Write(c, r)) /\ UNCHANGED queue
           [] ~Writable(rows, c, r) /\ ~TakenByOtherKind(rows, c, p.ip) /\ SameApi(p) # {} ->
                /\ \E d \in SameApi(p) :
                     Goto(a, "selected", << <<"row", d>> >>,
                          [work[a] EXCEPT !.target = d, !.verdict = "retried"])
                /\ holder' = Released(a)
                /\ UNCHANGED <<rows, queue, draft>>
           [] OTHER -> Rollback(a)

-----------------------------------------------------------------------------
(* Promotion of a discovered device, and the edit of a charger. *)

\* Stops at an address its manufacturer already manages; then the vendor is asked, and a
\* device it does not know becomes a chassis named by its address.
PromoteBegins(a) ==
  /\ Starts(a, "promote")
  /\ \E p \in Payloads \cup {[Anonymous(q) EXCEPT !.api = IpApi(q.ip)] : q \in Payloads} :
       /\ ~\E c \in Chassis : rows[c] # Nobody /\ rows[c].ip = p.ip /\ rows[c].mfr = p.mfr
       /\ IF p \in Payloads
            THEN Proceeds(a, "check", << >>, [Idle EXCEPT !.task = "promote", !.payload = p])
            ELSE Proceeds(a, "insert", InsertLocks(p), [Idle EXCEPT !.task = "promote", !.payload = p])

\* Identities are checked without a lock; a device that moved is created like a new one.
PromoteChecks(a) ==
  /\ At(a, "check")
  /\ LET v == CheckDevice(work[a].payload, rows)
     IN  IF v.kind \in {"new", "moved"} /\ work[a].payload.api # Blank
           THEN Proceeds(a, "insert", InsertLocks(work[a].payload), work[a])
           ELSE Rollback(a)

PromoteInserts(a) ==
  /\ At(a, "insert") /\ work[a].task = "promote"
  /\ FreeKeys # {}
  /\ LET p == work[a].payload
         c == NextKey
         r == NewChassis(p.mfr, p.api, p.serial, p.ip, "promoted")
     IN  IF Writable(rows, c, r) THEN Commits(a, Write(c, r)) /\ UNCHANGED queue ELSE Rollback(a)

\* Mutated: the edit of a charger does not lock the address it takes.
BugChargerBeginsUnlocked(a) ==
  /\ Starts(a, "charger")
  /\ \E g \in Chargers, i \in Addresses :
       /\ rows[g] # Nobody /\ rows[g].ip # i
       /\ Proceeds(a, "edit", << <<"row", g>> >>,
                   [Idle EXCEPT !.task = "charger", !.target = g, !.payload = [NoPayload EXCEPT !.ip = i]])

ChargerBegins(a) ==
  /\ Starts(a, "charger")
  /\ \E g \in Chargers, i \in Addresses :
       /\ rows[g] # Nobody /\ rows[g].ip # i
       /\ Proceeds(a, "edit", << <<"address", i>>, <<"row", g>> >>,
                   [Idle EXCEPT !.task = "charger", !.target = g, !.payload = [NoPayload EXCEPT !.ip = i]])

ChargerSaves(a) ==
  /\ At(a, "edit")
  /\ LET g == work[a].target
         r == Readdressed(rows[g], work[a].payload.ip)
     IN  IF Writable(rows, g, r) THEN Commits(a, Write(g, r)) /\ UNCHANGED queue ELSE Rollback(a)

-----------------------------------------------------------------------------
(* The upsert of a queue entry: two writes with a classification between them. *)

EntriesOf(p) ==
  {e \in Entries : queue[e].state # "absent" /\ queue[e].mfr = p.mfr /\ queue[e].serial = p.serial}

\* What the vendor reports replaces what the entry had; the workflow fields are kept.
\* One synchronization of a manufacturer runs at a time.
QueueUpserts(a) ==
  /\ Starts(a, "queue")
  /\ \E p \in Payloads :
       /\ p.serial # Blank
       /\ \A b \in Actors \ {a} : ~(work[b].task = "queue" /\ work[b].payload.mfr = p.mfr)
       /\ \E e \in IF EntriesOf(p) # {} THEN EntriesOf(p)
                   ELSE {f \in Entries : queue[f].state = "absent"} :
            LET old == IF queue[e].state = "absent" THEN [NoEntry EXCEPT !.state = "pending"]
                       ELSE queue[e]
            IN  /\ holder[<<"entry", e>>] = Nobody
                /\ queue' = [queue EXCEPT ![e] =
                     [old EXCEPT !.mfr = p.mfr, !.api = p.api, !.serial = p.serial, !.ip = p.ip,
                                 !.role = p.role]]
                /\ Goto(a, "classify", << >>,
                        [Idle EXCEPT !.task = "queue", !.payload = p, !.batch = {e},
                                     !.verdict = old.state])
  /\ UNCHANGED <<rows, draft, holder>>

\* The conflict snapshot: by serial number, then by address, chassis before chargers.
QueueClassifies(a) ==
  /\ At(a, "classify")
  /\ LET p == work[a].payload
         having(S, f) == {h \in S : rows[h] # Nobody /\ rows[h][f] = p[f]}
         found == IF having(Hardware, "serial") # {} THEN having(Hardware, "serial")
                  ELSE having(Hardware, "ip")
         first == IF found \cap Chassis # {} THEN found \cap Chassis ELSE found
     IN  \E h \in IF first = {} THEN {Nobody} ELSE {Min(first)} :
           Proceeds(a, "record", << >>,
             [work[a] EXCEPT !.target = h,
                             !.locked = IF having(Hardware, "serial") = {} THEN first ELSE {}])

\* A review since the first write is not looked at again: an entry that was pending then
\* loses its reviewer.
QueueRecords(a) ==
  /\ At(a, "record")
  /\ LET h == work[a].target
     IN  \A e \in work[a].batch :
           /\ holder[<<"entry", e>>] = Nobody
           /\ queue' = [queue EXCEPT
                ![e].conflict = work[a].locked # {},
                ![e].device = IF h \in Chassis THEN h ELSE Nobody,
                ![e].charger = IF h \in Chargers THEN h ELSE Nobody,
                ![e].reviewed = IF work[a].verdict = "pending" THEN FALSE ELSE @]
  /\ UNCHANGED rows /\ Ended(a)

-----------------------------------------------------------------------------
Begins(a) ==
  \/ ApproveBegins(a) \/ SyncBegins(a) \/ RealtimeBegins(a) \/ PromoteBegins(a)
  \/ ChargerBegins(a) \/ QueueUpserts(a)

Proceed(a) ==
  /\ \/ ApproveLocksEntries(a) \/ ApproveSelects(a) \/ ApproveLocksAddresses(a)
     \/ ApproveLocksChassis(a) \/ ApproveLocksChargers(a) \/ ApprovePlans(a) \/ ApproveWrites(a)
     \/ SyncIndexes(a) \/ SyncDecides(a) \/ SyncStores(a) \/ SyncCommits(a)
     \/ RealtimeSelected(a) \/ RealtimeUpdates(a) \/ RealtimeInserts(a)
     \/ PromoteChecks(a) \/ PromoteInserts(a) \/ ChargerSaves(a)
     \/ QueueClassifies(a) \/ QueueRecords(a)
  /\ UNCHANGED begun

Next ==
  \/ \E a \in Actors :
       Begins(a) \/ Acquire(a) \/ Proceed(a) \/ DeadlockVictim(a) \/ Dies(a)
  \/ \E e \in Entries : Dismiss(e)

Spec == Init /\ [][Next]_vars

\* As long as some transaction can take a step, one of them does.
Fairness == WF_vars(\E a \in Actors : Acquire(a) \/ Proceed(a) \/ DeadlockVictim(a))

FairSpec == Spec /\ Fairness

-----------------------------------------------------------------------------
(* Properties. *)

TypeOK ==
  /\ \A h \in Hardware : rows[h] \in RowType(h) \cup {Nobody}
  /\ \A a \in Actors, h \in Hardware : draft[a][h] \in RowType(h) \cup {Nobody}
  /\ queue \in [Entries -> EntryType]
  /\ holder \in [Locks -> Actors \cup {Nobody}]
  /\ \A a \in Actors : \A k \in DOMAIN todo[a] : todo[a][k] \in Locks

\* An address belongs to hardware of one kind: the two tables have no common constraint, so
\* only the advisory lock and the check of the save hook keep chassis and chargers apart.
AddressesExclusive ==
  \A c \in Chassis, g \in Chargers :
    rows[c] # Nobody /\ rows[g] # Nobody => rows[c].ip # rows[g].ip

\* A serial number names one chassis of a manufacturer, whatever approvals, polls and
\* realtime messages do at the same time; no index says so, and promotion is not part of it.
SerialsUnique ==
  \A c, d \in Chassis :
    /\ c # d /\ rows[c] # Nobody /\ rows[d] # Nobody
    /\ rows[c].mfr = rows[d].mfr /\ rows[c].serial = rows[d].serial
    => rows[c].serial = Blank \/ "promoted" \in {rows[c].origin, rows[d].origin}

\* The same with promoted chassis.
PromotedSerialsUnique ==
  \A c, d \in Chassis :
    /\ c # d /\ rows[c] # Nobody /\ rows[d] # Nobody
    /\ rows[c].mfr = rows[d].mfr /\ rows[c].serial = rows[d].serial
    => rows[c].serial = Blank

\* Two approvals never wait for each other: entries, manufacturers, addresses and hardware
\* are locked in one order.
ApprovalsNeverDeadlock ==
  ~\E S \in SUBSET {a \in Actors : work[a].task = "approve"} :
     S # {} /\ \A a \in S : Waits(a) /\ holder[Head(todo[a])] \in S

\* What a review decided is not decided again: not by a second reviewer and not by a
\* synchronization that read the entry before.
ReviewIsFinal ==
  [][\A e \in Entries : queue[e].state \notin {"absent", "pending"} =>
       queue'[e].state = queue[e].state]_vars

\* A chassis keeps its manufacturer and its serial number; its identifier changes only if its
\* serial number proves that the device is the same.
NoTakeover ==
  [][\A c \in Chassis : rows[c] # Nobody =>
       /\ rows'[c].mfr = rows[c].mfr
       /\ rows[c].serial # Blank => rows'[c].serial = rows[c].serial
       /\ rows[c].serial = Blank => rows'[c].api = rows[c].api]_vars

\* A reviewer who may not add hardware adds none, and one who may not change it changes
\* none, even if what the preflight saw is no longer so when the batch is planned.
PermissionsHold ==
  [][\A a \in Actors : ApproveWrites(a) =>
       /\ \A h \in Chassis : rows'[h] # rows[h] =>
            (IF rows[h] = Nobody THEN "add" ELSE "change") \in work[a].perms
       /\ \A h \in Chargers : rows'[h] # rows[h] => "charger" \in work[a].perms]_vars

\* An entry that a reviewer decided on keeps the reviewer.
ReviewerKept ==
  [][\A e \in Entries : queue[e].reviewed => queue'[e].reviewed]_vars

\* Every transaction ends: the database breaks the deadlocks between batches and upserts.
EveryTransactionEnds == \A a \in Actors : stage[a] # "idle" ~> stage[a] = "idle"
=============================================================================
