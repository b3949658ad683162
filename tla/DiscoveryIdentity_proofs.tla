----------------------- MODULE DiscoveryIdentity_proofs -----------------------
(***************************************************************************)
(* Proofs about DiscoveryApproval: a serial number names one chassis of a  *)
(* manufacturer, nobody takes over a chassis, an approval does what its    *)
(* reviewer may do, and approvals never wait for each other in a circle,   *)
(* for any number of transactions, rows, entries and payloads.             *)
(*                                                                         *)
(* No index says that serial numbers are unique.  Whoever gives a chassis  *)
(* one holds the lock of its manufacturer, and knows every chassis of the  *)
(* manufacturer that has it: an approval has locked them, a                *)
(* synchronization has them in its index.                                  *)
(*                                                                         *)
(* An approval holds nothing of a later kind than what it asks for, and    *)
(* nothing greater of the same kind; the last part is about that order.    *)
(***************************************************************************)
EXTENDS DiscoveryApproval_proofs

-----------------------------------------------------------------------------
(* The invariant: who may give a chassis a serial number, and what a       *)
(* transaction that will give one already knows.                           *)

MakerLock(m) == <<"manufacturer", m>>
RowLock(h) == <<"row", h>>

\* The row r has a serial number, and not from a promotion.
Bears(r) == r # Nobody /\ r.serial # Blank /\ r.origin # "promoted"

SameSerial(r, s) == r.mfr = s.mfr /\ r.serial = s.serial

\* In the rows R a serial number names one chassis of a manufacturer.
UniqueIn(R) ==
  \A c, d \in Chassis : c # d /\ Bears(R[c]) /\ Bears(R[d]) => ~SameSerial(R[c], R[d])

\* The stages of an approval that has selected chassis.
Late == {"chassis", "chargers", "write"}

\* An approval that has its addresses has the manufacturers of its batch as well.
MakersOK(a) ==
  /\ stage[a] = "makers" => \A e \in work[a].batch : Promised(a, MakerLock(queue[e].mfr))
  /\ stage[a] \in {"addresses"} \cup Late =>
       \A e \in work[a].batch : holder[MakerLock(queue[e].mfr)] = a

\* The hardware it has selected is there and stays as it is once it is locked; the plan was
\* made from what is locked.
HardwareOK(a) ==
  /\ stage[a] \in Late =>
       \A h \in work[a].locked : h \in Hardware /\ rows[h] # Nobody /\ Promised(a, RowLock(h))
  /\ stage[a] = "write" =>
       /\ \A h \in work[a].locked : holder[RowLock(h)] = a
       /\ Acceptable(work[a].batch, work[a].perms, Inventory(a))

\* Every chassis that has a serial number of the batch is among the hardware selected.
CoverOK(a) ==
  stage[a] \in Late =>
    \A e \in work[a].batch, c \in Chassis :
      /\ ~IsCharger(e) /\ queue[e].serial # Blank
      /\ Bears(rows[c]) /\ SameSerial(rows[c], queue[e])
      => c \in work[a].locked

\* The payloads a synchronization has still to store.
Reported(a) ==
  {work[a].inventory[k] : k \in DOMAIN work[a].inventory}
  \cup (IF stage[a] = "store" THEN {work[a].payload} ELSE {})

\* A synchronization has the manufacturer of its payloads before it reads its index.
ReportedOK(a) ==
  /\ stage[a] \in {"index", "payload", "store"} =>
       \A p \in Reported(a) : /\ p \in Payloads /\ p.api # Blank
                              /\ Promised(a, MakerLock(p.mfr))
  /\ stage[a] \in {"payload", "store"} =>
       \A p \in Reported(a) : holder[MakerLock(p.mfr)] = a

\* The index knows the manufacturer of each chassis it has, and every serial number of the
\* manufacturer of a payload.
IndexOK(a) ==
  stage[a] \in {"payload", "store"} =>
    /\ DOMAIN work[a].index = Hardware
    /\ \A h \in Hardware : work[a].index[h] \in RowType(h) \cup {Nobody}
    /\ \A c \in Chassis : work[a].index[c] # Nobody =>
         Sees(a)[c] # Nobody /\ Sees(a)[c].mfr = work[a].index[c].mfr
    /\ \A p \in Reported(a), c \in Chassis : Bears(Sees(a)[c]) /\ Sees(a)[c].mfr = p.mfr =>
         work[a].index[c] # Nobody /\ work[a].index[c].serial = Sees(a)[c].serial

\* A payload that is stored as new has a serial number the index does not have; another
\* goes to a chassis of its manufacturer that the transaction locks.
VerdictOK(a) ==
  stage[a] = "store" =>
    LET p == work[a].payload
        c == work[a].target
    IN  /\ work[a].verdict = "new" /\ p.serial # Blank =>
             \A d \in Chassis : work[a].index[d] # Nobody => work[a].index[d].serial # p.serial
        /\ work[a].verdict # "new" =>
             /\ work[a].index[c] # Nobody /\ work[a].index[c].mfr = p.mfr
             /\ Promised(a, RowLock(c))

\* What is drafted differs from the locked row in its address only, or is a new row.
DraftedOK(a) ==
  /\ \A h \in Hardware : draft[a][h] # Nobody =>
       /\ draft[a][h] \in RowType(h)
       /\ holder[MakerLock(draft[a][h].mfr)] = a
       /\ rows[h] # Nobody =>
            /\ holder[RowLock(h)] = a
            /\ SameSerial(draft[a][h], rows[h])
            /\ draft[a][h].api = rows[h].api /\ draft[a][h].origin = rows[h].origin
  /\ UniqueIn(Sees(a))

\* The others know a payload, and lock the row they will write.
RowsOK(a) ==
  /\ stage[a] = "check" => work[a].payload \in Payloads
  /\ stage[a] \in {"insert", "selected", "update"} =>
       /\ work[a].payload.mfr \in Manufacturers /\ work[a].payload.api \in Apis \ {Blank}
       /\ work[a].payload.serial \in Serials /\ work[a].payload.ip \in Addresses
  /\ stage[a] \in {"selected", "update", "edit"} =>
       rows[work[a].target] # Nobody /\ Promised(a, RowLock(work[a].target))

LocksOK(a) == \A k \in DOMAIN todo[a] : todo[a][k] \in Locks

StageOK(a) ==
  /\ MakersOK(a) /\ HardwareOK(a) /\ CoverOK(a)
  /\ ReportedOK(a) /\ IndexOK(a) /\ VerdictOK(a)
  /\ RowsOK(a)

OwnOK(a) == LocksOK(a) /\ StageOK(a) /\ DraftedOK(a)

RowsTyped == \A h \in Hardware : rows[h] \in RowType(h) \cup {Nobody}

DraftsApart ==
  \A a, b \in Actors, h \in Hardware : a # b => draft[a][h] = Nobody \/ draft[b][h] = Nobody

IdentityInv ==
  /\ RowsTyped
  /\ UniqueIn(rows)
  /\ DraftsApart
  /\ \A a \in Actors : OwnOK(a)
-----------------------------------------------------------------------------
(* Counting: the k-th of a finite set of numbers, and the least. *)

LEMMA KthIn ==
  ASSUME NEW S, S \subseteq Nat, IsFiniteSet(S), NEW k \in 1 .. Cardinality(S)
  PROVE  Kth(k, S) \in S /\ Cardinality(Below(Kth(k, S), S)) = k - 1
<1> DEFINE n == Cardinality(S)
           T == 0 .. n - 1
           f == [x \in S |-> Cardinality(Below(x, S))]
<1>1. n \in Nat
  BY FS_CardinalityType
<1>2. \A x \in S : Cardinality(Below(x, S)) \in Nat /\ Cardinality(Below(x, S)) < n
  BY BelowCounts
<1>3. f \in [S -> T]
  <2>1. \A x \in S : Cardinality(Below(x, S)) \in T
    BY <1>1, <1>2
  <2> QED
    BY <2>1
<1>4. \A x, y \in S : f[x] = f[y] => x = y
  <2> SUFFICES ASSUME NEW x \in S, NEW y \in S, f[x] = f[y], x # y
               PROVE  FALSE
    OBVIOUS
  <2>1. x < y \/ y < x
    <3>1. x \in Nat /\ y \in Nat
      OBVIOUS
    <3> QED
      BY <3>1
  <2>2. Cardinality(Below(x, S)) < Cardinality(Below(y, S))
        \/ Cardinality(Below(y, S)) < Cardinality(Below(x, S))
    BY <2>1, BelowGrows
  <2>3. Cardinality(Below(x, S)) = Cardinality(Below(y, S))
    OBVIOUS
  <2> QED
    BY <1>2, <2>2, <2>3
<1>5. f \in Injection(S, T)
  BY <1>3, <1>4 DEF Injection, IsInjective
<1>6. IsFiniteSet(T) /\ Cardinality(T) = n
  <2> DEFINE m == n - 1
  <2>1. m \in Int /\ 0 \in Int /\ m = n - 1
    BY <1>1
  <2> HIDE DEF m
  <2>2. IsFiniteSet(0 .. m) /\ Cardinality(0 .. m) = IF 0 > m THEN 0 ELSE m - 0 + 1
    BY <2>1, FS_Interval
  <2> QED
    BY <1>1, <2>1, <2>2
<1>7. f \in Surjection(S, T)
  BY <1>5, <1>6, FS_Injection
<1>8. k - 1 \in T
  BY <1>1
<1>9. PICK x \in S : f[x] = k - 1
  BY <1>7, <1>8 DEF Surjection
<1>10. x \in S /\ Cardinality({m \in S : m < x}) = k - 1
  BY <1>9 DEF Below
<1> QED
  BY <1>10 DEF Kth, Below

\* A finite set of numbers that is not empty has a least one.
LEMMA LeastIn ==
  ASSUME NEW S, S \subseteq Nat, IsFiniteSet(S), S # {}
  PROVE  Min(S) \in S /\ \A y \in S : Min(S) <= y
<1> DEFINE x == Kth(1, S)
<1>1. Cardinality(S) \in Nat /\ Cardinality(S) # 0
  BY FS_CardinalityType, FS_EmptySet
<1>2. x \in S /\ Cardinality(Below(x, S)) = 0
  <2>1. 1 \in 1 .. Cardinality(S)
    BY <1>1
  <2>2. Kth(1, S) \in S /\ Cardinality(Below(Kth(1, S), S)) = 1 - 1
    BY <2>1, KthIn
  <2> QED
    BY <2>2
<1> HIDE DEF x
<1>3. Below(x, S) = {}
  BY <1>2, BelowCounts, FS_EmptySet
<1>4. \A y \in S : x <= y
  <2>1. ASSUME NEW y \in S
        PROVE  x <= y
    <3>1. ~(y < x) /\ x \in Nat /\ y \in Nat
      BY <1>2, <1>3 DEF Below
    <3> QED
      BY <3>1
  <2> QED
    BY <2>1
<1> QED
  BY <1>2, <1>4 DEF Min

\* A finite set with no two elements has at most one.
LEMMA AtMostOne ==
  ASSUME NEW S, IsFiniteSet(S), Cardinality(S) <= 1, NEW x \in S, NEW y \in S
  PROVE  x = y
<1>1. S # {} /\ Cardinality(S) \in Nat
  BY FS_CardinalityType
<1>2. Cardinality(S) = 1
  BY <1>1, FS_EmptySet
<1>3. PICK z : S = {z}
  BY <1>2, FS_Singleton
<1> QED
  BY <1>3

\* A sequence made from a finite set lists its elements.
LEMMA ListedOnce ==
  ASSUME NEW S, IsFiniteSet(S)
  PROVE  /\ Cardinality(S) \in Nat
         /\ SetToSeq(S) \in [1 .. Cardinality(S) -> S]
<1>1. Cardinality(S) \in Nat /\ ExistsBijection(1 .. Cardinality(S), S)
  BY FS_CardinalityType
<1>2. \E f \in [1 .. Cardinality(S) -> S] : IsInjective(f)
  BY <1>1 DEF ExistsBijection, Bijection, Injection
<1> QED
  BY <1>1, <1>2 DEF SetToSeq

LEMMA OrderedLists ==
  ASSUME NEW S, S \subseteq Nat, IsFiniteSet(S), NEW kind, NEW k \in DOMAIN Ordered(kind, S)
  PROVE  \E x \in S : Ordered(kind, S)[k] = <<kind, x>>
<1>1. Cardinality(S) \in Nat
  BY FS_CardinalityType
<1>2. k \in 1 .. Cardinality(S) /\ Ordered(kind, S)[k] = <<kind, Kth(k, S)>>
  BY <1>1 DEF Ordered
<1>3. Kth(k, S) \in S
  BY <1>2, KthIn
<1> QED
  BY <1>2, <1>3

-----------------------------------------------------------------------------
(* What a plan is made from, and that it stays when that stays. *)

LEMMA TheOtherLocks ==
  /\ \A m \in Manufacturers : MakerLock(m) \in Locks
  /\ \A h \in Hardware : RowLock(h) \in Locks
  /\ \A i \in Identities : <<"identity", i>> \in Locks
  BY DEF Locks, MakerLock, RowLock

LEMMA SameMatches ==
  ASSUME NEW L, NEW e, \A h \in L : rows'[h] = rows[h], queue'[e] = queue[e]
  PROVE  MatchesOf(e, L)' = MatchesOf(e, L) /\ IsCharger(e)' = IsCharger(e)
<1>1. IsCharger(e)' = IsCharger(e)
  BY DEF IsCharger
<1>2. CASE ~IsCharger(e)
  <2>1. MatchesOf(e, L) = {c \in L \cap Chassis : c = queue[e].device \/ SameIdentity(rows[c], queue[e])}
    BY <1>2 DEF MatchesOf
  <2>2. MatchesOf(e, L)' = {c \in L \cap Chassis : c = queue'[e].device \/ SameIdentity(rows'[c], queue'[e])}
    BY <1>1, <1>2 DEF MatchesOf, SameIdentity
  <2>3. \A c \in L \cap Chassis : SameIdentity(rows'[c], queue'[e]) = SameIdentity(rows[c], queue[e])
    BY DEF SameIdentity
  <2> QED
    BY <1>1, <2>1, <2>2, <2>3
<1>3. CASE IsCharger(e)
  <2>1. MatchesOf(e, L) = IF queue[e].charger # Nobody THEN L \cap {queue[e].charger}
                          ELSE {g \in L \cap Chargers : rows[g].mfr = queue[e].mfr /\ rows[g].serial = queue[e].serial}
    BY <1>3 DEF MatchesOf
  <2>2. MatchesOf(e, L)' = IF queue'[e].charger # Nobody THEN L \cap {queue'[e].charger}
                           ELSE {g \in L \cap Chargers : rows'[g].mfr = queue'[e].mfr /\ rows'[g].serial = queue'[e].serial}
    BY <1>1, <1>3 DEF MatchesOf
  <2> QED
    BY <1>1, <2>1, <2>2
<1> QED
  BY <1>2, <1>3

LEMMA MatchesIn == \A e, L : MatchesOf(e, L) \subseteq L
  BY DEF MatchesOf

LEMMA SameIdentities ==
  ASSUME NEW L, NEW e, \A h \in L : rows'[h] = rows[h], queue'[e] = queue[e]
  PROVE  IdentityOf(e, L)' = IdentityOf(e, L) /\ TargetOf(e, L)' = TargetOf(e, L)
<1>1. MatchesOf(e, L)' = MatchesOf(e, L) /\ IsCharger(e)' = IsCharger(e)
  BY SameMatches
<1>2. IdentityOf(e, L)' = IdentityOf(e, L)
  <2> DEFINE M == MatchesOf(e, L)
             c == CHOOSE d \in M : TRUE
  <2>1. M # {} => rows'[c] = rows[c]
    BY MatchesIn
  <2>2. IdentityOf(e, L) = <<queue[e].mfr, IF IsCharger(e) THEN Blank
                                           ELSE IF queue[e].api # Blank THEN queue[e].api
                                           ELSE IF M # {} THEN rows[c].api
                                           ELSE SerialApi(queue[e].serial)>>
    BY DEF IdentityOf
  <2>3. IdentityOf(e, L)' = <<queue'[e].mfr, IF IsCharger(e)' THEN Blank
                                           ELSE IF queue'[e].api # Blank THEN queue'[e].api
                                           ELSE IF M' # {} THEN rows'[CHOOSE d \in M' : TRUE].api
                                           ELSE SerialApi(queue'[e].serial)>>
    BY DEF IdentityOf, SerialApi
  <2>4. M' = M
    BY <1>1
  <2> HIDE DEF M
  <2> QED
    BY <1>1, <2>1, <2>2, <2>3, <2>4
<1>3. TargetOf(e, L)' = TargetOf(e, L)
  BY <1>1, <1>2 DEF TargetOf
<1> QED
  BY <1>2, <1>3

LEMMA PlanStays ==
  ASSUME NEW L, NEW items, NEW perms,
         \A h \in L : rows'[h] = rows[h], \A e \in items : queue'[e] = queue[e],
         Acceptable(items, perms, L)
  PROVE  Acceptable(items, perms, L)'
<1>1. \A e \in items :
        /\ MatchesOf(e, L)' = MatchesOf(e, L) /\ IsCharger(e)' = IsCharger(e)
        /\ IdentityOf(e, L)' = IdentityOf(e, L) /\ TargetOf(e, L)' = TargetOf(e, L)
  BY SameMatches, SameIdentities
<1>2. ASSUME NEW e \in items
      PROVE  Resolves(e, L)'
  <2>1. Resolves(e, L)
    BY DEF Acceptable
  <2>2. \A h \in MatchesOf(e, L) : rows'[h] = rows[h]
    BY MatchesIn
  <2>3. \A h \in MatchesOf(e, L) :
          /\ Agrees(rows[h], queue[e])' = Agrees(rows[h], queue[e])
          /\ ChargerAgrees(rows[h], queue[e])' = ChargerAgrees(rows[h], queue[e])
    BY <2>2 DEF Agrees, ChargerAgrees
  <2> QED
    BY <1>1, <2>1, <2>2, <2>3 DEF Resolves
<1>3. ASSUME NEW e \in items
      PROVE  OwnsAddress(e, L)'
  <2>1. OwnsAddress(e, L)
    BY DEF Acceptable
  <2> QED
    BY <1>1, <2>1 DEF OwnsAddress
<1>4. ASSUME NEW e \in items, NEW f \in items
      PROVE  Consistent(e, f, L)'
  <2>1. Consistent(e, f, L)
    BY DEF Acceptable
  <2> QED
    BY <1>1, <2>1 DEF Consistent
<1>5. \A e \in items : Permission(e, L)' = Permission(e, L)
  BY <1>1 DEF Permission
<1>6. {Permission(e, L) : e \in items}' \subseteq perms
  BY <1>5 DEF Acceptable
<1> QED
  BY <1>2, <1>3, <1>4, <1>6 DEF Acceptable

LEMMA InventoryStays ==
  ASSUME NEW a, work'[a] = work[a],
         \A h \in work[a].locked : rows'[h] = rows[h],
         \A e \in work[a].batch : queue'[e] = queue[e]
  PROVE  Inventory(a)' = Inventory(a)
<1> DEFINE items == work[a].batch
<1>1. ASSUME NEW h \in work[a].locked
      PROVE  Wanted(items, h)' = Wanted(items, h)
  <2>1. \A e \in items : /\ (rows'[h].ip = queue'[e].ip) = (rows[h].ip = queue[e].ip)
                         /\ IsCharger(e)' = IsCharger(e)
                         /\ SameIdentity(rows[h], queue[e])' = SameIdentity(rows[h], queue[e])
    BY <1>1 DEF IsCharger, SameIdentity
  <2> QED
    BY <1>1, <2>1 DEF Wanted
<1> QED
  BY <1>1 DEF Inventory

-----------------------------------------------------------------------------
(* What a transaction keeps while others take steps. *)

\* Transaction b stays where it is, with its locks; rows and entries it has locked stay as
\* they are, and so do the serial numbers of a manufacturer it has locked.
Stays(b) ==
  /\ stage'[b] = stage[b] /\ work'[b] = work[b] /\ draft'[b] = draft[b]
  /\ \A l \in Locks : (holder[l] = b => holder'[l] = b) /\ (Promised(b, l) => Promised(b, l)')
  /\ \A e \in Entries : holder[EntryLock(e)] = b => queue'[e] = queue[e]
  /\ \A h \in Hardware : rows'[h] # rows[h] =>
       /\ rows'[h] # Nobody
       /\ IF rows[h] = Nobody THEN draft[b][h] = Nobody ELSE holder[RowLock(h)] # b
  /\ \A c \in Chassis : rows[c] # Nobody => rows'[c].mfr = rows[c].mfr
  /\ \A c \in Chassis : Bears(rows'[c]) =>
       \/ Bears(rows[c]) /\ SameSerial(rows'[c], rows[c])
       \/ holder[MakerLock(rows'[c].mfr)] # b

LEMMA BatchStays ==
  ASSUME Domains, NEW b, WorkOK(b), Stays(b), NEW e \in work[b].batch,
         stage[b] \in {"makers", "addresses"} \cup Late
  PROVE  /\ e \in Entries /\ queue'[e] = queue[e] /\ queue[e].state = "pending"
         /\ queue[e] \in EntryType /\ queue[e].mfr \in Manufacturers /\ queue[e].ip \in Addresses
<1>1. e \in Entries /\ holder[EntryLock(e)] = b /\ queue[e].state = "pending"
  BY DEF WorkOK, ApprovalOK, Late
<1>2. queue'[e] = queue[e]
  BY <1>1 DEF Stays
<1>3. queue[e] \in EntryType
  BY <1>1 DEF Domains
<1> QED
  BY <1>1, <1>2, <1>3 DEF EntryType

LEMMA MakersStay ==
  ASSUME Domains, NEW b, WorkOK(b), Stays(b), MakersOK(b)
  PROVE  MakersOK(b)'
<1>0. stage'[b] = stage[b] /\ work'[b] = work[b]
  BY DEF Stays
<1>1. ASSUME NEW e \in work[b].batch, stage[b] = "makers"
      PROVE  Promised(b, MakerLock(queue[e].mfr))'
  <2> DEFINE m == queue[e].mfr
  <2>1. queue'[e] = queue[e] /\ m \in Manufacturers
    BY <1>1, BatchStays
  <2>2. Promised(b, MakerLock(m))
    BY <1>1 DEF MakersOK
  <2>3. \A n \in Manufacturers : Promised(b, MakerLock(n)) => Promised(b, MakerLock(n))'
    BY TheOtherLocks DEF Stays
  <2> QED
    BY <2>1, <2>2, <2>3 DEF MakerLock, Promised
<1>2. ASSUME NEW e \in work[b].batch, stage[b] \in {"addresses"} \cup Late
      PROVE  holder'[MakerLock(queue'[e].mfr)] = b
  <2>1. queue'[e] = queue[e] /\ queue[e].mfr \in Manufacturers
    BY <1>2, BatchStays
  <2>2. holder[MakerLock(queue[e].mfr)] = b
    BY <1>2 DEF MakersOK
  <2> QED
    BY <2>1, <2>2, TheOtherLocks DEF Stays
<1>3. stage'[b] = "makers" => \A e \in work'[b].batch : Promised(b, MakerLock(queue[e].mfr))'
  BY <1>0, <1>1
<1>4. stage'[b] \in {"addresses"} \cup Late =>
        \A e \in work'[b].batch : holder'[MakerLock(queue'[e].mfr)] = b
  BY <1>0, <1>2
<1> QED
  BY <1>3, <1>4 DEF MakersOK, MakerLock, Late

LEMMA HardwareStays ==
  ASSUME Domains, NEW b, WorkOK(b), Stays(b), HardwareOK(b)
  PROVE  HardwareOK(b)'
<1>0. stage'[b] = stage[b] /\ work'[b] = work[b]
  BY DEF Stays
<1>1. ASSUME NEW h \in work[b].locked, stage[b] \in Late
      PROVE  h \in Hardware /\ rows'[h] # Nobody /\ Promised(b, RowLock(h))'
  <2>1. h \in Hardware /\ rows[h] # Nobody /\ Promised(b, RowLock(h))
    BY <1>1 DEF HardwareOK
  <2> QED
    BY <2>1, TheOtherLocks DEF Stays
<1>2. ASSUME stage[b] = "write"
      PROVE  /\ \A h \in work[b].locked : holder'[RowLock(h)] = b
             /\ Acceptable(work[b].batch, work[b].perms, Inventory(b))'
  <2>1. \A h \in work[b].locked : h \in Hardware /\ rows[h] # Nobody /\ holder[RowLock(h)] = b
    BY <1>2 DEF HardwareOK, Late
  <2>2. \A h \in work[b].locked : rows'[h] = rows[h] /\ holder'[RowLock(h)] = b
    BY <2>1, TheOtherLocks DEF Stays
  <2>3. \A e \in work[b].batch : queue'[e] = queue[e]
    BY <1>2, BatchStays DEF Late
  <2>4. Inventory(b)' = Inventory(b)
    BY <1>0, <2>2, <2>3, InventoryStays
  <2>5. PICK L, items, perms : L = Inventory(b) /\ items = work[b].batch /\ perms = work[b].perms
    OBVIOUS
  <2>6. Acceptable(items, perms, L)
    BY <1>2, <2>5 DEF HardwareOK
  <2>7. \A h \in L : rows'[h] = rows[h]
    BY <2>2, <2>5 DEF Inventory
  <2>8. Acceptable(items, perms, L)'
    BY <2>3, <2>5, <2>6, <2>7, PlanStays
  <2>9. L = Inventory(b)' /\ items = work'[b].batch /\ perms = work'[b].perms
    BY <1>0, <2>4, <2>5
  <2> QED
    BY <2>2, <2>8, <2>9
<1> QED
  BY <1>0, <1>1, <1>2 DEF HardwareOK, RowLock, Late

LEMMA CoverStays ==
  ASSUME Domains, NEW b, WorkOK(b), Stays(b), MakersOK(b), CoverOK(b)
  PROVE  CoverOK(b)'
<1>0. stage'[b] = stage[b] /\ work'[b] = work[b]
  BY DEF Stays
<1>1. ASSUME NEW e \in work[b].batch, NEW c \in Chassis, stage[b] \in Late,
             ~IsCharger(e)', queue'[e].serial # Blank, Bears(rows'[c]),
             SameSerial(rows'[c], queue'[e])
      PROVE  c \in work[b].locked
  <2>1. queue'[e] = queue[e]
    BY <1>1, BatchStays
  <2>2. holder[MakerLock(queue[e].mfr)] = b
    BY <1>1 DEF MakersOK
  <2>3. rows'[c].mfr = queue[e].mfr
    BY <1>1, <2>1 DEF SameSerial
  <2>4. Bears(rows[c]) /\ SameSerial(rows'[c], rows[c])
    BY <1>1, <2>2, <2>3 DEF Stays
  <2>5. ~IsCharger(e) /\ queue[e].serial # Blank /\ SameSerial(rows[c], queue[e])
    BY <1>1, <2>1, <2>4 DEF IsCharger, SameSerial
  <2> QED
    BY <1>1, <2>4, <2>5 DEF CoverOK
<1> QED
  BY <1>0, <1>1 DEF CoverOK, Bears, SameSerial, IsCharger, Late

LEMMA ReportedStays ==
  ASSUME NEW b, Stays(b), ReportedOK(b)
  PROVE  ReportedOK(b)' /\ Reported(b)' = Reported(b)
<1>1. Reported(b)' = Reported(b) /\ stage'[b] = stage[b]
  BY DEF Stays, Reported
<1>2. ASSUME NEW p \in Reported(b), stage[b] \in {"index", "payload", "store"}
      PROVE  /\ p \in Payloads /\ p.api # Blank /\ Promised(b, MakerLock(p.mfr))'
             /\ stage[b] # "index" => holder'[MakerLock(p.mfr)] = b
  <2>1. p \in Payloads /\ p.api # Blank /\ Promised(b, MakerLock(p.mfr))
        /\ (stage[b] # "index" => holder[MakerLock(p.mfr)] = b)
    BY <1>2 DEF ReportedOK
  <2>2. MakerLock(p.mfr) \in Locks
    BY <2>1, PayloadsAssumption, TheOtherLocks
  <2> QED
    BY <2>1, <2>2 DEF Stays
<1> QED
  BY <1>1, <1>2 DEF ReportedOK, MakerLock

LEMMA SeesAt == \A a, h : h \in Hardware =>
                  Sees(a)[h] = IF draft[a][h] # Nobody THEN draft[a][h] ELSE rows[h]
  BY DEF Sees, Over

LEMMA ChassisAreHardware == \A c \in Chassis : c \in Hardware /\ c \notin Chargers
  BY KeysAssumption DEF Hardware

\* What b sees of a chassis: of a manufacturer it has locked it sees no new serial number.
LEMMA SightStays ==
  ASSUME NEW b, Stays(b), NEW c \in Chassis
  PROVE  /\ Sees(b)[c] # Nobody => /\ Sees(b)'[c] # Nobody
                                   /\ Sees(b)'[c].mfr = Sees(b)[c].mfr
         /\ Bears(Sees(b)'[c]) /\ holder[MakerLock(Sees(b)'[c].mfr)] = b =>
              Bears(Sees(b)[c]) /\ SameSerial(Sees(b)'[c], Sees(b)[c])
         /\ draft[b][c] # Nobody => Sees(b)'[c] = Sees(b)[c] /\ Sees(b)[c] = draft[b][c]
         /\ draft[b][c] = Nobody => Sees(b)'[c] = rows'[c] /\ Sees(b)[c] = rows[c]
<1>1. c \in Hardware
  BY ChassisAreHardware
<1>2. Sees(b)[c] = IF draft[b][c] # Nobody THEN draft[b][c] ELSE rows[c]
  BY <1>1, SeesAt
<1>3. Sees(b)'[c] = IF draft[b][c] # Nobody THEN draft[b][c] ELSE rows'[c]
  <2>1. Sees(b)'[c] = IF draft'[b][c] # Nobody THEN draft'[b][c] ELSE rows'[c]
    BY <1>1 DEF Sees, Over
  <2> QED
    BY <2>1 DEF Stays
<1>4. rows[c] # Nobody => rows'[c] # Nobody /\ rows'[c].mfr = rows[c].mfr
  BY <1>1 DEF Stays
<1>5. Bears(rows'[c]) /\ holder[MakerLock(rows'[c].mfr)] = b =>
        Bears(rows[c]) /\ SameSerial(rows'[c], rows[c])
  BY DEF Stays
<1> QED
  BY <1>2, <1>3, <1>4, <1>5 DEF SameSerial

LEMMA IndexStays ==
  ASSUME NEW b, Stays(b), ReportedOK(b), IndexOK(b)
  PROVE  IndexOK(b)'
<1> DEFINE index == work[b].index
<1>0. stage'[b] = stage[b] /\ work'[b] = work[b] /\ Reported(b)' = Reported(b)
  BY ReportedStays DEF Stays
<1>1. ASSUME NEW c \in Chassis, index[c] # Nobody, stage[b] \in {"payload", "store"}
      PROVE  Sees(b)'[c] # Nobody /\ Sees(b)'[c].mfr = index[c].mfr
  <2>1. Sees(b)[c] # Nobody /\ Sees(b)[c].mfr = index[c].mfr
    BY <1>1 DEF IndexOK
  <2> QED
    BY <2>1, SightStays
<1>2. ASSUME NEW p \in Reported(b), NEW c \in Chassis, stage[b] \in {"payload", "store"},
             Bears(Sees(b)'[c]), Sees(b)'[c].mfr = p.mfr
      PROVE  index[c] # Nobody /\ index[c].serial = Sees(b)'[c].serial
  <2>1. holder[MakerLock(p.mfr)] = b
    BY <1>2 DEF ReportedOK
  <2>2. Bears(Sees(b)[c]) /\ SameSerial(Sees(b)'[c], Sees(b)[c])
    BY <1>2, <2>1, SightStays
  <2> QED
    BY <1>2, <2>2 DEF IndexOK, SameSerial
<1>3. stage[b] \in {"payload", "store"} =>
        DOMAIN index = Hardware /\ \A h \in Hardware : index[h] \in RowType(h) \cup {Nobody}
  BY DEF IndexOK
<1>4. \A h : RowType(h)' = RowType(h)
  BY DEF RowType, Apis, Serials, SerialApi, IpApi
<1>5. (Sees(b))' = Sees(b)'
  OBVIOUS
<1>6. stage'[b] \in {"payload", "store"} =>
        \A c \in Chassis : index[c] # Nobody =>
           Sees(b)'[c] # Nobody /\ Sees(b)'[c].mfr = index[c].mfr
  BY <1>0, <1>1
<1>7. stage'[b] \in {"payload", "store"} =>
        \A p \in Reported(b), c \in Chassis : Bears(Sees(b)'[c]) /\ Sees(b)'[c].mfr = p.mfr =>
          index[c] # Nobody /\ index[c].serial = Sees(b)'[c].serial
  BY <1>0, <1>2
<1> QED
  BY <1>0, <1>3, <1>4, <1>6, <1>7 DEF IndexOK, Bears

LEMMA VerdictStays ==
  ASSUME NEW b, WorkOK(b), Stays(b), VerdictOK(b)
  PROVE  VerdictOK(b)'
<1>0. stage'[b] = stage[b] /\ work'[b] = work[b]
  BY DEF Stays
<1>1. ASSUME stage[b] = "store", work[b].verdict # "new", Promised(b, RowLock(work[b].target))
      PROVE  Promised(b, RowLock(work[b].target))'
  <2>1. PICK c \in Chassis : c = work[b].target
    BY <1>1 DEF WorkOK, SyncOK
  <2>2. RowLock(c) \in Locks
    BY ChassisAreHardware, TheOtherLocks
  <2>3. Promised(b, RowLock(c))'
    BY <1>1, <2>1, <2>2 DEF Stays
  <2> QED
    BY <1>0, <2>1, <2>3 DEF Promised, RowLock
<1> QED
  BY <1>0, <1>1 DEF VerdictOK

LEMMA DraftedStays ==
  ASSUME NEW b, Stays(b), DraftedOK(b), UniqueIn(rows)'
  PROVE  DraftedOK(b)'
<1>0. draft'[b] = draft[b] /\ \A h : RowType(h)' = RowType(h)
  BY DEF Stays, RowType, Apis, Serials, SerialApi, IpApi
<1>1. ASSUME NEW h \in Hardware, draft[b][h] # Nobody
      PROVE  /\ draft[b][h] \in RowType(h) /\ holder'[MakerLock(draft[b][h].mfr)] = b
             /\ rows'[h] # Nobody =>
                  /\ holder'[RowLock(h)] = b
                  /\ SameSerial(draft[b][h], rows'[h])
                  /\ draft[b][h].api = rows'[h].api /\ draft[b][h].origin = rows'[h].origin
  <2>1. draft[b][h] \in RowType(h) /\ holder[MakerLock(draft[b][h].mfr)] = b
    BY <1>1 DEF DraftedOK
  <2>2. draft[b][h].mfr \in Manufacturers
    BY <2>1 DEF RowType
  <2>3. holder'[MakerLock(draft[b][h].mfr)] = b
    BY <2>1, <2>2, TheOtherLocks DEF Stays
  <2>4. CASE rows[h] = Nobody
    <3>1. rows'[h] = Nobody
      BY <1>1, <2>4 DEF Stays
    <3> QED
      BY <2>1, <2>3, <3>1
  <2>5. CASE rows[h] # Nobody
    <3>1. holder[RowLock(h)] = b /\ SameSerial(draft[b][h], rows[h])
          /\ draft[b][h].api = rows[h].api /\ draft[b][h].origin = rows[h].origin
      BY <1>1, <2>5 DEF DraftedOK
    <3>2. rows'[h] = rows[h] /\ holder'[RowLock(h)] = b
      BY <2>5, <3>1, TheOtherLocks DEF Stays
    <3> QED
      BY <2>1, <2>3, <3>1, <3>2
  <2> QED
    BY <2>4, <2>5
<1>2. UniqueIn(Sees(b)')
  <2> SUFFICES ASSUME NEW c \in Chassis, NEW d \in Chassis, c # d, Bears(Sees(b)'[c]),
                      Bears(Sees(b)'[d]), SameSerial(Sees(b)'[c], Sees(b)'[d])
               PROVE  FALSE
    BY DEF UniqueIn
  <2>1. CASE draft[b][c] = Nobody /\ draft[b][d] = Nobody
    <3>1. Sees(b)'[c] = rows'[c] /\ Sees(b)'[d] = rows'[d]
      BY <2>1, SightStays
    <3> QED
      BY <3>1 DEF UniqueIn, Bears, SameSerial
  <2>2. CASE draft[b][c] # Nobody \/ draft[b][d] # Nobody
    <3>1. \A h \in {c, d} : h \in Hardware /\ (draft[b][h] # Nobody =>
            holder[MakerLock(draft[b][h].mfr)] = b /\ Sees(b)'[h] = draft[b][h])
      BY ChassisAreHardware, SightStays DEF DraftedOK
    <3>2. Sees(b)'[c].mfr = Sees(b)'[d].mfr
      BY DEF SameSerial
    <3>3. holder[MakerLock(Sees(b)'[c].mfr)] = b /\ holder[MakerLock(Sees(b)'[d].mfr)] = b
      BY <2>2, <3>1, <3>2
    <3>4. /\ Bears(Sees(b)[c]) /\ SameSerial(Sees(b)'[c], Sees(b)[c])
          /\ Bears(Sees(b)[d]) /\ SameSerial(Sees(b)'[d], Sees(b)[d])
      BY <3>3, SightStays
    <3>5. SameSerial(Sees(b)[c], Sees(b)[d])
      BY <3>4 DEF SameSerial
    <3> QED
      BY <3>4, <3>5 DEF DraftedOK, UniqueIn
  <2> QED
    BY <2>1, <2>2
<1>3. UniqueIn(Sees(b))'
  BY <1>2 DEF UniqueIn, Bears, SameSerial
<1> QED
  BY <1>0, <1>1, <1>3 DEF DraftedOK, SameSerial, MakerLock, RowLock

LEMMA RowsStay ==
  ASSUME NEW b, WorkOK(b), Stays(b), RowsOK(b)
  PROVE  RowsOK(b)'
<1>0. stage'[b] = stage[b] /\ work'[b] = work[b]
  BY DEF Stays
<1>1. ASSUME stage[b] \in {"selected", "update", "edit"}
      PROVE  rows'[work[b].target] # Nobody /\ Promised(b, RowLock(work[b].target))'
  <2>1. PICK h \in Hardware : h = work[b].target
    BY <1>1 DEF WorkOK, OthersOK, Hardware
  <2>2. rows[h] # Nobody /\ Promised(b, RowLock(h))
    BY <1>1, <2>1 DEF RowsOK
  <2>3. rows'[h] # Nobody /\ Promised(b, RowLock(h))'
    BY <2>2, TheOtherLocks DEF Stays
  <2> QED
    BY <1>0, <2>1, <2>3 DEF Promised, RowLock
<1> QED
  BY <1>0, <1>1 DEF RowsOK, Apis, Serials, SerialApi, IpApi

LEMMA StayingOwnOK ==
  ASSUME Domains, NEW b, WorkOK(b), OwnOK(b), Stays(b), LocksOK(b)', UniqueIn(rows)'
  PROVE  OwnOK(b)'
  BY MakersStay, HardwareStays, CoverStays, ReportedStays, IndexStays, VerdictStays,
     DraftedStays, RowsStay DEF OwnOK, StageOK

-----------------------------------------------------------------------------
(* The forms a step can have. *)

\* Hardware changes under its row lock, a new row where nobody drafts one; a chassis gets a
\* serial number under the lock of its manufacturer.
RowsGuarded(a) ==
  /\ \A h \in Hardware : rows'[h] # rows[h] =>
       /\ rows'[h] # Nobody
       /\ IF rows[h] = Nobody THEN \A b \in Actors \ {a} : draft[b][h] = Nobody
                              ELSE holder[RowLock(h)] = a
  /\ \A c \in Chassis : rows[c] # Nobody => rows'[c].mfr = rows[c].mfr
  /\ \A c \in Chassis : Bears(rows'[c]) =>
       \/ Bears(rows[c]) /\ SameSerial(rows'[c], rows[c])
       \/ holder[MakerLock(rows'[c].mfr)] = a

LEMMA SameRowsGuarded ==
  ASSUME NEW a, UNCHANGED rows
  PROVE  /\ RowsGuarded(a)
         /\ RowsTyped => RowsTyped'
         /\ UniqueIn(rows) => UniqueIn(rows)'
<1>1. RowsGuarded(a)
  BY DEF RowsGuarded, SameSerial
<1>2. RowsTyped => RowsTyped'
  BY DEF RowsTyped, RowType, Apis, Serials, SerialApi, IpApi
<1>3. UniqueIn(rows) => UniqueIn(rows)'
  BY DEF UniqueIn, Bears, SameSerial
<1> QED
  BY <1>1, <1>2, <1>3

LEMMA OthersStay ==
  ASSUME AddressInv, NEW a, NEW b \in Actors, b # a, Quiet(a), EntriesGuarded(a), RowsGuarded(a)
  PROVE  Stays(b) /\ todo'[b] = todo[b]
<1>1. stage'[b] = stage[b] /\ work'[b] = work[b] /\ draft'[b] = draft[b] /\ todo'[b] = todo[b]
  BY DEF Quiet, AddressInv, Domains
<1>2. \A l \in Locks : holder[l] = b => holder'[l] = b
  BY DEF Quiet
<1>3. \A l \in Locks : Promised(b, l) => Promised(b, l)'
  BY <1>1, <1>2 DEF Promised
<1>4. \A e \in Entries : holder[EntryLock(e)] = b => queue'[e] = queue[e]
  BY NobodyAssumption DEF EntriesGuarded
<1>5. \A h \in Hardware : rows'[h] # rows[h] =>
        /\ rows'[h] # Nobody
        /\ IF rows[h] = Nobody THEN draft[b][h] = Nobody ELSE holder[RowLock(h)] # b
  BY DEF RowsGuarded
<1>6. \A c \in Chassis : Bears(rows'[c]) =>
        \/ Bears(rows[c]) /\ SameSerial(rows'[c], rows[c])
        \/ holder[MakerLock(rows'[c].mfr)] # b
  BY DEF RowsGuarded
<1> QED
  BY <1>1, <1>2, <1>3, <1>4, <1>5, <1>6 DEF Stays, RowsGuarded

\* A guarded step of a keeps the invariant if a keeps its own part and serial numbers stay
\* unique.
LEMMA IdentityStep ==
  ASSUME AddressInv, IdentityInv, NEW a, Quiet(a), EntriesGuarded(a), RowsGuarded(a),
         RowsTyped', UniqueIn(rows)', DraftsApart', a \in Actors => OwnOK(a)'
  PROVE  IdentityInv'
<1>1. ASSUME NEW b \in Actors
      PROVE  OwnOK(b)'
  <2>1. CASE b = a
    BY <2>1
  <2>2. CASE b # a
    <3>1. Domains /\ WorkOK(b) /\ OwnOK(b)
      BY DEF AddressInv, IdentityInv
    <3>2. Stays(b) /\ todo'[b] = todo[b]
      BY <2>2, OthersStay
    <3>3. LocksOK(b)'
      BY <3>1, <3>2 DEF OwnOK, LocksOK, Locks, Identities, Apis, Serials, SerialApi, IpApi
    <3> QED
      BY <3>1, <3>2, <3>3, StayingOwnOK
  <2> QED
    BY <2>1, <2>2
<1> QED
  BY <1>1 DEF IdentityInv

LEMMA NothingDrafted ==
  ASSUME NEW a, \A h \in Hardware : draft'[a][h] = Nobody, UniqueIn(rows)'
  PROVE  DraftedOK(a)'
<1>1. \A c \in Chassis : Sees(a)'[c] = rows'[c]
  BY ChassisAreHardware DEF Sees, Over
<1>2. UniqueIn(Sees(a))'
  BY <1>1 DEF UniqueIn, Bears, SameSerial
<1> QED
  BY <1>2 DEF DraftedOK

\* At these stages nothing is said of what is remembered.
LEMMA PlainStageOK ==
  ASSUME NEW a, stage'[a] \in {"idle", "listed", "entries", "classify", "record"}
  PROVE  StageOK(a)'
  BY DEF StageOK, MakersOK, HardwareOK, CoverOK, ReportedOK, IndexOK, VerdictOK, RowsOK, Late

LEMMA ApprovalStageOK ==
  ASSUME NEW a, stage'[a] \in {"makers", "addresses"} \cup Late,
         MakersOK(a)', HardwareOK(a)', CoverOK(a)'
  PROVE  StageOK(a)'
  BY DEF StageOK, ReportedOK, IndexOK, VerdictOK, RowsOK, Late

LEMMA SyncStageOK ==
  ASSUME NEW a, stage'[a] \in {"index", "payload", "store"},
         ReportedOK(a)', IndexOK(a)', VerdictOK(a)'
  PROVE  StageOK(a)'
  BY DEF StageOK, MakersOK, HardwareOK, CoverOK, RowsOK, Late

LEMMA OtherStageOK ==
  ASSUME NEW a, stage'[a] \in {"check", "insert", "selected", "update", "edit"}, RowsOK(a)'
  PROVE  StageOK(a)'
  BY DEF StageOK, MakersOK, HardwareOK, CoverOK, ReportedOK, IndexOK, VerdictOK, Late

LEMMA DraftsKeptApart ==
  ASSUME AddressInv, IdentityInv, NEW a \in Actors, NEW d, draft' = [draft EXCEPT ![a] = d],
         \A h \in Hardware : d[h] # Nobody => \A b \in Actors \ {a} : draft[b][h] = Nobody
  PROVE  DraftsApart'
<1>1. \A b \in Actors : draft'[b] = IF b = a THEN d ELSE draft[b]
  BY DEF AddressInv, Domains
<1> QED
  BY <1>1 DEF IdentityInv, DraftsApart

LEMMA EndIdentity ==
  ASSUME AddressInv, IdentityInv, NEW a \in Actors, Ended(a), EntriesGuarded(a), RowsGuarded(a),
         RowsTyped', UniqueIn(rows)'
  PROVE  IdentityInv'
<1>1. /\ stage' = [stage EXCEPT ![a] = "idle"] /\ todo' = [todo EXCEPT ![a] = << >>]
      /\ work' = [work EXCEPT ![a] = Idle] /\ draft' = [draft EXCEPT ![a] = NoDraft]
      /\ holder' = Released(a)
  BY DEF Ended, Goto
<1>2. stage'[a] = "idle" /\ todo'[a] = << >> /\ work'[a] = Idle /\ draft'[a] = NoDraft
  BY <1>1 DEF AddressInv, Domains
<1>3. Quiet(a)
  <2>1. /\ holder' \in [Locks -> Actors \cup {Nobody}]
        /\ \A l \in Locks, b \in Actors \ {a} : holder[l] = b => holder'[l] = b
    BY <1>1, HolderReleased
  <2> QED
    BY <1>1, <1>2, <2>1 DEF Quiet
<1>4. \A h \in Hardware : NoDraft[h] = Nobody
  BY DEF NoDraft
<1>5. LocksOK(a)' /\ StageOK(a)' /\ DraftedOK(a)'
  BY <1>2, <1>4, PlainStageOK, NothingDrafted DEF LocksOK
<1>6. DraftsApart'
  BY <1>1, <1>4, DraftsKeptApart
<1> QED
  BY <1>3, <1>5, <1>6, IdentityStep DEF OwnOK

LEMMA RollbackIdentity ==
  ASSUME AddressInv, IdentityInv, NEW a \in Actors, Rollback(a)
  PROVE  IdentityInv'
<1>1. Ended(a) /\ UNCHANGED <<rows, queue>>
  BY DEF Rollback
<1>2. EntriesGuarded(a)
  BY <1>1, NothingWritten
<1> QED
  BY <1>1, <1>2, SameRowsGuarded, EndIdentity DEF IdentityInv

\* A step that writes no row.
LEMMA GotoIdentity ==
  ASSUME AddressInv, IdentityInv, NEW a \in Actors, NEW s, NEW locks, NEW w, Goto(a, s, locks, w),
         UNCHANGED <<rows, draft, holder>>, EntriesGuarded(a), LocksOK(a)', StageOK(a)'
  PROVE  IdentityInv'
<1>1. /\ stage' = [stage EXCEPT ![a] = s] /\ todo' = [todo EXCEPT ![a] = locks]
      /\ work' = [work EXCEPT ![a] = w]
  BY DEF Goto
<1>2. /\ holder' \in [Locks -> Actors \cup {Nobody}]
      /\ \A l \in Locks, b \in Actors \ {a} : holder[l] = b => holder'[l] = b
  BY HolderKept
<1>3. stage'[a] = s /\ todo'[a] = locks /\ work'[a] = w /\ draft'[a] = draft[a]
  BY <1>1 DEF AddressInv, Domains
<1>4. draft' = [draft EXCEPT ![a] = draft'[a]]
  BY DEF AddressInv, Domains
<1>5. Quiet(a)
  BY <1>1, <1>2, <1>3, <1>4 DEF Quiet
<1>6. DraftedOK(a)'
  <2>1. DraftedOK(a)
    BY DEF IdentityInv, OwnOK
  <2> QED
    BY <2>1 DEF DraftedOK, UniqueIn, Bears, SameSerial, Sees, Over, MakerLock, RowLock,
                RowType, Apis, Serials, SerialApi, IpApi
<1>7. DraftsApart'
  BY DEF IdentityInv, DraftsApart
<1>8. RowsGuarded(a) /\ RowsTyped' /\ UniqueIn(rows)'
  BY SameRowsGuarded DEF IdentityInv
<1> QED
  BY <1>5, <1>6, <1>7, <1>8, IdentityStep DEF OwnOK

LEMMA ProceedsIdentity ==
  ASSUME AddressInv, IdentityInv, NEW a \in Actors, NEW s, NEW locks, NEW w,
         Proceeds(a, s, locks, w), LocksOK(a)', StageOK(a)'
  PROVE  IdentityInv'
<1>1. Goto(a, s, locks, w) /\ UNCHANGED <<rows, queue, draft, holder>>
  BY DEF Proceeds
<1>2. EntriesGuarded(a)
  BY <1>1, NothingWritten
<1> QED
  BY <1>1, <1>2, GotoIdentity

\* The locks a step asks for are locks.
LEMMA AsksForLocks ==
  ASSUME NEW a, NEW locks, todo'[a] = locks, \A k \in DOMAIN locks : locks[k] \in Locks
  PROVE  LocksOK(a)'
  BY DEF LocksOK, Locks, Identities, Apis, Serials, SerialApi, IpApi

LEMMA NoLocks ==
  ASSUME NEW a, todo'[a] = << >>
  PROVE  LocksOK(a)'
  BY DEF LocksOK

-----------------------------------------------------------------------------
(* The initial states, the locks, and a review that imports nothing. *)

LEMMA InitIdentity ==
  ASSUME Init
  PROVE  IdentityInv
<1>1. PICK b \in Beginnings : rows = b.rows
  BY DEF Init
<1>2. RowsTyped
  BY <1>1, BeginningsAssumption DEF RowsTyped
<1>3. UniqueIn(rows)
  BY <1>1, BeginningsAssumption DEF UniqueIn, Bears, SameSerial
<1>4. draft = [a \in Actors |-> NoDraft] /\ \A h \in Hardware : NoDraft[h] = Nobody
  BY DEF Init, NoDraft
<1>5. DraftsApart
  BY <1>4 DEF DraftsApart
<1>6. ASSUME NEW a \in Actors
      PROVE  OwnOK(a)
  <2>1. stage[a] = "idle" /\ todo[a] = << >> /\ \A h \in Hardware : draft[a][h] = Nobody
    BY <1>4 DEF Init
  <2>2. UniqueIn(Sees(a))
    <3>1. \A c \in Chassis : Sees(a)[c] = rows[c]
      BY <2>1, ChassisAreHardware DEF Sees, Over
    <3> QED
      BY <1>3, <3>1 DEF UniqueIn, Bears, SameSerial
  <2>3. DraftedOK(a) /\ LocksOK(a)
    BY <2>1, <2>2 DEF DraftedOK, LocksOK
  <2>4. StageOK(a)
    BY <2>1 DEF StageOK, MakersOK, HardwareOK, CoverOK, ReportedOK, IndexOK, VerdictOK, RowsOK, Late
  <2> QED
    BY <2>3, <2>4 DEF OwnOK
<1> QED
  BY <1>2, <1>3, <1>5, <1>6 DEF IdentityInv

\* The locks a transaction waits for after it has taken one.
LEMMA TailLocks ==
  ASSUME NEW s, IsSeq(s), s # << >>, \A k \in DOMAIN s : s[k] \in Locks
  PROVE  Head(s) \in Locks /\ \A k \in DOMAIN Tail(s) : Tail(s)[k] \in Locks
<1> DEFINE R == {s[k] : k \in DOMAIN s}
<1>1. s \in Seq(R) /\ R \subseteq Locks
  BY DEF IsSeq
<1>2. s \in Seq(Locks)
  <2>1. Len(s) \in Nat /\ s \in [1 .. Len(s) -> R]
    BY <1>1, LenProperties
  <2>2. DOMAIN s = 1 .. Len(s) /\ s = [k \in 1 .. Len(s) |-> s[k]]
    BY <2>1
  <2>3. [k \in 1 .. Len(s) |-> s[k]] \in Seq(Locks)
    BY <2>1, <2>2
  <2> QED
    BY <2>2, <2>3
<1>3. Tail(s) \in Seq(Locks) /\ Head(s) \in Locks
  BY <1>2
<1> QED
  BY <1>3

LEMMA AcquireIdentity ==
  ASSUME AddressInv, IdentityInv, NEW a \in Actors, Acquire(a)
  PROVE  IdentityInv'
<1>1. UNCHANGED <<rows, queue, draft, stage, work>> /\ todo[a] # << >>
  BY DEF Acquire
<1>2. /\ Quiet(a) /\ todo'[a] = Tail(todo[a])
      /\ \A m \in Locks : holder[m] = a => holder'[m] = a
      /\ \A m \in Locks : Promised(a, m) => Promised(a, m)'
  BY AcquireForms
<1>3. Domains /\ WorkOK(a) /\ OwnOK(a)
  BY DEF AddressInv, IdentityInv
<1>4. RowsGuarded(a) /\ RowsTyped' /\ UniqueIn(rows)'
  BY <1>1, SameRowsGuarded DEF IdentityInv
<1>5. EntriesGuarded(a)
  BY <1>1, NothingWritten
<1>6. Stays(a)
  BY <1>1, <1>2 DEF Stays, SameSerial
<1>7. LocksOK(a)'
  <2>1. \A k \in DOMAIN Tail(todo[a]) : Tail(todo[a])[k] \in Locks
    BY <1>1, <1>3, TailLocks DEF WorkOK, OwnOK, LocksOK
  <2> QED
    BY <1>2, <2>1, AsksForLocks
<1>8. OwnOK(a)'
  BY <1>3, <1>4, <1>6, <1>7, StayingOwnOK
<1>9. DraftsApart'
  BY <1>1 DEF IdentityInv, DraftsApart
<1> QED
  BY <1>2, <1>4, <1>5, <1>8, <1>9, IdentityStep

LEMMA DismissIdentity ==
  ASSUME AddressInv, IdentityInv, NEW e \in Entries, Dismiss(e)
  PROVE  IdentityInv'
<1>1. Quiet(Nobody) /\ EntriesGuarded(Nobody) /\ UNCHANGED <<rows, draft>>
  BY DismissForms
<1>2. RowsGuarded(Nobody) /\ RowsTyped' /\ UniqueIn(rows)'
  BY <1>1, SameRowsGuarded DEF IdentityInv
<1>3. DraftsApart' /\ Nobody \notin Actors
  BY <1>1, NobodyAssumption DEF IdentityInv, DraftsApart
<1> QED
  BY <1>1, <1>2, <1>3, IdentityStep

LEMMA StutterIdentity ==
  ASSUME AddressInv, IdentityInv, UNCHANGED vars
  PROVE  IdentityInv'
<1>1. UNCHANGED <<rows, queue, draft, holder, stage, todo, work>>
  BY DEF vars
<1>2. Quiet(Nobody) /\ EntriesGuarded(Nobody)
  BY <1>1, NobodyAssumption DEF AddressInv, Domains, EntriesGuarded, Quiet
<1>3. RowsGuarded(Nobody) /\ RowsTyped' /\ UniqueIn(rows)'
  BY <1>1, SameRowsGuarded DEF IdentityInv
<1>4. DraftsApart' /\ Nobody \notin Actors
  BY <1>1, NobodyAssumption DEF IdentityInv, DraftsApart
<1> QED
  BY <1>2, <1>3, <1>4, IdentityStep

-----------------------------------------------------------------------------
(* Approval: the steps before the plan. *)

LEMMA ApproveBeginsIdentity ==
  ASSUME AddressInv, IdentityInv, NEW a \in Actors, ApproveBegins(a)
  PROVE  IdentityInv'
<1>1. PICK w : Proceeds(a, "listed", << >>, w)
  BY DEF ApproveBegins
<1>2. stage'[a] = "listed" /\ todo'[a] = << >>
  BY <1>1, Went DEF Proceeds
<1> QED
  BY <1>1, <1>2, NoLocks, PlainStageOK, ProceedsIdentity

LEMMA ApproveLocksEntriesIdentity ==
  ASSUME AddressInv, IdentityInv, NEW a \in Actors, ApproveLocksEntries(a)
  PROVE  IdentityInv'
<1> DEFINE found == {e \in Entries : queue[e].state = "pending" /\ queue[e].ip \in work[a].ips}
           w == [work[a] EXCEPT !.locked = found]
           locks == Ordered("entry", found)
<1>1. Proceeds(a, "entries", locks, w)
  BY DEF ApproveLocksEntries
<1>2. found \subseteq Entries /\ found \subseteq Nat /\ IsFiniteSet(found)
  <2>1. found \subseteq Entries
    OBVIOUS
  <2>2. IsFiniteSet(found)
    BY <2>1, KeysAssumption, FS_Subset
  <2> QED
    BY <2>1, <2>2, KeysAssumption
<1> HIDE DEF found, w
<1>3. stage'[a] = "entries" /\ todo'[a] = locks
  BY <1>1, Went DEF Proceeds
<1>4. \A k \in DOMAIN locks : locks[k] \in Locks
  <2>1. \A k \in DOMAIN locks : \E e \in found : locks[k] = EntryLock(e)
    BY <1>2, OrderedLists DEF EntryLock
  <2> QED
    BY <1>2, <2>1, TheLocks
<1> HIDE DEF locks
<1> QED
  BY <1>1, <1>3, <1>4, AsksForLocks, PlainStageOK, ProceedsIdentity

LEMMA ApproveSelectsIdentity ==
  ASSUME AddressInv, IdentityInv, NEW a \in Actors, ApproveSelects(a)
  PROVE  IdentityInv'
<1> DEFINE locked == {e \in work[a].locked : queue[e].state = "pending" /\ queue[e].ip \in work[a].ips}
           items == locked \cap work[a].batch
           makers == {queue[e].mfr : e \in locked}
           w == [work[a] EXCEPT !.batch = items, !.locked = {}, !.ips = {}]
           locks == Ordered("manufacturer", makers)
<1>1. /\ stage[a] = "entries" /\ todo[a] = << >>
      /\ Rollback(a) \/ Proceeds(a, "makers", locks, w)
  BY DEF ApproveSelects, At
<1>2. \A e \in locked : e \in Entries /\ queue[e].state = "pending"
  BY <1>1 DEF AddressInv, WorkOK, ApprovalOK
<1>3. \A e \in locked : queue[e].mfr \in Manufacturers
  <2>1. \A e \in locked : queue[e] \in EntryType /\ queue[e].state # "absent"
    BY <1>2 DEF AddressInv, Domains
  <2> QED
    BY <2>1 DEF EntryType
<1>4. makers \subseteq Manufacturers /\ makers \subseteq Nat /\ IsFiniteSet(makers)
  <2>1. makers \subseteq Manufacturers
    BY <1>3
  <2>2. IsFiniteSet(makers)
    BY <2>1, KeysAssumption, FS_Subset
  <2> QED
    BY <2>1, <2>2, KeysAssumption
<1>5. w.batch = items
  BY IdleFields DEF AddressInv, WorkOK
<1>6. \A e \in items : queue[e].mfr \in makers
  OBVIOUS
<1>7. items \subseteq Entries
  BY <1>2
<1> HIDE DEF items, makers, w
<1>8. CASE Proceeds(a, "makers", locks, w)
  <2>1. stage'[a] = "makers" /\ todo'[a] = locks /\ work'[a] = w /\ UNCHANGED queue
    BY <1>8, Went DEF Proceeds
  <2>2. \A k \in DOMAIN locks : locks[k] \in Locks
    <3>1. \A k \in DOMAIN locks : \E m \in makers : locks[k] = MakerLock(m)
      BY <1>4, OrderedLists DEF MakerLock
    <3> QED
      BY <1>4, <3>1, TheOtherLocks
  <2>3. \A m \in makers : Promised(a, MakerLock(m))'
    <3>1. ASSUME NEW m \in makers
          PROVE  \E k \in DOMAIN todo'[a] : todo'[a][k] = MakerLock(m)
      BY <1>4, <2>1, OrderedListsAll DEF MakerLock
    <3> QED
      BY <3>1 DEF Promised, MakerLock
  <2>4. MakersOK(a)'
    <3>1. \A e \in items : Promised(a, MakerLock(queue[e].mfr))'
      BY <1>6, <2>1, <2>3 DEF Promised, MakerLock
    <3> QED
      BY <1>5, <2>1, <3>1 DEF MakersOK, Late
  <2>5. HardwareOK(a)' /\ CoverOK(a)'
    BY <2>1 DEF HardwareOK, CoverOK, Late
  <2>6. LocksOK(a)' /\ StageOK(a)'
    BY <2>1, <2>2, <2>4, <2>5, AsksForLocks, ApprovalStageOK
  <2> QED
    BY <1>8, <2>6, ProceedsIdentity
<1> QED
  BY <1>1, <1>8, RollbackIdentity

\* What an approval knows of its batch.
LEMMA BatchKnown ==
  ASSUME AddressInv, IdentityInv, NEW a \in Actors, NEW e \in work[a].batch,
         stage[a] \in {"makers", "addresses"} \cup Late, todo[a] = << >>
  PROVE  /\ e \in Entries /\ queue[e] \in EntryType /\ queue[e].state = "pending"
         /\ queue[e].mfr \in Manufacturers /\ queue[e].ip \in Addresses
         /\ queue[e].serial \in Serials /\ queue[e].api \in {p.api : p \in Payloads} \cup {Blank}
         /\ holder[MakerLock(queue[e].mfr)] = a
<1>1. e \in Entries /\ queue[e] \in EntryType /\ queue[e].state = "pending"
  BY BatchHeld DEF Late
<1>2. MakersOK(a)
  BY DEF IdentityInv, OwnOK, StageOK
<1>3. holder[MakerLock(queue[e].mfr)] = a
  BY <1>2, PromiseKept DEF MakersOK
<1> QED
  BY <1>1, <1>3 DEF EntryType

LEMMA ApproveLocksAddressesIdentity ==
  ASSUME AddressInv, IdentityInv, NEW a \in Actors, ApproveLocksAddresses(a)
  PROVE  IdentityInv'
<1> DEFINE items == work[a].batch
           ips == {queue[e].ip : e \in items}
           locks == Ordered("address", ips)
<1>1. stage[a] = "makers" /\ todo[a] = << >> /\ Proceeds(a, "addresses", locks, work[a])
  BY DEF ApproveLocksAddresses, At
<1>2. \A e \in items : queue[e].ip \in Addresses /\ holder[MakerLock(queue[e].mfr)] = a
  BY <1>1, BatchKnown
<1>3. ips \subseteq Addresses /\ ips \subseteq Nat /\ IsFiniteSet(ips)
  <2>1. ips \subseteq Addresses
    BY <1>2
  <2> QED
    BY <2>1, KeysAssumption, FS_Subset
<1> HIDE DEF ips
<1>4. /\ stage'[a] = "addresses" /\ todo'[a] = locks /\ work'[a] = work[a]
      /\ UNCHANGED <<queue, holder>>
  BY <1>1, Went DEF Proceeds
<1>5. \A k \in DOMAIN locks : locks[k] \in Locks
  <2>1. \A k \in DOMAIN locks : \E i \in ips : locks[k] = AddressLock(i)
    BY <1>3, OrderedLists DEF AddressLock
  <2> QED
    BY <1>3, <2>1, TheLocks
<1> HIDE DEF locks
<1>6. MakersOK(a)' /\ HardwareOK(a)' /\ CoverOK(a)'
  BY <1>2, <1>4 DEF MakersOK, HardwareOK, CoverOK, Late, MakerLock
<1>7. LocksOK(a)' /\ StageOK(a)'
  BY <1>4, <1>5, <1>6, AsksForLocks, ApprovalStageOK
<1> QED
  BY <1>1, <1>7, ProceedsIdentity

\* The lock statements of hardware: rows that are there, in ascending order.
LEMMA RowLocks ==
  ASSUME NEW a, NEW found, found \subseteq Hardware, todo'[a] = Ordered("row", found)
  PROVE  /\ \A k \in DOMAIN todo'[a] : todo'[a][k] \in Locks
         /\ \A h \in found : Promised(a, RowLock(h))'
<1>1. found \subseteq Nat /\ IsFiniteSet(found)
  <2>1. Hardware \subseteq Nat /\ IsFiniteSet(Hardware)
    BY KeysAssumption, FS_Union DEF Hardware
  <2> QED
    BY <2>1, FS_Subset
<1> DEFINE locks == Ordered("row", found)
<1>2. \A k \in DOMAIN locks : \E h \in found : locks[k] = RowLock(h)
  BY <1>1, OrderedLists DEF RowLock
<1>3. \A h \in found : \E k \in DOMAIN locks : locks[k] = RowLock(h)
  BY <1>1, OrderedListsAll DEF RowLock
<1> HIDE DEF locks
<1>4. todo'[a] = locks
  BY DEF locks
<1>5. \A h \in found : Promised(a, RowLock(h))'
  BY <1>3, <1>4 DEF Promised, RowLock
<1> QED
  BY <1>2, <1>4, <1>5, TheOtherLocks

LEMMA ApproveLocksChassisIdentity ==
  ASSUME AddressInv, IdentityInv, NEW a \in Actors, ApproveLocksChassis(a)
  PROVE  IdentityInv'
<1> DEFINE items == work[a].batch
           found == {c \in Chassis : Wanted(items, c)}
           w == [work[a] EXCEPT !.locked = found]
           locks == Ordered("row", found)
<1>1. stage[a] = "addresses" /\ todo[a] = << >> /\ Proceeds(a, "chassis", locks, w)
  BY DEF ApproveLocksChassis, At
<1>2. \A e \in items : holder[MakerLock(queue[e].mfr)] = a
  BY <1>1, BatchKnown
<1>3. w.locked = found /\ w.batch = items
  BY IdleFields DEF AddressInv, WorkOK
<1>4. \A h \in found : h \in Hardware /\ rows[h] # Nobody
  BY ChassisAreHardware DEF Wanted
<1>5. ASSUME NEW e \in items, NEW c \in Chassis, ~IsCharger(e), queue[e].serial # Blank,
             Bears(rows[c]), SameSerial(rows[c], queue[e])
      PROVE  c \in found
  <2>1. rows[c] # Nobody /\ SameIdentity(rows[c], queue[e])
    BY <1>5 DEF Bears, SameSerial, SameIdentity
  <2> QED
    BY <1>5, <2>1 DEF Wanted
<1> HIDE DEF found, w
<1>6. /\ stage'[a] = "chassis" /\ todo'[a] = locks /\ work'[a] = w
      /\ UNCHANGED <<rows, queue, holder>>
  BY <1>1, Went DEF Proceeds
<1>7. /\ \A k \in DOMAIN todo'[a] : todo'[a][k] \in Locks
      /\ \A h \in found : Promised(a, RowLock(h))'
  BY <1>4, <1>6, RowLocks
<1> HIDE DEF locks
<1>8. MakersOK(a)'
  BY <1>2, <1>3, <1>6 DEF MakersOK, Late, MakerLock
<1>9. HardwareOK(a)'
  BY <1>3, <1>4, <1>6, <1>7 DEF HardwareOK, Late, RowLock
<1>10. CoverOK(a)'
  BY <1>3, <1>5, <1>6 DEF CoverOK, IsCharger, Bears, SameSerial
<1>11. LocksOK(a)' /\ StageOK(a)'
  BY <1>6, <1>7, <1>8, <1>9, <1>10, AsksForLocks, ApprovalStageOK DEF Late
<1> QED
  BY <1>1, <1>11, ProceedsIdentity

LEMMA ApproveLocksChargersIdentity ==
  ASSUME AddressInv, IdentityInv, NEW a \in Actors, ApproveLocksChargers(a)
  PROVE  IdentityInv'
<1> DEFINE items == work[a].batch
           found == {g \in Chargers : Wanted(items, g)}
           w == [work[a] EXCEPT !.locked = @ \cup found]
           locks == Ordered("row", found)
<1>1. stage[a] = "chassis" /\ todo[a] = << >> /\ Proceeds(a, "chargers", locks, w)
  BY DEF ApproveLocksChargers, At
<1>2. \A e \in items : holder[MakerLock(queue[e].mfr)] = a
  BY <1>1, BatchKnown DEF Late
<1>3. w.locked = work[a].locked \cup found /\ w.batch = items
  BY IdleFields DEF AddressInv, WorkOK
<1>4. \A h \in found : h \in Hardware /\ rows[h] # Nobody
  BY DEF Wanted, Hardware
<1>5. HardwareOK(a) /\ CoverOK(a)
  BY DEF IdentityInv, OwnOK, StageOK
<1>6. \A h \in work[a].locked : h \in Hardware /\ rows[h] # Nobody /\ holder[RowLock(h)] = a
  BY <1>1, <1>5, PromiseKept DEF HardwareOK, Late
<1> HIDE DEF found, w
<1>7. /\ stage'[a] = "chargers" /\ todo'[a] = locks /\ work'[a] = w
      /\ UNCHANGED <<rows, queue, holder>>
  BY <1>1, Went DEF Proceeds
<1>8. /\ \A k \in DOMAIN todo'[a] : todo'[a][k] \in Locks
      /\ \A h \in found : Promised(a, RowLock(h))'
  BY <1>4, <1>7, RowLocks
<1> HIDE DEF locks
<1>9. MakersOK(a)'
  BY <1>2, <1>3, <1>7 DEF MakersOK, Late, MakerLock
<1>10. HardwareOK(a)'
  <2>1. \A h \in work[a].locked : Promised(a, RowLock(h))'
    BY <1>6, <1>7 DEF Promised, RowLock
  <2> QED
    BY <1>3, <1>4, <1>6, <1>7, <1>8, <2>1 DEF HardwareOK, Late, RowLock
<1>11. CoverOK(a)'
  BY <1>1, <1>3, <1>5, <1>7 DEF CoverOK, IsCharger, Bears, SameSerial, Late
<1>12. LocksOK(a)' /\ StageOK(a)'
  BY <1>7, <1>8, <1>9, <1>10, <1>11, AsksForLocks, ApprovalStageOK DEF Late
<1> QED
  BY <1>1, <1>12, ProceedsIdentity

-----------------------------------------------------------------------------
(* Approval: the plan. *)

\* The hardware an approval plans with is there and locked.
LEMMA InventoryHeld ==
  ASSUME AddressInv, IdentityInv, NEW a \in Actors, stage[a] \in Late, todo[a] = << >>,
         NEW h \in Inventory(a)
  PROVE  /\ h \in work[a].locked /\ h \in Hardware /\ rows[h] # Nobody /\ rows[h] \in RowType(h)
         /\ holder[RowLock(h)] = a
<1>1. h \in work[a].locked
  BY DEF Inventory
<1>2. h \in Hardware /\ rows[h] # Nobody /\ Promised(a, RowLock(h))
  BY <1>1 DEF IdentityInv, OwnOK, StageOK, HardwareOK
<1>3. rows[h] \in RowType(h)
  BY <1>2 DEF IdentityInv, RowsTyped
<1> QED
  BY <1>1, <1>2, <1>3, PromiseKept

LEMMA IdentityTyped ==
  ASSUME NEW e, NEW L, \A h \in L : rows[h] \in RowType(h), ~IsCharger(e),
         queue[e].serial \in Serials, queue[e].api \in {p.api : p \in Payloads} \cup {Blank}
  PROVE  /\ IdentityOf(e, L)[1] = queue[e].mfr
         /\ IdentityOf(e, L)[2] \in Apis \ {Blank}
         /\ IdentityOf(e, L) = <<queue[e].mfr, IdentityOf(e, L)[2]>>
<1> DEFINE M == MatchesOf(e, L)
           c == CHOOSE d \in M : TRUE
           api == IF queue[e].api # Blank THEN queue[e].api
                  ELSE IF M # {} THEN rows[c].api ELSE SerialApi(queue[e].serial)
<1>1. IdentityOf(e, L) = <<queue[e].mfr, api>>
  BY DEF IdentityOf
<1>2. M \subseteq L \cap Chassis
  BY DEF MatchesOf
<1>3. M # {} => rows[c].api \in Apis \ {Blank}
  <2>1. M # {} => c \in L /\ c \in Chassis
    BY <1>2
  <2> HIDE DEF M, c
  <2> QED
    BY <2>1 DEF RowType
<1>4. SerialApi(queue[e].serial) \in Apis \ {Blank}
  BY BlankAssumption DEF Apis
<1>5. queue[e].api # Blank => queue[e].api \in Apis
  BY DEF Apis
<1>6. api \in Apis \ {Blank}
  BY <1>3, <1>4, <1>5
<1> HIDE DEF api
<1> QED
  BY <1>1, <1>6

LEMMA ApprovePlansIdentity ==
  ASSUME AddressInv, IdentityInv, NEW a \in Actors, ApprovePlans(a)
  PROVE  IdentityInv'
<1> DEFINE items == work[a].batch
           perms == work[a].perms
           L == Inventory(a)
           identities == {IdentityOf(e, L) : e \in {f \in items : ~IsCharger(f)}}
           locks == [k \in 1..Cardinality(identities) |-> <<"identity", SetToSeq(identities)[k]>>]
<1>1. /\ stage[a] = "chargers" /\ todo[a] = << >>
      /\ Rollback(a) \/ (Acceptable(items, perms, L) /\ Proceeds(a, "write", locks, work[a]))
  BY DEF ApprovePlans, At
<1>2. \A e \in items :
        /\ e \in Entries /\ queue[e].mfr \in Manufacturers
        /\ queue[e].serial \in Serials /\ queue[e].api \in {p.api : p \in Payloads} \cup {Blank}
        /\ holder[MakerLock(queue[e].mfr)] = a
  BY <1>1, BatchKnown DEF Late
<1>3. HardwareOK(a) /\ CoverOK(a)
  BY DEF IdentityInv, OwnOK, StageOK
<1>4. \A h \in work[a].locked : h \in Hardware /\ rows[h] # Nobody /\ holder[RowLock(h)] = a
  BY <1>1, <1>3, PromiseKept DEF HardwareOK, Late
<1>5. \A h \in L : rows[h] \in RowType(h)
  BY <1>1, InventoryHeld DEF Late
<1>6. identities \subseteq Identities
  <2>1. ASSUME NEW e \in items, ~IsCharger(e)
        PROVE  IdentityOf(e, L) \in Identities
    <3>1. IdentityOf(e, L)[2] \in Apis /\ IdentityOf(e, L) = <<queue[e].mfr, IdentityOf(e, L)[2]>>
      BY <1>2, <1>5, <2>1, IdentityTyped
    <3> QED
      BY <1>2, <3>1 DEF Identities
  <2> QED
    BY <2>1
<1>7. IsFiniteSet(identities)
  <2> DEFINE S == {f \in items : ~IsCharger(f)}
             f == [e \in S |-> IdentityOf(e, L)]
  <2>1. S \subseteq Entries
    BY <1>2
  <2>2. IsFiniteSet(S)
    BY <2>1, KeysAssumption, FS_Subset
  <2>3. IsFiniteSet({f[e] : e \in S})
    <3> HIDE DEF f, S
    <3> QED
      BY <2>2, ValuesFinite
  <2>4. {f[e] : e \in S} = identities
    OBVIOUS
  <2> QED
    BY <2>3, <2>4
<1> HIDE DEF identities
<1>8. \A k \in DOMAIN locks : locks[k] \in Locks
  <2>1. \A k \in DOMAIN locks : SetToSeq(identities)[k] \in identities
    BY <1>7, ListedOnce
  <2> QED
    BY <1>6, <2>1, TheOtherLocks
<1> HIDE DEF locks
<1>9. CASE Acceptable(items, perms, L) /\ Proceeds(a, "write", locks, work[a])
  <2>1. /\ stage'[a] = "write" /\ todo'[a] = locks /\ work'[a] = work[a]
        /\ UNCHANGED <<rows, queue, holder>>
    BY <1>9, Went DEF Proceeds
  <2>2. MakersOK(a)'
    BY <1>2, <2>1 DEF MakersOK, Late, MakerLock
  <2>3. CoverOK(a)'
    BY <1>1, <1>3, <2>1 DEF CoverOK, IsCharger, Bears, SameSerial, Late
  <2>4. Acceptable(work[a].batch, work[a].perms, Inventory(a))'
    <3>1. PICK I, s, ps : I = L /\ s = items /\ ps = perms
      OBVIOUS
    <3>2. Inventory(a)' = L
      BY <2>1, InventoryStays
    <3>3. Acceptable(s, ps, I)
      BY <1>9, <3>1
    <3>4. Acceptable(s, ps, I)'
      BY <2>1, <3>3, PlanStays
    <3>5. I = Inventory(a)' /\ s = work'[a].batch /\ ps = work'[a].perms
      BY <2>1, <3>1, <3>2
    <3> QED
      BY <3>4, <3>5
  <2>5. HardwareOK(a)'
    <3>1. \A h \in work[a].locked : Promised(a, RowLock(h))'
      BY <1>4, <2>1 DEF Promised, RowLock
    <3> QED
      BY <1>4, <2>1, <2>4, <3>1 DEF HardwareOK, Late, RowLock
  <2>6. LocksOK(a)' /\ StageOK(a)'
    BY <1>8, <2>1, <2>2, <2>3, <2>5, AsksForLocks, ApprovalStageOK DEF Late
  <2> QED
    BY <1>9, <2>6, ProceedsIdentity
<1> QED
  BY <1>1, <1>9, RollbackIdentity

-----------------------------------------------------------------------------
(* Approval: what a plan writes. *)

\* The plan for the entries items and the locked hardware L, as it is when it is carried out.
Planned(items, perms, L) ==
  /\ items \subseteq Entries
  /\ \A e \in items : queue[e] \in EntryType /\ queue[e].state # "absent"
  /\ L \subseteq Hardware
  /\ \A h \in L : rows[h] # Nobody /\ rows[h] \in RowType(h)
  /\ Acceptable(items, perms, L)
  /\ Cardinality(Leaders(items, L)) <= Cardinality(FreeKeys)

LEMMA WritePlanned ==
  ASSUME AddressInv, IdentityInv, NEW a \in Actors, ApproveWrites(a)
  PROVE  Planned(work[a].batch, work[a].perms, Inventory(a))
<1>1. stage[a] = "write" /\ todo[a] = << >>
      /\ Cardinality(Leaders(work[a].batch, Inventory(a))) <= Cardinality(FreeKeys)
  BY DEF ApproveWrites, At
<1>2. \A e \in work[a].batch : e \in Entries /\ queue[e] \in EntryType /\ queue[e].state # "absent"
  BY <1>1, BatchKnown DEF Late
<1>3. \A h \in Inventory(a) : h \in Hardware /\ rows[h] # Nobody /\ rows[h] \in RowType(h)
  BY <1>1, InventoryHeld DEF Late
<1>4. Acceptable(work[a].batch, work[a].perms, Inventory(a))
  BY <1>1 DEF IdentityInv, OwnOK, StageOK, HardwareOK
<1> QED
  BY <1>1, <1>2, <1>3, <1>4 DEF Planned

LEMMA PlannedEntry ==
  ASSUME NEW items, NEW perms, NEW L, Planned(items, perms, L), NEW e \in items
  PROVE  /\ queue[e].mfr \in Manufacturers /\ queue[e].ip \in Addresses
         /\ queue[e].serial \in Serials /\ queue[e].api \in {p.api : p \in Payloads} \cup {Blank}
         /\ queue[e].charger \in Chargers \cup {Nobody}
         /\ Resolves(e, L) /\ Permission(e, L) \in perms
<1>1. queue[e] \in EntryType /\ queue[e].state # "absent" /\ Acceptable(items, perms, L)
  BY DEF Planned
<1> QED
  BY <1>1 DEF EntryType, Acceptable

\* An entry that matches hardware matches one row, and that is its target.
LEMMA TargetsOld ==
  ASSUME NEW items, NEW perms, NEW L, Planned(items, perms, L), NEW e \in items,
         NEW h \in MatchesOf(e, L)
  PROVE  /\ MatchesOf(e, L) = {h} /\ h \in L
         /\ TargetOf(e, L) = <<"old", h>> /\ KeyOf(e, items, L) = h
         /\ IF IsCharger(e) THEN h \in Chargers /\ "charger" \in perms
                            ELSE h \in Chassis /\ Agrees(rows[h], queue[e]) /\ "change" \in perms
<1> DEFINE M == MatchesOf(e, L)
<1>1. M \subseteq L
  BY MatchesIn
<1>2. Resolves(e, L) /\ Permission(e, L) \in perms /\ queue[e].charger \in Chargers \cup {Nobody}
  BY PlannedEntry
<1>3. Cardinality(M) <= 1
  BY <1>2 DEF Resolves
<1>4. IsFiniteSet(M)
  <2>1. IsFiniteSet(Hardware)
    BY KeysAssumption, FS_Union DEF Hardware
  <2>2. M \subseteq Hardware
    BY <1>1 DEF Planned
  <2> QED
    BY <2>1, <2>2, FS_Subset
<1>5. IF IsCharger(e) THEN M \subseteq Chargers ELSE M \subseteq Chassis
  BY <1>2 DEF MatchesOf
<1>6. IF IsCharger(e) THEN Permission(e, L) = "charger"
                      ELSE Agrees(rows[h], queue[e]) /\ Permission(e, L) = "change"
  BY <1>2 DEF Resolves, Permission
<1> HIDE DEF M
<1>7. M = {h} /\ h \in L
  <2>1. h \in M
    BY DEF M
  <2>2. \A g \in M : g = h
    BY <1>3, <1>4, <2>1, AtMostOne
  <2> QED
    BY <1>1, <2>1, <2>2
<1>8. TargetOf(e, L) = <<"old", h>>
  BY <1>7 DEF TargetOf, M
<1>9. KeyOf(e, items, L) = h
  BY <1>8 DEF KeyOf
<1> QED
  BY <1>2, <1>5, <1>6, <1>7, <1>8, <1>9 DEF M

\* An entry that matches none gets a key nobody has, as do all of its identity.
LEMMA TargetsNew ==
  ASSUME NEW items, NEW perms, NEW L, Planned(items, perms, L), NEW e \in items,
         MatchesOf(e, L) = {}
  PROVE  /\ ~IsCharger(e) /\ "add" \in perms
         /\ TargetOf(e, L) = <<"new", IdentityOf(e, L)>>
         /\ KeyOf(e, items, L) \in FreeKeys
<1>1. Resolves(e, L) /\ Permission(e, L) \in perms
  BY PlannedEntry
<1>2. ~IsCharger(e) /\ "add" \in perms
  BY <1>1 DEF Resolves, Permission
<1>3. TargetOf(e, L) = <<"new", IdentityOf(e, L)>>
  BY DEF TargetOf
<1> DEFINE T == {f \in items : TargetOf(f, L) = TargetOf(e, L)}
           first == Min(T)
           before == {f \in Leaders(items, L) : f <= first}
           k == Cardinality(before)
<1>4. items \subseteq Nat /\ IsFiniteSet(items)
  BY KeysAssumption, FS_Subset DEF Planned
<1>5. first \in T /\ \A f \in T : first <= f
  <2>1. T \subseteq Nat /\ IsFiniteSet(T) /\ T # {}
    BY <1>4, FS_Subset
  <2> HIDE DEF T
  <2> QED
    BY <2>1, LeastIn
<1> HIDE DEF first
<1>6. first \in before
  <2>1. first \in items /\ TargetOf(first, L) = TargetOf(e, L) /\ first \in Nat
    BY <1>4, <1>5
  <2>2. TargetOf(first, L)[1] = "new"
    BY <1>3, <2>1
  <2>3. \A g \in items : TargetOf(g, L) = TargetOf(first, L) => first <= g
    BY <1>5, <2>1
  <2> QED
    BY <2>1, <2>2, <2>3 DEF Leaders
<1>7. /\ IsFiniteSet(Leaders(items, L)) /\ IsFiniteSet(before)
      /\ k <= Cardinality(Leaders(items, L))
  <2>1. IsFiniteSet(Leaders(items, L))
    <3>1. Leaders(items, L) \subseteq items
      BY DEF Leaders
    <3> QED
      BY <1>4, <3>1, FS_Subset
  <2>2. before \subseteq Leaders(items, L)
    OBVIOUS
  <2> QED
    BY <2>1, <2>2, FS_Subset
<1> HIDE DEF before
<1>8. FreeKeys \subseteq Nat /\ IsFiniteSet(FreeKeys)
  <2>1. FreeKeys \subseteq Chassis
    BY DEF FreeKeys
  <2> QED
    BY <2>1, KeysAssumption, FS_Subset
<1>9. k \in 1 .. Cardinality(FreeKeys)
  <2>1. k \in Nat /\ k # 0
    BY <1>6, <1>7, FS_CardinalityType, FS_EmptySet
  <2>2. Cardinality(FreeKeys) \in Nat /\ Cardinality(Leaders(items, L)) \in Nat
    BY <1>7, <1>8, FS_CardinalityType
  <2>3. Cardinality(Leaders(items, L)) <= Cardinality(FreeKeys)
    BY DEF Planned
  <2> QED
    BY <1>7, <2>1, <2>2, <2>3
<1>10. Kth(k, FreeKeys) \in FreeKeys
  BY <1>8, <1>9, KthIn
<1>11. KeyOf(e, items, L) = Kth(k, FreeKeys)
  <2>1. KeyOf(e, items, L) = NewKey(e, items, L)
    BY <1>3 DEF KeyOf
  <2> QED
    BY <2>1 DEF NewKey, before, first
<1> QED
  BY <1>2, <1>3, <1>10, <1>11

\* A written row is what an entry with that key gives.
LEMMA WrittenBy ==
  ASSUME NEW items, NEW L, NEW h \in Hardware, Adoptions(items, L)[h] # Nobody
  PROVE  \E e \in items : KeyOf(e, items, L) = h /\ Adoptions(items, L)[h] = Adopted(e, items, L)
<1> DEFINE E == {e \in items : KeyOf(e, items, L) = h}
           f == CHOOSE e \in items : KeyOf(e, items, L) = h
<1>1. Adoptions(items, L)[h] = IF \E e \in items : KeyOf(e, items, L) = h
                               THEN Adopted(f, items, L) ELSE Nobody
  BY DEF Adoptions
<1>2. \E e \in items : KeyOf(e, items, L) = h
  BY <1>1
<1>3. f \in items /\ KeyOf(f, items, L) = h
  BY <1>2
<1> QED
  BY <1>1, <1>2, <1>3

\* The serial number of a written row is the one it had, or one of an entry with its target.
LEMMA SerialSource ==
  ASSUME NEW items, NEW L, NEW e \in items, NEW old
  PROVE  LET s == SerialFor(e, items, L, old)
         IN  \/ s = old
             \/ \E f \in items : /\ TargetOf(f, L) = TargetOf(e, L)
                                 /\ queue[f].serial = s /\ s # Blank
<1> DEFINE given == {queue[f].serial : f \in {g \in items : TargetOf(g, L) = TargetOf(e, L)}} \ {Blank}
           s == SerialFor(e, items, L, old)
<1>1. s = IF given = {} THEN old ELSE CHOOSE t \in given : TRUE
  BY DEF SerialFor
<1>2. CASE given = {}
  BY <1>1, <1>2
<1>3. CASE given # {}
  <2>1. s \in given
    BY <1>1, <1>3
  <2> HIDE DEF s
  <2>2. PICK f \in items : TargetOf(f, L) = TargetOf(e, L) /\ queue[f].serial = s /\ s # Blank
    BY <2>1
  <2> QED
    BY <2>2 DEF s
<1> QED
  BY <1>2, <1>3


\* The serial number of the row r comes from an entry of the batch: its manufacturer,
\* its identity, and no match but c.
Given(c, r, items, L) ==
  \E f \in items :
    /\ ~IsCharger(f) /\ queue[f].serial = r.serial /\ queue[f].mfr = r.mfr
    /\ IdentityOf(f, L) = <<r.mfr, r.api>> /\ MatchesOf(f, L) \subseteq {c}

\* A chassis that is there is adopted by the entries that match it.
LEMMA OldChassisAdopted ==
  ASSUME NEW items, NEW perms, NEW L, Planned(items, perms, L), NEW e \in items,
         NEW c \in Chassis, KeyOf(e, items, L) = c, MatchesOf(e, L) # {}
  PROVE  LET r == Adopted(e, items, L)
         IN  /\ c \in L /\ "change" \in perms
             /\ r \in RowType(c) /\ r.mfr = queue[e].mfr
             /\ r.mfr = rows[c].mfr /\ r.origin = rows[c].origin
             /\ rows[c].serial # Blank => r.serial = rows[c].serial
             /\ rows[c].serial = Blank => r.api = rows[c].api
             /\ r.serial = rows[c].serial \/ Given(c, r, items, L)
<1> DEFINE r == Adopted(e, items, L)
           api == IdentityOf(e, L)[2]
           serial == SerialFor(e, items, L, rows[c].serial)
<1>1. PICK h \in MatchesOf(e, L) : TRUE
  OBVIOUS
<1>2. /\ h = c /\ c \in L /\ TargetOf(e, L) = <<"old", c>> /\ MatchesOf(e, L) = {c}
      /\ ~IsCharger(e) /\ Agrees(rows[c], queue[e]) /\ "change" \in perms
  BY <1>1, TargetsOld, ChassisAreHardware
<1>3. rows[c] \in RowType(c) /\ rows[c] # Nobody
  BY <1>2 DEF Planned
<1>4. r = Row(rows[c].mfr, api, serial, queue[e].ip, rows[c].retired, rows[c].origin)
  BY <1>2 DEF Adopted
<1>5. /\ queue[e].mfr \in Manufacturers /\ queue[e].ip \in Addresses
      /\ queue[e].serial \in Serials /\ queue[e].api \in {p.api : p \in Payloads} \cup {Blank}
  BY PlannedEntry
<1>6. \A g \in L : rows[g] \in RowType(g)
  BY DEF Planned
<1>7. rows[c].mfr = queue[e].mfr /\ IdentityOf(e, L) = <<rows[c].mfr, api>> /\ api \in Apis \ {Blank}
  <2>1. rows[c].mfr = queue[e].mfr
    BY <1>2 DEF Agrees
  <2> QED
    BY <1>2, <1>5, <1>6, <2>1, IdentityTyped
<1>8. \/ serial = rows[c].serial
      \/ \E f \in items : /\ TargetOf(f, L) = <<"old", c>>
                          /\ queue[f].serial = serial /\ serial # Blank
  BY <1>2, SerialSource
<1> HIDE DEF serial
<1>9. ASSUME NEW f \in items, TargetOf(f, L) = <<"old", c>>, queue[f].serial = serial,
             serial # Blank
      PROVE  /\ serial \in Serials /\ rows[c].serial \in {Blank, serial}
             /\ Given(c, r, items, L)
  <2>1. MatchesOf(f, L) # {}
    BY <1>9, TargetsNew
  <2>2. PICK g \in MatchesOf(f, L) : TRUE
    BY <2>1
  <2>3. MatchesOf(f, L) = {g} /\ TargetOf(f, L) = <<"old", g>> /\ g \in L
        /\ (IF IsCharger(f) THEN g \in Chargers ELSE Agrees(rows[g], queue[f]))
    BY TargetsOld
  <2>4. g = c /\ MatchesOf(f, L) = {c} /\ ~IsCharger(f) /\ Agrees(rows[c], queue[f])
    BY <1>9, <2>3, ChassisAreHardware
  <2>5. queue[f].mfr = rows[c].mfr /\ rows[c].serial \in {Blank, serial}
    BY <1>9, <2>4 DEF Agrees
  <2>6. IdentityOf(f, L) = <<rows[c].mfr, api>>
    <3>1. TargetOf(e, L) = TargetOf(f, L) => IdentityOf(e, L) = IdentityOf(f, L)
      BY DEF Planned, Acceptable, Consistent
    <3> QED
      BY <1>2, <1>7, <1>9, <3>1
  <2>7. r.mfr = rows[c].mfr /\ r.api = api /\ r.serial = serial
    BY <1>4 DEF Row
  <2>8. Given(c, r, items, L)
    BY <1>9, <2>4, <2>5, <2>6, <2>7 DEF Given
  <2> QED
    BY <1>9, <2>5, <2>8, PlannedEntry
<1>10. serial \in Serials /\ (rows[c].serial # Blank => serial = rows[c].serial)
       /\ (serial = rows[c].serial \/ Given(c, r, items, L))
  <2>1. rows[c].serial \in Serials
    BY <1>3 DEF RowType
  <2> QED
    BY <1>8, <1>9, <2>1
<1>11. rows[c].serial = Blank => api = rows[c].api
  <2>1. api = IF queue[e].api # Blank THEN queue[e].api ELSE rows[CHOOSE d \in {c} : TRUE].api
    BY <1>2 DEF IdentityOf
  <2>2. (CHOOSE d \in {c} : TRUE) = c
    OBVIOUS
  <2>3. rows[c].serial = Blank => queue[e].api \in {Blank, rows[c].api}
    BY <1>2 DEF Agrees
  <2> HIDE DEF api
  <2> QED
    BY <2>1, <2>2, <2>3
<1> HIDE DEF api
<1>12. r \in RowType(c)
  BY <1>3, <1>4, <1>5, <1>7, <1>10 DEF RowType, Row
<1>13. r.mfr = rows[c].mfr /\ r.origin = rows[c].origin /\ r.serial = serial /\ r.api = api
  BY <1>4 DEF Row
<1> HIDE DEF r
<1> QED
  BY <1>2, <1>7, <1>10, <1>11, <1>12, <1>13 DEF r

\* An entry that matches none makes a new chassis.
LEMMA NewChassisAdopted ==
  ASSUME NEW items, NEW perms, NEW L, Planned(items, perms, L), NEW e \in items,
         NEW c \in Chassis, KeyOf(e, items, L) = c, MatchesOf(e, L) = {}
  PROVE  LET r == Adopted(e, items, L)
         IN  /\ c \in FreeKeys /\ "add" \in perms
             /\ r \in RowType(c) /\ r.mfr = queue[e].mfr /\ r.origin = "seen"
             /\ r.serial = Blank \/ Given(c, r, items, L)
<1> DEFINE r == Adopted(e, items, L)
           api == IdentityOf(e, L)[2]
           serial == SerialFor(e, items, L, Blank)
<1>1. /\ ~IsCharger(e) /\ "add" \in perms /\ c \in FreeKeys
      /\ TargetOf(e, L) = <<"new", IdentityOf(e, L)>>
  BY TargetsNew
<1>2. /\ queue[e].mfr \in Manufacturers /\ queue[e].ip \in Addresses
      /\ queue[e].serial \in Serials /\ queue[e].api \in {p.api : p \in Payloads} \cup {Blank}
  BY PlannedEntry
<1>3. \A g \in L : rows[g] \in RowType(g)
  BY DEF Planned
<1>4. IdentityOf(e, L) = <<queue[e].mfr, api>> /\ api \in Apis \ {Blank}
  BY <1>1, <1>2, <1>3, IdentityTyped
<1>5. r = Row(queue[e].mfr, api, serial, queue[e].ip, FALSE, "seen")
  BY <1>1 DEF Adopted, NewChassis
<1>6. \/ serial = Blank
      \/ \E f \in items : /\ TargetOf(f, L) = TargetOf(e, L)
                          /\ queue[f].serial = serial /\ serial # Blank
  BY SerialSource
<1> HIDE DEF serial, api
<1>7. ASSUME NEW f \in items, TargetOf(f, L) = TargetOf(e, L), queue[f].serial = serial
      PROVE  serial \in Serials /\ Given(c, r, items, L)
  <2>1. MatchesOf(f, L) = {}
    <3>1. SUFFICES ASSUME NEW g \in MatchesOf(f, L)
                   PROVE  FALSE
      OBVIOUS
    <3>2. TargetOf(f, L) = <<"old", g>>
      BY TargetsOld
    <3> QED
      BY <1>1, <1>7, <3>2
  <2>2. ~IsCharger(f) /\ TargetOf(f, L) = <<"new", IdentityOf(f, L)>>
    BY <2>1, TargetsNew
  <2>3. IdentityOf(f, L) = <<queue[e].mfr, api>>
    BY <1>1, <1>4, <1>7, <2>2
  <2>4. IdentityOf(f, L)[1] = queue[f].mfr
    BY DEF IdentityOf
  <2>5. queue[f].mfr = queue[e].mfr
    BY <2>3, <2>4
  <2>6. r.mfr = queue[e].mfr /\ r.api = api /\ r.serial = serial
    BY <1>5 DEF Row
  <2>7. Given(c, r, items, L)
    BY <1>7, <2>1, <2>2, <2>3, <2>5, <2>6 DEF Given
  <2> QED
    BY <1>7, <2>7, PlannedEntry
<1>8. serial \in Serials /\ (serial = Blank \/ Given(c, r, items, L))
  BY <1>6, <1>7 DEF Serials
<1>9. r \in RowType(c)
  BY <1>2, <1>4, <1>5, <1>8 DEF RowType, Row
<1>10. r.mfr = queue[e].mfr /\ r.origin = "seen" /\ r.serial = serial
  BY <1>5 DEF Row
<1> HIDE DEF r
<1> QED
  BY <1>1, <1>8, <1>9, <1>10 DEF r

\* An entry of a charger keeps all of the charger but its address.
LEMMA ChargerAdopted ==
  ASSUME NEW items, NEW perms, NEW L, Planned(items, perms, L), NEW e \in items,
         NEW g \in Chargers, KeyOf(e, items, L) = g
  PROVE  LET r == Adopted(e, items, L)
         IN  g \in L /\ "charger" \in perms /\ r \in RowType(g)
<1>1. MatchesOf(e, L) # {}
  <2>1. SUFFICES ASSUME MatchesOf(e, L) = {}
                 PROVE  FALSE
    OBVIOUS
  <2>2. g \in Chassis
    BY <2>1, TargetsNew DEF FreeKeys
  <2> QED
    BY <2>2, ChassisAreHardware
<1>2. PICK h \in MatchesOf(e, L) : TRUE
  BY <1>1
<1>3. h = g /\ g \in L /\ IsCharger(e) /\ "charger" \in perms
  BY <1>2, TargetsOld, ChassisAreHardware
<1>4. rows[g] \in RowType(g)
  BY <1>3 DEF Planned
<1>5. queue[e].mfr \in Manufacturers /\ queue[e].ip \in Addresses
  BY PlannedEntry
<1>6. Adopted(e, items, L) = Row(queue[e].mfr, rows[g].api, rows[g].serial, queue[e].ip,
                                 rows[g].retired, rows[g].origin)
  BY <1>3 DEF Adopted
<1> QED
  BY <1>3, <1>4, <1>5, <1>6 DEF RowType, Row

\* What the batch writes to a chassis.
LEMMA ChassisWritten ==
  ASSUME NEW items, NEW perms, NEW L, Planned(items, perms, L), NEW c \in Chassis,
         Adoptions(items, L)[c] # Nobody
  PROVE  LET r == Adoptions(items, L)[c]
         IN  /\ r \in RowType(c)
             /\ \E e \in items : queue[e].mfr = r.mfr
             /\ IF rows[c] = Nobody
                  THEN c \in FreeKeys /\ "add" \in perms
                  ELSE /\ c \in L /\ "change" \in perms
                       /\ r.mfr = rows[c].mfr /\ r.origin = rows[c].origin
                       /\ rows[c].serial # Blank => r.serial = rows[c].serial
                       /\ rows[c].serial = Blank => r.api = rows[c].api
             /\ Bears(r) => \/ Bears(rows[c]) /\ SameSerial(r, rows[c])
                            \/ Given(c, r, items, L)
<1> DEFINE r == Adoptions(items, L)[c]
<1>1. PICK e \in items : KeyOf(e, items, L) = c /\ r = Adopted(e, items, L)
  BY WrittenBy, ChassisAreHardware
<1> HIDE DEF r
<1>2. CASE MatchesOf(e, L) # {}
  <2>1. /\ c \in L /\ "change" \in perms
        /\ r \in RowType(c) /\ r.mfr = queue[e].mfr
        /\ r.mfr = rows[c].mfr /\ r.origin = rows[c].origin
        /\ rows[c].serial # Blank => r.serial = rows[c].serial
        /\ rows[c].serial = Blank => r.api = rows[c].api
        /\ r.serial = rows[c].serial \/ Given(c, r, items, L)
    BY <1>1, <1>2, OldChassisAdopted
  <2>2. rows[c] # Nobody
    BY <2>1 DEF Planned
  <2>3. Bears(r) => (Bears(rows[c]) /\ SameSerial(r, rows[c])) \/ Given(c, r, items, L)
    BY <2>1, <2>2 DEF Bears, SameSerial
  <2> QED
    BY <2>1, <2>2, <2>3 DEF r
<1>3. CASE MatchesOf(e, L) = {}
  <2>1. /\ c \in FreeKeys /\ "add" \in perms
        /\ r \in RowType(c) /\ r.mfr = queue[e].mfr
        /\ r.serial = Blank \/ Given(c, r, items, L)
    BY <1>1, <1>3, NewChassisAdopted
  <2>2. rows[c] = Nobody
    BY <2>1 DEF FreeKeys
  <2> QED
    BY <2>1, <2>2 DEF Bears, r
<1> QED
  BY <1>2, <1>3

\* A batch gives a serial number to one chassis: one that has it would have been selected,
\* and two targets of one serial number would have one identity.
LEMMA GivenOnce ==
  ASSUME AddressInv, IdentityInv, NEW a \in Actors, ApproveWrites(a), ~Rollback(a),
         NEW c \in Chassis, NEW d \in Chassis, c # d,
         Adoptions(work[a].batch, Inventory(a))[c] # Nobody,
         Given(c, Adoptions(work[a].batch, Inventory(a))[c], work[a].batch, Inventory(a)),
         Bears(Over(Adoptions(work[a].batch, Inventory(a)), rows)[d]),
         Bears(Adoptions(work[a].batch, Inventory(a))[c])
  PROVE  ~SameSerial(Adoptions(work[a].batch, Inventory(a))[c],
                     Over(Adoptions(work[a].batch, Inventory(a)), rows)[d])
<1> DEFINE items == work[a].batch
           L == Inventory(a)
           w == Adoptions(items, L)
           R == Over(w, rows)
<1> SUFFICES ASSUME SameSerial(w[c], R[d])
             PROVE  FALSE
  OBVIOUS
<1>1. PICK f \in items :
        /\ ~IsCharger(f) /\ queue[f].serial = w[c].serial /\ queue[f].mfr = w[c].mfr
        /\ IdentityOf(f, L) = <<w[c].mfr, w[c].api>> /\ MatchesOf(f, L) \subseteq {c}
  BY DEF Given
<1>2. Planned(items, work[a].perms, L)
  BY WritePlanned
<1>3. R[c] = w[c] /\ R[d] = IF w[d] # Nobody THEN w[d] ELSE rows[d]
  BY ChassisAreHardware DEF Over
<1>4. w[c].serial # Blank
  BY DEF Bears
<1>5. CASE Bears(rows[d]) /\ SameSerial(R[d], rows[d])
  <2>1. queue[f].serial # Blank /\ SameSerial(rows[d], queue[f]) /\ rows[d] # Nobody
    BY <1>1, <1>4, <1>5 DEF SameSerial, Bears
  <2>2. stage[a] = "write"
    BY DEF ApproveWrites, At
  <2>3. d \in work[a].locked
    BY <1>1, <1>5, <2>1, <2>2 DEF IdentityInv, OwnOK, StageOK, CoverOK, Late
  <2>4. SameIdentity(rows[d], queue[f])
    BY <2>1 DEF SameIdentity, SameSerial
  <2>5. Wanted(items, d)
    BY <1>1, <2>1, <2>4 DEF Wanted
  <2>6. d \in L
    BY <2>3, <2>5 DEF Inventory
  <2>7. d \in MatchesOf(f, L)
    BY <1>1, <2>4, <2>6 DEF MatchesOf
  <2> QED
    BY <1>1, <2>7
<1>6. CASE w[d] # Nobody /\ Given(d, w[d], items, L)
  <2>1. PICK g \in items :
          /\ ~IsCharger(g) /\ queue[g].serial = w[d].serial /\ queue[g].mfr = w[d].mfr
          /\ IdentityOf(g, L) = <<w[d].mfr, w[d].api>>
    BY <1>6 DEF Given
  <2>2. queue[f].mfr = queue[g].mfr /\ queue[f].serial = queue[g].serial /\ queue[f].serial # Blank
    BY <1>1, <1>3, <1>4, <1>6, <2>1 DEF SameSerial
  <2>3. Consistent(f, g, L)
    BY <1>2 DEF Planned, Acceptable
  <2>4. IdentityOf(f, L) = IdentityOf(g, L)
    BY <1>1, <2>1, <2>2, <2>3 DEF Consistent
  <2>5. w[c].mfr = w[d].mfr /\ w[c].api = w[d].api
    BY <1>1, <2>1, <2>4
  <2>6. Duplicates(R, c, w[c])
    <3>1. R[d] = w[d] /\ R[d] # Nobody
      BY <1>3, <1>6
    <3> QED
      BY <2>5, <3>1 DEF Duplicates
  <2>7. Writable(R, c, w[c])
    <3>1. c \in {h \in Hardware : w[h] # Nobody}
      BY ChassisAreHardware
    <3> QED
      BY <3>1 DEF ApproveWrites
  <2> QED
    BY <2>6, <2>7 DEF Writable
<1>7. CASE w[d] # Nobody
  <2>1. Bears(w[d]) => \/ Bears(rows[d]) /\ SameSerial(w[d], rows[d])
                       \/ Given(d, w[d], items, L)
    BY <1>2, <1>7, ChassisWritten
  <2> QED
    BY <1>3, <1>5, <1>6, <1>7, <2>1
<1>8. CASE w[d] = Nobody
  <2>1. R[d] = rows[d]
    BY <1>3, <1>8
  <2> QED
    BY <1>5, <2>1 DEF SameSerial
<1> QED
  BY <1>7, <1>8

\* A chassis keeps its manufacturer and its serial number, and its identifier if it has no
\* serial number.
RowsKept ==
  \A c \in Chassis : rows[c] # Nobody =>
    /\ rows'[c].mfr = rows[c].mfr
    /\ rows[c].serial # Blank => rows'[c].serial = rows[c].serial
    /\ rows[c].serial = Blank => rows'[c].api = rows[c].api

\* What changes is what the reviewer may change.
Permitted(perms) ==
  /\ \A h \in Chassis : rows'[h] # rows[h] =>
       (IF rows[h] = Nobody THEN "add" ELSE "change") \in perms
  /\ \A h \in Chargers : rows'[h] # rows[h] => "charger" \in perms

LEMMA BatchWritten ==
  ASSUME AddressInv, IdentityInv, NEW a \in Actors, ApproveWrites(a), ~Rollback(a)
  PROVE  /\ RowsTyped' /\ UniqueIn(rows)' /\ RowsGuarded(a)
         /\ RowsKept /\ Permitted(work[a].perms)
<1> DEFINE items == work[a].batch
           L == Inventory(a)
           w == Adoptions(items, L)
<1>1. Planned(items, work[a].perms, L)
  BY WritePlanned
<1>2. rows' = Over(w, rows)
  BY DEF ApproveWrites, Commits
<1>3. stage[a] = "write" /\ todo[a] = << >>
  BY DEF ApproveWrites, At
<1>4. /\ \A h \in L : holder[RowLock(h)] = a
      /\ \A e \in items : holder[MakerLock(queue[e].mfr)] = a
  BY <1>3, InventoryHeld DEF Late, IdentityInv, OwnOK, StageOK, MakersOK
<1>5. \A h \in Hardware : rows'[h] = IF w[h] # Nobody THEN w[h] ELSE rows[h]
  BY <1>2 DEF Over
<1>6. \A c \in Chassis : w[c] # Nobody =>
        /\ w[c] \in RowType(c)
        /\ \E e \in items : queue[e].mfr = w[c].mfr
        /\ IF rows[c] = Nobody
             THEN c \in FreeKeys /\ "add" \in work[a].perms
             ELSE /\ c \in L /\ "change" \in work[a].perms
                  /\ w[c].mfr = rows[c].mfr /\ w[c].origin = rows[c].origin
                  /\ rows[c].serial # Blank => w[c].serial = rows[c].serial
                  /\ rows[c].serial = Blank => w[c].api = rows[c].api
        /\ Bears(w[c]) => \/ Bears(rows[c]) /\ SameSerial(w[c], rows[c])
                          \/ Given(c, w[c], items, L)
  BY <1>1, ChassisWritten
<1>7. ASSUME NEW g \in Chargers, w[g] # Nobody
      PROVE  g \in L /\ "charger" \in work[a].perms /\ w[g] \in RowType(g) /\ rows[g] # Nobody
  <2>1. g \in Hardware
    BY DEF Hardware
  <2>2. PICK e \in items : KeyOf(e, items, L) = g /\ w[g] = Adopted(e, items, L)
    BY <1>7, <2>1, WrittenBy
  <2>3. g \in L /\ "charger" \in work[a].perms /\ w[g] \in RowType(g)
    BY <1>1, <2>2, ChargerAdopted
  <2> QED
    BY <1>1, <2>3 DEF Planned
<1>8. \A c, d \in Chassis : c # d /\ w[c] # Nobody /\ Given(c, w[c], items, L)
                            /\ Bears(w[c]) /\ Bears(rows'[d]) => ~SameSerial(w[c], rows'[d])
  BY <1>2, GivenOnce
<1> HIDE DEF w
<1>9. \A c \in Chassis : Bears(rows'[c]) =>
        \/ Bears(rows[c]) /\ SameSerial(rows'[c], rows[c])
        \/ w[c] # Nobody /\ rows'[c] = w[c] /\ Given(c, w[c], items, L)
  BY <1>5, <1>6, ChassisAreHardware DEF SameSerial
<1>10. RowsTyped'
  <2>1. \A h \in Hardware : rows'[h] \in RowType(h) \cup {Nobody}
    BY <1>5, <1>6, <1>7 DEF IdentityInv, RowsTyped, Hardware
  <2> QED
    BY <2>1 DEF RowsTyped, RowType, Apis, Serials, SerialApi, IpApi
<1>11. UniqueIn(rows)'
  <2>1. SUFFICES ASSUME NEW c \in Chassis, NEW d \in Chassis, c # d,
                        Bears(rows'[c]), Bears(rows'[d]), SameSerial(rows'[c], rows'[d])
                 PROVE  FALSE
    BY DEF UniqueIn, Bears, SameSerial
  <2>2. CASE w[c] # Nobody /\ rows'[c] = w[c] /\ Given(c, w[c], items, L)
    BY <1>8, <2>1, <2>2
  <2>3. CASE w[d] # Nobody /\ rows'[d] = w[d] /\ Given(d, w[d], items, L)
    BY <1>8, <2>1, <2>3 DEF SameSerial
  <2>4. CASE Bears(rows[c]) /\ SameSerial(rows'[c], rows[c])
             /\ Bears(rows[d]) /\ SameSerial(rows'[d], rows[d])
    BY <2>1, <2>4 DEF IdentityInv, UniqueIn, SameSerial
  <2> QED
    BY <1>9, <2>1, <2>2, <2>3, <2>4
<1>12. \A h \in Hardware : rows'[h] # rows[h] =>
         /\ rows'[h] # Nobody
         /\ IF rows[h] = Nobody THEN \A b \in Actors \ {a} : draft[b][h] = Nobody
                                ELSE holder[RowLock(h)] = a
  BY <1>4, <1>5, <1>6, <1>7 DEF Hardware, FreeKeys
<1>13. RowsKept
  BY <1>5, <1>6, ChassisAreHardware DEF RowsKept
<1>14. \A c \in Chassis : Bears(rows'[c]) =>
         \/ Bears(rows[c]) /\ SameSerial(rows'[c], rows[c])
         \/ holder[MakerLock(rows'[c].mfr)] = a
  BY <1>4, <1>6, <1>9
<1>15. RowsGuarded(a)
  BY <1>12, <1>13, <1>14 DEF RowsGuarded, RowsKept
<1>16. Permitted(work[a].perms)
  <2>1. \A h \in Chassis : rows'[h] # rows[h] =>
          (IF rows[h] = Nobody THEN "add" ELSE "change") \in work[a].perms
    BY <1>5, <1>6, ChassisAreHardware
  <2>2. \A h \in Chargers : rows'[h] # rows[h] => "charger" \in work[a].perms
    BY <1>5, <1>7 DEF Hardware
  <2> QED
    BY <2>1, <2>2 DEF Permitted
<1> QED
  BY <1>10, <1>11, <1>13, <1>15, <1>16

LEMMA ApproveWritesIdentity ==
  ASSUME AddressInv, IdentityInv, NEW a \in Actors, ApproveWrites(a)
  PROVE  IdentityInv' /\ RowsKept /\ Permitted(work[a].perms)
<1>1. CASE Rollback(a)
  <2>1. rows' = rows
    BY <1>1 DEF Rollback
  <2> QED
    BY <1>1, <2>1, RollbackIdentity DEF RowsKept, Permitted
<1>2. CASE ~Rollback(a)
  <2>1. Ended(a)
    BY <1>2 DEF ApproveWrites, Commits
  <2>2. EntriesGuarded(a)
    BY <1>2, BatchImported
  <2> QED
    BY <1>2, <2>1, <2>2, BatchWritten, EndIdentity
<1> QED
  BY <1>1, <1>2
-----------------------------------------------------------------------------
(* Synchronization. *)

LEMMA SyncBeginsIdentity ==
  ASSUME AddressInv, IdentityInv, NEW a \in Actors, SyncBegins(a)
  PROVE  IdentityInv'
<1>1. PICK inv \in Inventories :
        Proceeds(a, "index", << <<"manufacturer", Min(Manufacturers)>>,
                                <<"manufacturer", inv[1].mfr>> >>,
                 [Idle EXCEPT !.task = "sync", !.inventory = inv])
  BY DEF SyncBegins
<1> DEFINE locks == << <<"manufacturer", Min(Manufacturers)>>, <<"manufacturer", inv[1].mfr>> >>
           w == [Idle EXCEPT !.task = "sync", !.inventory = inv]
<1>2. inv \in Seq(Payloads) /\ inv # << >>
      /\ \A k \in DOMAIN inv : inv[k].api # Blank /\ inv[k].mfr = inv[1].mfr
  BY PayloadsAssumption
<1>3. /\ \A k \in DOMAIN inv : inv[k] \in Payloads
      /\ inv[1].mfr \in Manufacturers
  <2>1. \A k \in DOMAIN inv : inv[k] \in Payloads
    BY <1>2
  <2>2. 1 \in DOMAIN inv
    BY <1>2
  <2> QED
    BY <2>1, <2>2, PayloadsAssumption
<1>4. Min(Manufacturers) \in Manufacturers
  BY <1>3, KeysAssumption, LeastIn
<1>5. w.inventory = inv
  BY IdleFields
<1>6. \A k \in DOMAIN locks : locks[k] \in Locks
  <2>1. DOMAIN locks = 1 .. 2
    OBVIOUS
  <2>2. locks[1] = MakerLock(Min(Manufacturers)) /\ locks[2] = MakerLock(inv[1].mfr)
    BY DEF MakerLock
  <2>3. MakerLock(Min(Manufacturers)) \in Locks /\ MakerLock(inv[1].mfr) \in Locks
    BY <1>3, <1>4, TheOtherLocks
  <2> HIDE DEF locks
  <2> QED
    BY <2>1, <2>2, <2>3
<1>7. 2 \in DOMAIN locks /\ locks[2] = MakerLock(inv[1].mfr)
  BY DEF MakerLock
<1> HIDE DEF locks, w
<1>8. Proceeds(a, "index", locks, w)
  BY <1>1 DEF locks, w
<1>9. stage'[a] = "index" /\ todo'[a] = locks /\ work'[a] = w
  BY <1>8, Went DEF Proceeds
<1>10. ReportedOK(a)'
  <2>1. \A p \in Reported(a)' : \E k \in DOMAIN inv : p = inv[k]
    BY <1>5, <1>9 DEF Reported
  <2>2. Promised(a, MakerLock(inv[1].mfr))'
    BY <1>7, <1>9 DEF Promised, MakerLock
  <2>3. \A p \in Reported(a)' : /\ p \in Payloads /\ p.api # Blank
                                /\ p.mfr = inv[1].mfr
    BY <1>2, <1>3, <2>1
  <2>4. \A p \in Reported(a)' : Promised(a, MakerLock(p.mfr))'
    BY <2>2, <2>3 DEF Promised, MakerLock
  <2> QED
    BY <1>9, <2>3, <2>4 DEF ReportedOK
<1>11. IndexOK(a)' /\ VerdictOK(a)'
  BY <1>9 DEF IndexOK, VerdictOK
<1>12. LocksOK(a)' /\ StageOK(a)'
  BY <1>6, <1>9, <1>10, <1>11, AsksForLocks, SyncStageOK
<1> QED
  BY <1>8, <1>12, ProceedsIdentity

\* What is reported once more is still reported under the lock of its manufacturer.
LEMMA ReportedGoesOn ==
  ASSUME IdentityInv, NEW a \in Actors, stage[a] \in {"index", "payload", "store"},
         stage'[a] \in {"payload", "store"}, todo[a] = << >>, UNCHANGED holder,
         Reported(a)' \subseteq Reported(a)
  PROVE  /\ ReportedOK(a)'
         /\ \A p \in Reported(a) : /\ p \in Payloads /\ p.api # Blank
                                   /\ holder[MakerLock(p.mfr)] = a
<1>1. ReportedOK(a)
  BY DEF IdentityInv, OwnOK, StageOK
<1>2. \A p \in Reported(a) : p \in Payloads /\ p.api # Blank /\ Promised(a, MakerLock(p.mfr))
  BY <1>1 DEF ReportedOK
<1>3. \A p \in Reported(a) : holder[MakerLock(p.mfr)] = a
  BY <1>2, PromiseKept
<1> QED
  BY <1>2, <1>3 DEF ReportedOK, Promised, MakerLock

LEMMA SyncIndexesIdentity ==
  ASSUME AddressInv, IdentityInv, NEW a \in Actors, SyncIndexes(a)
  PROVE  IdentityInv'
<1> DEFINE index == [h \in Hardware |-> IF h \in Chassis THEN rows[h] ELSE Nobody]
           w == [work[a] EXCEPT !.index = index]
<1>1. stage[a] = "index" /\ todo[a] = << >> /\ Proceeds(a, "payload", << >>, w)
  BY DEF SyncIndexes, At
<1>2. w.index = index /\ w.inventory = work[a].inventory
  BY IdleFields DEF AddressInv, WorkOK
<1> HIDE DEF w
<1>3. /\ stage'[a] = "payload" /\ todo'[a] = << >> /\ work'[a] = w
      /\ UNCHANGED <<rows, draft, holder>>
  BY <1>1, Went DEF Proceeds
<1>4. Reported(a)' \subseteq Reported(a)
  BY <1>2, <1>3 DEF Reported
<1>5. ReportedOK(a)'
  BY <1>1, <1>3, <1>4, ReportedGoesOn
<1>6. \A c \in Chassis : Sees(a)'[c] = rows[c] /\ index[c] = rows[c]
  <2>1. \A h \in Hardware : draft[a][h] = Nobody
    BY <1>1 DEF AddressInv, DraftOK
  <2> QED
    BY <1>3, <2>1, ChassisAreHardware DEF Sees, Over
<1>7. DOMAIN index = Hardware /\ \A h \in Hardware : index[h] \in RowType(h) \cup {Nobody}
  BY DEF IdentityInv, RowsTyped
<1> HIDE DEF index
<1>8. IndexOK(a)'
  <2>1. \A h \in Hardware : index[h] \in (RowType(h) \cup {Nobody})'
    BY <1>7 DEF RowType, Apis, Serials, SerialApi, IpApi
  <2> QED
    BY <1>2, <1>3, <1>6, <1>7, <2>1 DEF IndexOK, Bears
<1>9. VerdictOK(a)'
  BY <1>3 DEF VerdictOK
<1>10. LocksOK(a)' /\ StageOK(a)'
  BY <1>3, <1>5, <1>8, <1>9, NoLocks, SyncStageOK
<1> QED
  BY <1>1, <1>10, ProceedsIdentity

\* The index of a step that writes nothing.
LEMMA IndexGoesOn ==
  ASSUME IdentityInv, NEW a \in Actors, stage[a] \in {"payload", "store"},
         work'[a].index = work[a].index, UNCHANGED <<rows, draft>>,
         Reported(a)' \subseteq Reported(a)
  PROVE  IndexOK(a)'
<1>1. IndexOK(a)
  BY DEF IdentityInv, OwnOK, StageOK
<1>2. \A c \in Chassis : Sees(a)'[c] = Sees(a)[c]
  BY DEF Sees, Over
<1> QED
  BY <1>1, <1>2 DEF IndexOK, Bears, RowType, Apis, Serials, SerialApi, IpApi

\* What a verdict says of the chassis in seen.
LEMMA VerdictSays ==
  ASSUME NEW p, NEW seen
  PROVE  LET v == CheckDevice(p, seen)
         IN  /\ v.kind = "new" /\ p.serial # Blank =>
                  \A d \in Chassis : seen[d] # Nobody => seen[d].serial # p.serial
             /\ v.kind \in {"conflict", "duplicate", "moved"} =>
                  v.chassis \in Chassis /\ seen[v.chassis] # Nobody
             /\ v.kind \in {"new", "error"} => v.chassis = Nobody
             /\ v.kind \in {"new", "error", "conflict", "duplicate", "moved"}
<1> DEFINE known == {c \in Chassis : seen[c] # Nobody}
           bySerial == {c \in known : p.serial # Blank /\ seen[c].serial = p.serial}
           byIp == {c \in known : seen[c].ip = p.ip}
           byApi == {c \in known : seen[c].mfr = p.mfr /\ seen[c].api = p.api}
           found == IF bySerial # {} THEN bySerial ELSE IF byIp # {} THEN byIp ELSE byApi
           c == CHOOSE d \in found : TRUE
           v == CheckDevice(p, seen)
<1>1. \/ found = {} /\ v = Verdict("new", Nobody)
      \/ found # {} /\ \E kind \in {"error"} : v = Verdict(kind, Nobody)
      \/ found # {} /\ \E kind \in {"conflict", "duplicate", "moved"} : v = Verdict(kind, c)
  BY DEF CheckDevice
<1>2. found # {} => c \in Chassis /\ seen[c] # Nobody
  OBVIOUS
<1>3. found = {} => bySerial = {}
  OBVIOUS
<1>4. bySerial = {} /\ p.serial # Blank =>
        \A d \in Chassis : seen[d] # Nobody => seen[d].serial # p.serial
  OBVIOUS
<1> HIDE DEF found, c, v, bySerial
<1>5. \A kind, d : Verdict(kind, d).kind = kind /\ Verdict(kind, d).chassis = d
  BY DEF Verdict
<1>6. v.kind = "new" => found = {}
  BY <1>1, <1>5
<1>7. /\ v.kind \in {"conflict", "duplicate", "moved"} => v.chassis = c /\ found # {}
      /\ v.kind \in {"new", "error"} => v.chassis = Nobody
      /\ v.kind \in {"new", "error", "conflict", "duplicate", "moved"}
  BY <1>1, <1>5
<1> QED
  BY <1>2, <1>3, <1>4, <1>6, <1>7 DEF v

LEMMA SyncDecidesIdentity ==
  ASSUME AddressInv, IdentityInv, NEW a \in Actors, SyncDecides(a)
  PROVE  IdentityInv'
<1> DEFINE inv == work[a].inventory
           index == work[a].index
           p == Head(inv)
           v == CheckDevice(p, index)
           c == v.chassis
           foreign == c # Nobody /\ index[c].mfr # p.mfr
           skip == [work[a] EXCEPT !.inventory = Tail(@)]
           next == [work[a] EXCEPT !.inventory = Tail(@), !.payload = p, !.target = c,
                                   !.verdict = v.kind]
           known == << <<"address", index[c].ip>>, <<"row", c>> >>
           moved == << <<"address", p.ip>>, <<"row", c>> >>
           new == << <<"address", p.ip>>, <<"identity", <<p.mfr, p.api>> >> >>
<1>1. stage[a] = "payload" /\ todo[a] = << >> /\ inv # << >>
  BY DEF SyncDecides, At
<1>2. DOMAIN work[a] = DOMAIN Idle /\ inv \in Seq(Payloads)
  BY <1>1 DEF AddressInv, WorkOK, SyncOK
<1>3. /\ Tail(inv) \in Seq(Payloads)
      /\ \A k \in DOMAIN Tail(inv) : \E n \in DOMAIN inv : Tail(inv)[k] = inv[n]
      /\ \E n \in DOMAIN inv : p = inv[n]
  <2>1. /\ Tail(inv) \in Seq(Payloads) /\ Len(Tail(inv)) = Len(inv) - 1 /\ Len(inv) \in Nat \ {0}
        /\ \A n \in 1 .. Len(inv) - 1 : Tail(inv)[n] = inv[n + 1]
        /\ p = inv[1]
    BY <1>1, <1>2
  <2>2. DOMAIN inv = 1 .. Len(inv) /\ DOMAIN Tail(inv) = 1 .. Len(inv) - 1
    BY <1>2, <2>1
  <2>3. ASSUME NEW k \in DOMAIN Tail(inv)
        PROVE  k + 1 \in DOMAIN inv /\ Tail(inv)[k] = inv[k + 1]
    BY <2>1, <2>2
  <2>4. 1 \in DOMAIN inv
    BY <2>1, <2>2
  <2> QED
    BY <2>1, <2>3, <2>4
<1>4. p \in Reported(a)
  BY <1>3 DEF Reported
<1>5. p \in Payloads /\ p.api # Blank /\ p.ip \in Addresses /\ p.mfr \in Manufacturers
  <2>1. ReportedOK(a)
    BY DEF IdentityInv, OwnOK, StageOK
  <2> QED
    BY <1>1, <1>4, <2>1, PayloadsAssumption DEF ReportedOK
<1>6. IndexOK(a)
  BY DEF IdentityInv, OwnOK, StageOK
<1>7. /\ v.kind = "new" /\ p.serial # Blank =>
           \A d \in Chassis : index[d] # Nobody => index[d].serial # p.serial
      /\ v.kind \in {"conflict", "duplicate", "moved"} => c \in Chassis /\ index[c] # Nobody
      /\ v.kind \in {"new", "error"} => c = Nobody
  BY VerdictSays
<1>8. \/ Rollback(a)
      \/ Proceeds(a, "payload", << >>, skip)
      \/ v.kind = "duplicate" /\ ~foreign /\ Proceeds(a, "store", known, next)
      \/ v.kind = "moved" /\ ~foreign /\ Proceeds(a, "store", moved, next)
      \/ v.kind = "new" /\ Proceeds(a, "store", new, next)
  <2>1. v.kind \in {"new", "error", "conflict", "duplicate", "moved"}
    BY VerdictSays
  <2>2. SyncDecides(a) => CASE v.kind = "error" -> Rollback(a)
           [] v.kind = "conflict" \/ foreign -> Proceeds(a, "payload", << >>, skip)
           [] v.kind = "duplicate" /\ ~foreign -> Proceeds(a, "store", known, next)
           [] v.kind = "moved" /\ ~foreign -> Proceeds(a, "store", moved, next)
           [] v.kind = "new" -> Proceeds(a, "store", new, next)
    BY DEF SyncDecides
  <2> HIDE DEF v, c, foreign, skip, next, known, moved, new
  <2> QED
    BY <2>1, <2>2
<1>9. /\ skip.inventory = Tail(inv) /\ skip.index = index
      /\ next.inventory = Tail(inv) /\ next.index = index /\ next.payload = p
      /\ next.target = c /\ next.verdict = v.kind
  BY <1>2, IdleFields
<1>10. ASSUME NEW k \in {"duplicate", "moved"}, v.kind = k, ~foreign
       PROVE  /\ c \in Chassis /\ index[c] # Nobody /\ index[c].mfr = p.mfr
              /\ index[c].ip \in Addresses
  <2>1. c \in Chassis /\ index[c] # Nobody
    BY <1>7, <1>10
  <2>2. c # Nobody /\ index[c] \in RowType(c)
    BY <1>1, <1>6, <2>1, ChassisAreHardware, NobodyAssumption DEF IndexOK
  <2> QED
    BY <1>10, <2>1, <2>2 DEF RowType
<1> HIDE DEF v, c, skip, next, p
<1>11. ASSUME Proceeds(a, "payload", << >>, skip)
       PROVE  IdentityInv'
  <2>1. /\ stage'[a] = "payload" /\ todo'[a] = << >> /\ work'[a] = skip
        /\ UNCHANGED <<rows, draft, holder>>
    BY <1>11, Went DEF Proceeds
  <2>2. Reported(a)' \subseteq Reported(a)
    <3>1. work'[a].inventory = Tail(inv)
      BY <1>9, <2>1
    <3>2. Reported(a)' = {Tail(inv)[k] : k \in DOMAIN Tail(inv)}
      BY <2>1, <3>1 DEF Reported
    <3>3. {inv[k] : k \in DOMAIN inv} \subseteq Reported(a)
      BY DEF Reported
    <3> QED
      BY <1>3, <3>2, <3>3
  <2>3. ReportedOK(a)' /\ IndexOK(a)'
    BY <1>1, <1>9, <2>1, <2>2, ReportedGoesOn, IndexGoesOn
  <2>4. VerdictOK(a)'
    BY <2>1 DEF VerdictOK
  <2>5. LocksOK(a)' /\ StageOK(a)'
    BY <2>1, <2>3, <2>4, NoLocks, SyncStageOK
  <2> QED
    BY <1>11, <2>5, ProceedsIdentity
<1>12. ASSUME NEW locks, Proceeds(a, "store", locks, next),
              v.kind \in {"new", "duplicate", "moved"},
              \A k \in DOMAIN locks : locks[k] \in Locks,
              v.kind # "new" => /\ index[c] # Nobody /\ index[c].mfr = p.mfr
                                /\ \E k \in DOMAIN locks : locks[k] = RowLock(c)
       PROVE  IdentityInv'
  <2>1. /\ stage'[a] = "store" /\ todo'[a] = locks /\ work'[a] = next
        /\ UNCHANGED <<rows, draft, holder>>
    BY <1>12, Went DEF Proceeds
  <2>2. Reported(a)' \subseteq Reported(a)
    <3>1. work'[a].inventory = Tail(inv) /\ work'[a].payload = p
      BY <1>9, <2>1
    <3>2. Reported(a)' = {Tail(inv)[k] : k \in DOMAIN Tail(inv)} \cup {p}
      BY <2>1, <3>1 DEF Reported
    <3>3. {inv[k] : k \in DOMAIN inv} \subseteq Reported(a)
      BY DEF Reported
    <3> QED
      BY <1>3, <1>4, <3>2, <3>3
  <2>3. ReportedOK(a)' /\ IndexOK(a)'
    BY <1>1, <1>9, <2>1, <2>2, ReportedGoesOn, IndexGoesOn
  <2>4. VerdictOK(a)'
    BY <1>7, <1>9, <1>12, <2>1 DEF VerdictOK, Promised, RowLock
  <2>5. LocksOK(a)' /\ StageOK(a)'
    BY <1>12, <2>1, <2>3, <2>4, AsksForLocks, SyncStageOK
  <2> QED
    BY <1>12, <2>5, ProceedsIdentity
<1>13. \A i \in Addresses, d \in Chassis :
         LET locks == << <<"address", i>>, <<"row", d>> >>
         IN  /\ \A k \in DOMAIN locks : locks[k] \in Locks
             /\ \E k \in DOMAIN locks : locks[k] = RowLock(d)
  <2>1. TAKE i \in Addresses, d \in Chassis
  <2> DEFINE locks == << <<"address", i>>, <<"row", d>> >>
  <2>2. DOMAIN locks = 1 .. 2 /\ locks[1] = AddressLock(i) /\ locks[2] = RowLock(d)
    BY DEF AddressLock, RowLock
  <2>3. AddressLock(i) \in Locks /\ RowLock(d) \in Locks
    BY TheLocks, TheOtherLocks, ChassisAreHardware
  <2> HIDE DEF locks
  <2>4. /\ \A k \in DOMAIN locks : locks[k] \in Locks
        /\ \E k \in DOMAIN locks : locks[k] = RowLock(d)
    BY <2>2, <2>3
  <2> QED
    BY <2>4 DEF locks
<1>14. CASE v.kind = "duplicate" /\ ~foreign /\ Proceeds(a, "store", known, next)
  <2>1. c \in Chassis /\ index[c] # Nobody /\ index[c].mfr = p.mfr /\ index[c].ip \in Addresses
    BY <1>10, <1>14
  <2>2. /\ \A k \in DOMAIN known : known[k] \in Locks
        /\ \E k \in DOMAIN known : known[k] = RowLock(c)
    BY <1>13, <2>1
  <2> HIDE DEF known
  <2> QED
    BY <1>12, <1>14, <2>1, <2>2
<1>15. CASE v.kind = "moved" /\ ~foreign /\ Proceeds(a, "store", moved, next)
  <2>1. c \in Chassis /\ index[c] # Nobody /\ index[c].mfr = p.mfr
    BY <1>10, <1>15
  <2>2. /\ \A k \in DOMAIN moved : moved[k] \in Locks
        /\ \E k \in DOMAIN moved : moved[k] = RowLock(c)
    BY <1>5, <1>13, <2>1
  <2> HIDE DEF moved
  <2> QED
    BY <1>12, <1>15, <2>1, <2>2
<1>16. CASE v.kind = "new" /\ Proceeds(a, "store", new, next)
  <2>1. DOMAIN new = 1 .. 2 /\ new[1] = AddressLock(p.ip) /\ new[2] = <<"identity", <<p.mfr, p.api>> >>
    BY DEF AddressLock
  <2>2. <<p.mfr, p.api>> \in Identities
    BY <1>5 DEF Identities, Apis
  <2>3. AddressLock(p.ip) \in Locks /\ <<"identity", <<p.mfr, p.api>> >> \in Locks
    BY <1>5, <2>2, TheLocks, TheOtherLocks
  <2> HIDE DEF new
  <2>4. \A k \in DOMAIN new : new[k] \in Locks
    BY <2>1, <2>3
  <2> QED
    BY <1>12, <1>16, <2>4
<1> QED
  BY <1>8, <1>11, <1>14, <1>15, <1>16, RollbackIdentity

\* What a transaction sees after it has drafted r.
LEMMA SeesDrafted ==
  ASSUME AddressInv, NEW a \in Actors, NEW c \in Chassis, NEW r, r # Nobody,
         draft' = [draft EXCEPT ![a][c] = r], UNCHANGED rows
  PROVE  /\ \A h \in Hardware : draft'[a][h] = IF h = c THEN r ELSE draft[a][h]
         /\ \A h \in Hardware : Sees(a)'[h] = IF h = c THEN r ELSE Sees(a)[h]
<1>1. DOMAIN draft[a] = Hardware /\ draft = [b \in Actors |-> draft[b]] /\ c \in Hardware
  BY ChassisAreHardware DEF AddressInv, Domains, DraftOK
<1>2. draft'[a] = [draft[a] EXCEPT ![c] = r]
  BY <1>1
<1>3. \A h \in Hardware : draft'[a][h] = IF h = c THEN r ELSE draft[a][h]
  BY <1>1, <1>2
<1>4. \A h \in Hardware : Sees(a)'[h] = IF draft'[a][h] # Nobody THEN draft'[a][h] ELSE rows[h]
  BY DEF Sees, Over
<1> QED
  BY <1>3, <1>4, SeesAt

\* A row that is drafted under the lock of its manufacturer, with no serial number that
\* another chassis has.
LEMMA DraftingOK ==
  ASSUME AddressInv, IdentityInv, NEW a \in Actors, NEW c \in Chassis, NEW r,
         draft' = [draft EXCEPT ![a][c] = r], UNCHANGED <<rows, holder>>,
         r \in RowType(c), holder[MakerLock(r.mfr)] = a,
         rows[c] # Nobody =>
           /\ holder[RowLock(c)] = a /\ SameSerial(r, rows[c])
           /\ r.api = rows[c].api /\ r.origin = rows[c].origin,
         \A d \in Chassis \ {c} : Bears(r) /\ Bears(Sees(a)[d]) => ~SameSerial(r, Sees(a)[d]),
         \A b \in Actors \ {a} : draft[b][c] = Nobody
  PROVE  DraftedOK(a)' /\ DraftsApart'
<1>1. c \in Hardware /\ r # Nobody
  BY ChassisAreHardware, NoRowAssumption
<1>2. /\ \A h \in Hardware : draft'[a][h] = IF h = c THEN r ELSE draft[a][h]
      /\ \A h \in Hardware : Sees(a)'[h] = IF h = c THEN r ELSE Sees(a)[h]
  BY <1>1, SeesDrafted
<1>3. DraftedOK(a)
  BY DEF IdentityInv, OwnOK
<1>4. UniqueIn(Sees(a))'
  <2>1. SUFFICES ASSUME NEW d \in Chassis, NEW e \in Chassis, d # e,
                        Bears(Sees(a)'[d]), Bears(Sees(a)'[e]), SameSerial(Sees(a)'[d], Sees(a)'[e])
                 PROVE  FALSE
    BY DEF UniqueIn, Bears, SameSerial
  <2>2. /\ Sees(a)'[d] = IF d = c THEN r ELSE Sees(a)[d]
        /\ Sees(a)'[e] = IF e = c THEN r ELSE Sees(a)[e]
    BY <1>2, ChassisAreHardware
  <2>3. CASE d = c
    BY <2>1, <2>2, <2>3
  <2>4. CASE e = c
    BY <2>1, <2>2, <2>4 DEF SameSerial
  <2>5. CASE d # c /\ e # c
    BY <1>3, <2>1, <2>2, <2>5 DEF DraftedOK, UniqueIn
  <2> QED
    BY <2>3, <2>4, <2>5
<1>5. ASSUME NEW h \in Hardware, draft'[a][h] # Nobody
      PROVE  /\ draft'[a][h] \in RowType(h)
             /\ holder[MakerLock(draft'[a][h].mfr)] = a
             /\ rows[h] # Nobody =>
                  /\ holder[RowLock(h)] = a
                  /\ SameSerial(draft'[a][h], rows[h])
                  /\ draft'[a][h].api = rows[h].api /\ draft'[a][h].origin = rows[h].origin
  <2>1. CASE h = c
    BY <1>2, <2>1
  <2>2. CASE h # c
    BY <1>2, <1>3, <1>5, <2>2 DEF DraftedOK
  <2> QED
    BY <2>1, <2>2
<1>6. DraftedOK(a)'
  BY <1>4, <1>5 DEF DraftedOK, MakerLock, RowLock, SameSerial, RowType, Apis, Serials, SerialApi, IpApi
<1>7. DraftsApart'
  <2>1. DOMAIN draft[a] = Hardware /\ draft = [b \in Actors |-> draft[b]]
    BY DEF AddressInv, Domains, DraftOK
  <2> DEFINE d == [draft[a] EXCEPT ![c] = r]
  <2>2. draft' = [draft EXCEPT ![a] = d] /\ \A h \in Hardware : d[h] = IF h = c THEN r ELSE draft[a][h]
    BY <2>1
  <2> HIDE DEF d
  <2>3. \A h \in Hardware : d[h] # Nobody => \A b \in Actors \ {a} : draft[b][h] = Nobody
    BY <2>2 DEF IdentityInv, DraftsApart
  <2>4. \A b \in Actors : draft'[b] = IF b = a THEN d ELSE draft[b]
    BY <2>1, <2>2
  <2> QED
    BY <2>3, <2>4 DEF IdentityInv, DraftsApart
<1> QED
  BY <1>6, <1>7

\* What the index becomes when the payload of the chassis c is stored as r.
LEMMA IndexRecords ==
  ASSUME AddressInv, IdentityInv, NEW a \in Actors, stage[a] = "store", NEW c \in Chassis,
         NEW x, x \in RowType(c), work'[a].index = [work[a].index EXCEPT ![c] = x],
         Reported(a)' \subseteq Reported(a),
         \A d \in Chassis \ {c} : Sees(a)'[d] = Sees(a)[d],
         Sees(a)'[c] # Nobody, Sees(a)'[c].mfr = x.mfr,
         Bears(Sees(a)'[c]) => Sees(a)'[c].serial = x.serial
  PROVE  IndexOK(a)'
<1>1. IndexOK(a)
  BY DEF IdentityInv, OwnOK, StageOK
<1>2. c \in Hardware /\ x # Nobody
  BY ChassisAreHardware, NoRowAssumption
<1>3. /\ DOMAIN work'[a].index = Hardware
      /\ \A h \in Hardware : work'[a].index[h] = IF h = c THEN x ELSE work[a].index[h]
  BY <1>1, <1>2 DEF IndexOK
<1>4. \A h \in Hardware : work'[a].index[h] \in RowType(h) \cup {Nobody}
  BY <1>1, <1>3 DEF IndexOK
<1>5. ASSUME NEW d \in Chassis, work'[a].index[d] # Nobody
      PROVE  Sees(a)'[d] # Nobody /\ Sees(a)'[d].mfr = work'[a].index[d].mfr
  BY <1>1, <1>3, <1>5, ChassisAreHardware DEF IndexOK
<1>6. ASSUME NEW p \in Reported(a)', NEW d \in Chassis, Bears(Sees(a)'[d]), Sees(a)'[d].mfr = p.mfr
      PROVE  work'[a].index[d] # Nobody /\ work'[a].index[d].serial = Sees(a)'[d].serial
  BY <1>1, <1>2, <1>3, <1>6, ChassisAreHardware DEF IndexOK
<1> QED
  BY <1>3, <1>4, <1>5, <1>6 DEF IndexOK, Bears, RowType, Apis, Serials, SerialApi, IpApi

LEMMA ReaddressedRow ==
  ASSUME NEW h, NEW r \in RowType(h), NEW i \in Addresses
  PROVE  /\ Readdressed(r, i) \in RowType(h) /\ SameSerial(Readdressed(r, i), r)
         /\ Readdressed(r, i).api = r.api /\ Readdressed(r, i).origin = r.origin
         /\ Readdressed(r, i).ip = i
  BY DEF Readdressed, Row, RowType, SameSerial

LEMMA SyncStoresIdentity ==
  ASSUME AddressInv, IdentityInv, NEW a \in Actors, SyncStores(a)
  PROVE  IdentityInv'
<1> DEFINE p == work[a].payload
           v == work[a].verdict
           index == work[a].index
           c == IF v = "new" THEN NextKey ELSE work[a].target
           r == CASE v = "new" -> NewChassis(p.mfr, p.api, p.serial, p.ip, "seen")
                  [] v = "moved" -> Readdressed(Sees(a)[c], p.ip)
                  [] v = "duplicate" -> index[c]
           x == IF v = "new" THEN r ELSE Readdressed(index[c], r.ip)
           known == [index EXCEPT ![c] = x]
           w == [work[a] EXCEPT !.index = known, !.payload = NoPayload, !.target = Nobody,
                                !.verdict = "none"]
<1>1. stage[a] = "store" /\ todo[a] = << >> /\ (v = "new" => FreeKeys # {})
  BY DEF SyncStores, At
<1>2. DOMAIN work[a] = DOMAIN Idle /\ v \in {"new", "moved", "duplicate"}
      /\ (v # "new" => work[a].target \in Chassis)
  BY <1>1 DEF AddressInv, WorkOK, SyncOK
<1>3. IndexOK(a) /\ VerdictOK(a) /\ ReportedOK(a) /\ DraftedOK(a) /\ RowsTyped
  BY DEF IdentityInv, OwnOK, StageOK
<1>4. p \in Reported(a)
  BY <1>1 DEF Reported
<1>5. /\ p \in Payloads /\ p.api # Blank /\ p.ip \in Addresses /\ p.mfr \in Manufacturers
      /\ holder[MakerLock(p.mfr)] = a
  BY <1>1, <1>3, <1>4, PayloadsAssumption DEF ReportedOK
<1>6. c \in Chassis
  BY <1>1, <1>2, NextKeyFree
<1>7. \/ Rollback(a)
      \/ /\ draft' = IF v = "duplicate" THEN draft ELSE [draft EXCEPT ![a][c] = r]
         /\ Goto(a, "payload", << >>, w) /\ UNCHANGED <<rows, queue, holder>>
  <2>1. known = [index EXCEPT ![c] = IF v = "new" THEN r ELSE Readdressed(@, r.ip)]
    BY <1>1, <1>3, <1>6, ChassisAreHardware DEF IndexOK
  <2> QED
    BY <2>1 DEF SyncStores
<1>8. w.index = known /\ w.inventory = work[a].inventory
  BY <1>2, IdleFields
\* What is written.
<1>9. ASSUME v = "new"
      PROVE  /\ c \in FreeKeys /\ r \in RowType(c) /\ x = r
             /\ r.mfr = p.mfr /\ r.serial = p.serial /\ r.origin = "seen"
  <2>1. c \in FreeKeys
    BY <1>1, <1>9 DEF NextKey
  <2>2. r = Row(p.mfr, p.api, p.serial, p.ip, FALSE, "seen")
    BY <1>9 DEF NewChassis
  <2>3. p.api \in Apis \ {Blank} /\ p.serial \in Serials
    BY <1>5 DEF Apis, Serials
  <2> QED
    <3>1. x = r
      BY <1>9
    <3> HIDE DEF r, x
    <3>2. r \in RowType(c) /\ r.mfr = p.mfr /\ r.serial = p.serial /\ r.origin = "seen"
      BY <1>5, <1>6, <2>2, <2>3 DEF Row, RowType
    <3> QED
      BY <2>1, <3>1, <3>2
<1>10. ASSUME v # "new"
       PROVE  /\ index[c] \in RowType(c) /\ index[c].mfr = p.mfr
              /\ holder[RowLock(c)] = a
              /\ Sees(a)[c] \in RowType(c) /\ Sees(a)[c].mfr = p.mfr
              /\ \A q \in Reported(a) : Bears(Sees(a)[c]) /\ Sees(a)[c].mfr = q.mfr =>
                   index[c].serial = Sees(a)[c].serial
  <2>1. index[c] # Nobody /\ index[c].mfr = p.mfr /\ Promised(a, RowLock(c))
    BY <1>1, <1>3, <1>10 DEF VerdictOK
  <2>2. index[c] \in RowType(c) /\ Sees(a)[c] # Nobody /\ Sees(a)[c].mfr = index[c].mfr
    BY <1>1, <1>3, <1>6, <2>1, ChassisAreHardware DEF IndexOK
  <2>3. Sees(a)[c] \in RowType(c)
    BY <1>3, <1>6, <2>2, SeesAt, ChassisAreHardware DEF DraftedOK, RowsTyped
  <2>4. holder[RowLock(c)] = a
    BY <1>1, <2>1, PromiseKept
  <2>5. \A q \in Reported(a) : Bears(Sees(a)[c]) /\ Sees(a)[c].mfr = q.mfr =>
          index[c].serial = Sees(a)[c].serial
    BY <1>1, <1>3, <1>6 DEF IndexOK
  <2> QED
    BY <2>1, <2>2, <2>3, <2>4, <2>5
<1>11. v = "moved" => r = Readdressed(Sees(a)[c], p.ip)
  OBVIOUS
<1>12. v = "duplicate" => r = index[c]
  OBVIOUS
<1>13. v # "new" => x = Readdressed(index[c], r.ip)
  OBVIOUS
<1> HIDE DEF r, c, w, x, v, known
<1>14. CASE Rollback(a)
  BY <1>14, RollbackIdentity
<1>15. CASE /\ draft' = IF v = "duplicate" THEN draft ELSE [draft EXCEPT ![a][c] = r]
            /\ Goto(a, "payload", << >>, w) /\ UNCHANGED <<rows, queue, holder>>
  <2>1. stage'[a] = "payload" /\ todo'[a] = << >> /\ work'[a] = w
    BY <1>15, Went
  <2>2. Reported(a)' \subseteq Reported(a)
    BY <1>8, <2>1 DEF Reported
  <2>3. ReportedOK(a)'
    BY <1>1, <1>15, <2>1, <2>2, ReportedGoesOn
  <2>4. VerdictOK(a)'
    BY <2>1 DEF VerdictOK
  <2>5. work'[a].index = [work[a].index EXCEPT ![c] = x]
    BY <1>8, <2>1 DEF known
  <2>6. ASSUME IndexOK(a)'
        PROVE  StageOK(a)' /\ LocksOK(a)'
    BY <2>1, <2>3, <2>4, <2>6, NoLocks, SyncStageOK
  <2>7. EntriesGuarded(a)
    BY <1>15, NothingWritten
  <2>8. CASE v = "duplicate"
    <3>1. UNCHANGED <<rows, draft, holder>>
      BY <1>15, <2>8
    <3>2. r.ip \in Addresses
      BY <1>10, <1>12, <2>8 DEF RowType
    <3>3. x \in RowType(c) /\ x.mfr = index[c].mfr /\ x.serial = index[c].serial
      BY <1>10, <1>13, <2>8, <3>2, ReaddressedRow DEF SameSerial
    <3>4. Sees(a)' = Sees(a)
      BY <3>1 DEF Sees, Over
    <3>5. Sees(a)[c] # Nobody /\ Sees(a)[c].mfr = x.mfr
          /\ (Bears(Sees(a)[c]) => Sees(a)[c].serial = x.serial)
      BY <1>4, <1>6, <1>10, <2>8, <3>3, NoRowAssumption, ChassisAreHardware
    <3>6. IndexOK(a)'
      <4>1. /\ \A d \in Chassis \ {c} : Sees(a)'[d] = Sees(a)[d]
            /\ Sees(a)'[c] # Nobody /\ Sees(a)'[c].mfr = x.mfr
            /\ Bears(Sees(a)'[c]) => Sees(a)'[c].serial = x.serial
        BY <3>4, <3>5
      <4> QED
        BY <1>1, <1>6, <2>2, <2>5, <3>3, <4>1, IndexRecords
    <3> QED
      BY <1>15, <2>6, <2>7, <3>1, <3>6, GotoIdentity
  <2>9. CASE v # "duplicate"
    <3>1. draft' = [draft EXCEPT ![a][c] = r]
      BY <1>15, <2>9
    <3>2. /\ r \in RowType(c) /\ r.mfr = p.mfr /\ x \in RowType(c) /\ x.mfr = r.mfr
          /\ Bears(r) => r.serial = x.serial
      <4>1. CASE v = "new"
        BY <1>9, <4>1
      <4>2. CASE v # "new"
        <5>1. r = Readdressed(Sees(a)[c], p.ip)
          BY <1>2, <1>11, <2>9, <4>2
        <5>2. /\ r \in RowType(c) /\ SameSerial(r, Sees(a)[c]) /\ r.ip = p.ip
              /\ r.origin = Sees(a)[c].origin
          BY <1>5, <1>10, <4>2, <5>1, ReaddressedRow
        <5>3. x \in RowType(c) /\ SameSerial(x, index[c])
          BY <1>5, <1>10, <1>13, <4>2, <5>2, ReaddressedRow
        <5>4. Sees(a)[c] # Nobody
          BY <1>6, <1>10, <4>2, NoRowAssumption, ChassisAreHardware
        <5> QED
          BY <1>4, <1>10, <4>2, <5>2, <5>3, <5>4 DEF SameSerial, Bears
      <4> QED
        BY <4>1, <4>2
    <3>3. r # Nobody
      BY <1>6, <3>2, NoRowAssumption, ChassisAreHardware
    <3>4. \A h \in Hardware : Sees(a)'[h] = IF h = c THEN r ELSE Sees(a)[h]
      <4>1. UNCHANGED rows
        BY <1>15
      <4> QED
        BY <1>6, <3>1, <3>3, <4>1, SeesDrafted
    <3>5. IndexOK(a)'
      <4>1. /\ \A d \in Chassis \ {c} : Sees(a)'[d] = Sees(a)[d]
            /\ Sees(a)'[c] # Nobody /\ Sees(a)'[c].mfr = x.mfr
            /\ Bears(Sees(a)'[c]) => Sees(a)'[c].serial = x.serial
        BY <1>6, <3>2, <3>3, <3>4, ChassisAreHardware
      <4> QED
        BY <1>1, <1>6, <2>2, <2>5, <3>2, <4>1, IndexRecords
    <3>6. DraftedOK(a)' /\ DraftsApart'
      <4>1. CASE v = "new"
        <5>1. rows[c] = Nobody /\ \A b \in Actors : draft[b][c] = Nobody
          BY <1>9, <4>1 DEF FreeKeys
        <5>2. ASSUME NEW d \in Chassis \ {c}, Bears(r), Bears(Sees(a)[d]), SameSerial(r, Sees(a)[d])
              PROVE  FALSE
          <6>1. index[d] # Nobody /\ index[d].serial = Sees(a)[d].serial
            BY <1>1, <1>3, <1>4, <3>2, <5>2 DEF IndexOK, SameSerial
          <6>2. p.serial # Blank /\ index[d].serial = p.serial
            BY <1>9, <4>1, <5>2, <6>1 DEF SameSerial, Bears
          <6> QED
            BY <1>1, <1>3, <4>1, <6>1, <6>2 DEF VerdictOK, v
        <5> QED
          BY <1>5, <1>6, <1>15, <3>1, <3>2, <5>1, <5>2, DraftingOK
      <4>2. CASE v # "new"
        <5>1. r = Readdressed(Sees(a)[c], p.ip)
          BY <1>2, <1>11, <2>9, <4>2
        <5>2. /\ SameSerial(r, Sees(a)[c]) /\ r.api = Sees(a)[c].api
              /\ r.origin = Sees(a)[c].origin
          BY <1>5, <1>10, <4>2, <5>1, ReaddressedRow
        <5>3. Sees(a)[c] = IF draft[a][c] # Nobody THEN draft[a][c] ELSE rows[c]
          BY <1>6, SeesAt, ChassisAreHardware
        <5>4. Sees(a)[c] # Nobody
          BY <1>6, <1>10, <4>2, NoRowAssumption, ChassisAreHardware
        <5>5. rows[c] # Nobody =>
                /\ holder[RowLock(c)] = a /\ SameSerial(r, rows[c])
                /\ r.api = rows[c].api /\ r.origin = rows[c].origin
          BY <1>3, <1>6, <1>10, <4>2, <5>2, <5>3, ChassisAreHardware DEF DraftedOK, SameSerial
        <5>6. ASSUME NEW b \in Actors \ {a}
              PROVE  draft[b][c] = Nobody
          <6>1. CASE draft[a][c] # Nobody
            BY <1>6, <6>1, ChassisAreHardware DEF IdentityInv, DraftsApart
          <6>2. CASE rows[c] # Nobody
            <7>1. DraftedOK(b)
              BY DEF IdentityInv, OwnOK
            <7>2. holder[RowLock(c)] # b
              BY <1>10, <4>2, <5>6
            <7> QED
              BY <1>6, <6>2, <7>1, <7>2, ChassisAreHardware DEF DraftedOK
          <6> QED
            BY <5>3, <5>4, <6>1, <6>2
        <5>7. ASSUME NEW d \in Chassis \ {c}, Bears(r), Bears(Sees(a)[d]), SameSerial(r, Sees(a)[d])
              PROVE  FALSE
          <6>1. Bears(Sees(a)[c]) /\ SameSerial(Sees(a)[c], Sees(a)[d])
            BY <5>2, <5>4, <5>7 DEF Bears, SameSerial
          <6> QED
            BY <1>3, <1>6, <5>7, <6>1 DEF DraftedOK, UniqueIn
        <5> QED
          BY <1>5, <1>6, <1>15, <3>1, <3>2, <5>5, <5>6, <5>7, DraftingOK
      <4> QED
        BY <4>1, <4>2
    <3>7. Quiet(a)
      <4>1. /\ stage' = [stage EXCEPT ![a] = stage'[a]] /\ todo' = [todo EXCEPT ![a] = todo'[a]]
            /\ work' = [work EXCEPT ![a] = work'[a]]
        BY <1>15, <2>1 DEF Goto
      <4>2. draft' = [draft EXCEPT ![a] = draft'[a]]
        BY <3>1 DEF AddressInv, Domains
      <4>3. /\ holder' \in [Locks -> Actors \cup {Nobody}]
            /\ \A l \in Locks, b \in Actors \ {a} : holder[l] = b => holder'[l] = b
        BY <1>15, HolderKept
      <4> QED
        BY <4>1, <4>2, <4>3 DEF Quiet
    <3>8. RowsGuarded(a) /\ RowsTyped' /\ UniqueIn(rows)'
      BY <1>15, SameRowsGuarded DEF IdentityInv
    <3> QED
      BY <2>6, <2>7, <3>5, <3>6, <3>7, <3>8, IdentityStep DEF OwnOK
  <2> QED
    BY <2>8, <2>9
<1> QED
  BY <1>7, <1>14, <1>15

LEMMA SyncCommitsIdentity ==
  ASSUME AddressInv, IdentityInv, NEW a \in Actors, SyncCommits(a)
  PROVE  IdentityInv' /\ RowsKept
<1>1. rows' = Over(draft[a], rows) /\ Ended(a) /\ UNCHANGED queue
  BY DEF SyncCommits, Commits
<1>2. DraftedOK(a) /\ RowsTyped /\ DraftsApart
  BY DEF IdentityInv, OwnOK
<1>3. rows' = Sees(a)
  BY <1>1 DEF Sees
<1>4. \A h \in Hardware : rows'[h] = IF draft[a][h] # Nobody THEN draft[a][h] ELSE rows[h]
  BY <1>3, SeesAt
<1>5. RowsTyped'
  <2>1. \A h \in Hardware : rows'[h] \in RowType(h) \cup {Nobody}
    BY <1>2, <1>4 DEF RowsTyped, DraftedOK
  <2> QED
    BY <2>1 DEF RowsTyped, RowType, Apis, Serials, SerialApi, IpApi
<1>6. UniqueIn(rows)'
  BY <1>2, <1>3 DEF DraftedOK, UniqueIn, Bears, SameSerial
<1>7. \A h \in Hardware : rows'[h] # rows[h] =>
        /\ rows'[h] # Nobody
        /\ IF rows[h] = Nobody THEN \A b \in Actors \ {a} : draft[b][h] = Nobody
                               ELSE holder[RowLock(h)] = a
  BY <1>2, <1>4 DEF DraftedOK, DraftsApart
<1>8. RowsKept
  BY <1>2, <1>4, ChassisAreHardware DEF DraftedOK, RowsKept, SameSerial
<1>9. \A c \in Chassis : Bears(rows'[c]) =>
        \/ Bears(rows[c]) /\ SameSerial(rows'[c], rows[c])
        \/ holder[MakerLock(rows'[c].mfr)] = a
  BY <1>2, <1>4, ChassisAreHardware DEF DraftedOK, SameSerial
<1>10. RowsGuarded(a)
  BY <1>7, <1>8, <1>9 DEF RowsGuarded, RowsKept
<1>11. EntriesGuarded(a)
  BY <1>1 DEF AddressInv, Domains, EntriesGuarded
<1> QED
  BY <1>1, <1>5, <1>6, <1>8, <1>10, <1>11, EndIdentity

-----------------------------------------------------------------------------
(* Realtime messages, promotion, chargers: one row is written. *)

LEMMA WriteRow ==
  ASSUME NEW a \in Actors, NEW h \in Hardware, NEW r \in RowType(h), Commits(a, Write(h, r))
  PROVE  \A g \in Hardware : rows'[g] = IF g = h THEN r ELSE rows[g]
<1>1. rows' = Over(Write(h, r), rows)
  BY DEF Commits
<1>2. \A g \in Hardware : Write(h, r)[g] = IF g = h THEN r ELSE Nobody
  BY DEF Write, NoDraft
<1>3. r # Nobody
  BY NoRowAssumption
<1> QED
  BY <1>1, <1>2, <1>3 DEF Over

\* A new chassis that has no serial number, or one from a promotion.
LEMMA InsertIdentity ==
  ASSUME AddressInv, IdentityInv, NEW a \in Actors, NEW c \in FreeKeys, NEW r \in RowType(c),
         ~Bears(r), Commits(a, Write(c, r)), UNCHANGED queue
  PROVE  IdentityInv' /\ RowsKept
<1>1. c \in Chassis /\ c \in Hardware /\ rows[c] = Nobody /\ \A b \in Actors : draft[b][c] = Nobody
  BY ChassisAreHardware DEF FreeKeys
<1>2. \A g \in Hardware : rows'[g] = IF g = c THEN r ELSE rows[g]
  BY <1>1, WriteRow
<1>3. r # Nobody
  BY <1>1, NoRowAssumption
<1>4. \A d \in Chassis : Bears(rows'[d]) => Bears(rows[d]) /\ rows'[d] = rows[d]
  BY <1>2, ChassisAreHardware
<1>5. UniqueIn(rows)'
  BY <1>4 DEF IdentityInv, UniqueIn, Bears, SameSerial
<1>6. RowsTyped'
  <2>1. \A h \in Hardware : rows'[h] \in RowType(h) \cup {Nobody}
    BY <1>2 DEF IdentityInv, RowsTyped
  <2> QED
    BY <2>1 DEF RowsTyped, RowType, Apis, Serials, SerialApi, IpApi
<1>7. RowsGuarded(a) /\ RowsKept
  BY <1>1, <1>2, <1>3, <1>4, ChassisAreHardware DEF RowsGuarded, RowsKept, SameSerial
<1>8. EntriesGuarded(a) /\ Ended(a)
  BY DEF AddressInv, Domains, EntriesGuarded, Commits
<1> QED
  BY <1>5, <1>6, <1>7, <1>8, EndIdentity

\* A row gets another address under its lock.
LEMMA ReaddressIdentity ==
  ASSUME AddressInv, IdentityInv, NEW a \in Actors, NEW h \in Hardware, rows[h] # Nobody,
         holder[RowLock(h)] = a, NEW i \in Addresses,
         Commits(a, Write(h, Readdressed(rows[h], i))), UNCHANGED queue
  PROVE  IdentityInv' /\ RowsKept
<1> DEFINE r == Readdressed(rows[h], i)
<1>1. rows[h] \in RowType(h)
  BY DEF IdentityInv, RowsTyped
<1>2. /\ r \in RowType(h) /\ SameSerial(r, rows[h])
      /\ r.api = rows[h].api /\ r.origin = rows[h].origin
  BY <1>1, ReaddressedRow
<1> HIDE DEF r
<1>3. \A g \in Hardware : rows'[g] = IF g = h THEN r ELSE rows[g]
  BY <1>2, WriteRow DEF r
<1>4. r # Nobody
  BY <1>2, NoRowAssumption
<1>5. \A d \in Chassis : Bears(rows'[d]) => Bears(rows[d]) /\ SameSerial(rows'[d], rows[d])
  BY <1>2, <1>3, ChassisAreHardware DEF Bears, SameSerial
<1>6. UniqueIn(rows)'
  BY <1>5 DEF IdentityInv, UniqueIn, Bears, SameSerial
<1>7. RowsTyped'
  <2>1. \A g \in Hardware : rows'[g] \in RowType(g) \cup {Nobody}
    BY <1>2, <1>3 DEF IdentityInv, RowsTyped
  <2> QED
    BY <2>1 DEF RowsTyped, RowType, Apis, Serials, SerialApi, IpApi
<1>8. RowsGuarded(a) /\ RowsKept
  BY <1>2, <1>3, <1>4, <1>5, ChassisAreHardware DEF RowsGuarded, RowsKept, SameSerial
<1>9. EntriesGuarded(a) /\ Ended(a)
  BY DEF AddressInv, Domains, EntriesGuarded, Commits
<1> QED
  BY <1>6, <1>7, <1>8, <1>9, EndIdentity

\* What a realtime message or a promotion names.
Known(p) ==
  /\ p.mfr \in Manufacturers /\ p.api \in Apis \ {Blank}
  /\ p.serial \in Serials /\ p.ip \in Addresses

LEMMA PayloadKnown ==
  /\ \A p \in Payloads : p.api # Blank => Known(p) /\ Known(Anonymous(p))
  /\ \A p \in Payloads : Known([Anonymous(p) EXCEPT !.api = IpApi(p.ip)])
<1>1. ASSUME NEW p \in Payloads
      PROVE  /\ p.mfr \in Manufacturers /\ p.ip \in Addresses
             /\ p.api \in Apis /\ p.serial \in Serials
             /\ IpApi(p.ip) \in Apis \ {Blank} /\ Blank \in Serials
  BY PayloadsAssumption, BlankAssumption DEF Apis, Serials
<1>2. ASSUME NEW p \in Payloads
      PROVE  /\ Anonymous(p).mfr = p.mfr /\ Anonymous(p).ip = p.ip
             /\ Anonymous(p).api = p.api /\ Anonymous(p).serial = Blank
             /\ [Anonymous(p) EXCEPT !.api = IpApi(p.ip)].mfr = p.mfr
             /\ [Anonymous(p) EXCEPT !.api = IpApi(p.ip)].ip = p.ip
             /\ [Anonymous(p) EXCEPT !.api = IpApi(p.ip)].serial = Blank
             /\ [Anonymous(p) EXCEPT !.api = IpApi(p.ip)].api = IpApi(p.ip)
  BY PayloadsAssumption DEF Anonymous
<1> QED
  BY <1>1, <1>2 DEF Known

LEMMA InsertLocksAreLocks ==
  ASSUME NEW p, Known(p)
  PROVE  \A k \in DOMAIN InsertLocks(p) : InsertLocks(p)[k] \in Locks
<1> DEFINE locks == InsertLocks(p)
<1>1. DOMAIN locks = 1 .. 2 /\ locks[1] = AddressLock(p.ip)
      /\ locks[2] = <<"identity", <<p.mfr, p.api>> >>
  BY DEF InsertLocks, AddressLock
<1>2. AddressLock(p.ip) \in Locks /\ <<"identity", <<p.mfr, p.api>> >> \in Locks
  BY TheLocks, TheOtherLocks DEF Known, Identities
<1> HIDE DEF locks
<1>3. \A k \in DOMAIN locks : locks[k] \in Locks
  BY <1>1, <1>2
<1> QED
  BY <1>3 DEF locks

\* A step to the insertion of what w names.
LEMMA InsertNext ==
  ASSUME AddressInv, IdentityInv, NEW a \in Actors, NEW w, Known(w.payload),
         Goto(a, "insert", InsertLocks(w.payload), w)
  PROVE  LocksOK(a)' /\ StageOK(a)'
<1>1. stage'[a] = "insert" /\ todo'[a] = InsertLocks(w.payload) /\ work'[a] = w
  BY Went
<1>2. RowsOK(a)'
  BY <1>1 DEF RowsOK, Known, Apis, Serials, SerialApi, IpApi
<1>3. \A k \in DOMAIN InsertLocks(w.payload) : InsertLocks(w.payload)[k] \in Locks
  BY InsertLocksAreLocks
<1> QED
  BY <1>1, <1>2, <1>3, AsksForLocks, OtherStageOK

\* A step to the lock of the chassis that has the identifier.
LEMMA SelectedNext ==
  ASSUME AddressInv, IdentityInv, NEW a \in Actors, NEW w, Known(w.payload),
         NEW c \in Chassis, w.target = c, rows[c] # Nobody, UNCHANGED rows,
         Goto(a, "selected", << <<"row", c>> >>, w)
  PROVE  LocksOK(a)' /\ StageOK(a)'
<1> DEFINE locks == << <<"row", c>> >>
<1>1. stage'[a] = "selected" /\ todo'[a] = locks /\ work'[a] = w
  BY Went
<1>2. DOMAIN locks = {1} /\ locks[1] = RowLock(c)
  BY DEF RowLock
<1>3. RowLock(c) \in Locks
  BY TheOtherLocks, ChassisAreHardware
<1> HIDE DEF locks
<1>4. Promised(a, RowLock(c))'
  BY <1>1, <1>2 DEF Promised, RowLock
<1>5. RowsOK(a)'
  BY <1>1, <1>4 DEF RowsOK, Known, Apis, Serials, SerialApi, IpApi, Promised, RowLock
<1>6. \A k \in DOMAIN locks : locks[k] \in Locks
  BY <1>2, <1>3
<1> QED
  BY <1>1, <1>5, <1>6, AsksForLocks, OtherStageOK

LEMMA RealtimeBeginsIdentity ==
  ASSUME AddressInv, IdentityInv, NEW a \in Actors, RealtimeBegins(a)
  PROVE  IdentityInv'
<1>1. PICK p \in {Anonymous(q) : q \in {r \in Payloads : r.api # Blank}} :
        Upsert(a, [Idle EXCEPT !.task = "realtime", !.payload = p])
  BY DEF RealtimeBegins
<1> DEFINE w == [Idle EXCEPT !.task = "realtime", !.payload = p]
           u(c) == [w EXCEPT !.target = c]
<1>2. w.payload = p /\ \A c : u(c).payload = p /\ u(c).target = c
  BY IdleFields
<1>3. Known(p)
  BY PayloadKnown
<1>4. Upsert(a, w) /\ UNCHANGED <<rows, queue, draft, holder>>
  BY <1>1 DEF RealtimeBegins
<1>5. \/ Goto(a, "insert", InsertLocks(w.payload), w)
      \/ \E c \in Chassis : rows[c] # Nobody /\ Goto(a, "selected", << <<"row", c>> >>, u(c))
  BY <1>4 DEF Upsert, SameApi
<1>6. EntriesGuarded(a)
  BY <1>4, NothingWritten
<1> HIDE DEF w, u
<1>7. CASE Goto(a, "insert", InsertLocks(w.payload), w)
  <2>1. LocksOK(a)' /\ StageOK(a)'
    BY <1>2, <1>3, <1>7, InsertNext
  <2> QED
    BY <1>4, <1>6, <1>7, <2>1, GotoIdentity
<1>8. ASSUME NEW c \in Chassis, rows[c] # Nobody, Goto(a, "selected", << <<"row", c>> >>, u(c))
      PROVE  IdentityInv'
  <2>1. LocksOK(a)' /\ StageOK(a)'
    BY <1>2, <1>3, <1>4, <1>8, SelectedNext
  <2> QED
    BY <1>4, <1>6, <1>8, <2>1, GotoIdentity
<1> QED
  BY <1>5, <1>7, <1>8

LEMMA RealtimeSelectedIdentity ==
  ASSUME AddressInv, IdentityInv, NEW a \in Actors, RealtimeSelected(a)
  PROVE  IdentityInv'
<1> DEFINE p == work[a].payload
           w == [work[a] EXCEPT !.target = Nobody]
           locks == << <<"address", p.ip>> >>
<1>1. /\ stage[a] = "selected" /\ todo[a] = << >>
      /\ \/ Proceeds(a, "update", locks, work[a])
         \/ Rollback(a)
         \/ Proceeds(a, "insert", InsertLocks(p), w)
  BY DEF RealtimeSelected, At
<1>2. RowsOK(a)
  BY DEF IdentityInv, OwnOK, StageOK
<1>3. Known(p)
  BY <1>1, <1>2 DEF RowsOK, Known
<1>4. w.payload = p
  BY IdleFields DEF AddressInv, WorkOK
<1>5. DOMAIN locks = {1} /\ locks[1] = AddressLock(p.ip) /\ AddressLock(p.ip) \in Locks
  BY <1>3, TheLocks DEF AddressLock, Known
<1> HIDE DEF w, locks, p
<1>6. CASE Proceeds(a, "update", locks, work[a])
  <2>1. /\ stage'[a] = "update" /\ todo'[a] = locks /\ work'[a] = work[a]
        /\ UNCHANGED <<rows, holder>>
    BY <1>6, Went DEF Proceeds
  <2>2. holder[RowLock(work[a].target)] = a /\ rows[work[a].target] # Nobody
    BY <1>1, <1>2, PromiseKept DEF RowsOK
  <2>3. RowsOK(a)'
    BY <1>3, <2>1, <2>2 DEF RowsOK, Known, p, Apis, Serials, SerialApi, IpApi, Promised, RowLock
  <2>4. LocksOK(a)' /\ StageOK(a)'
    BY <1>5, <2>1, <2>3, AsksForLocks, OtherStageOK
  <2> QED
    BY <1>6, <2>4, ProceedsIdentity
<1>7. CASE Proceeds(a, "insert", InsertLocks(p), w)
  <2>1. LocksOK(a)' /\ StageOK(a)'
    BY <1>3, <1>4, <1>7, InsertNext DEF Proceeds
  <2> QED
    BY <1>7, <2>1, ProceedsIdentity
<1> QED
  BY <1>1, <1>6, <1>7, RollbackIdentity

LEMMA RealtimeUpdatesIdentity ==
  ASSUME AddressInv, IdentityInv, NEW a \in Actors, RealtimeUpdates(a)
  PROVE  IdentityInv' /\ RowsKept
<1> DEFINE c == work[a].target
           i == work[a].payload.ip
<1>1. /\ stage[a] = "update" /\ todo[a] = << >>
      /\ \/ Commits(a, Write(c, Readdressed(rows[c], i))) /\ UNCHANGED queue
         \/ Rollback(a)
  BY DEF RealtimeUpdates, At
<1>2. RowsOK(a)
  BY DEF IdentityInv, OwnOK, StageOK
<1>3. i \in Addresses /\ rows[c] # Nobody /\ holder[RowLock(c)] = a
  BY <1>1, <1>2, PromiseKept DEF RowsOK
<1>4. c \in Hardware
  BY <1>1, ChassisAreHardware DEF AddressInv, WorkOK, OthersOK
<1> HIDE DEF c, i
<1>5. CASE Rollback(a)
  <2>1. rows' = rows
    BY <1>5 DEF Rollback
  <2> QED
    BY <1>5, <2>1, RollbackIdentity DEF RowsKept
<1> QED
  BY <1>1, <1>3, <1>4, <1>5, ReaddressIdentity

\* The chassis a message or a promotion makes.
LEMMA NewRow ==
  ASSUME NEW c \in Chassis, NEW p, Known(p), NEW s \in Serials, NEW origin \in {"seen", "promoted"},
         s = Blank \/ origin = "promoted"
  PROVE  LET r == NewChassis(p.mfr, p.api, s, p.ip, origin)
         IN  r \in RowType(c) /\ ~Bears(r)
  BY DEF Known, NewChassis, Row, RowType, Bears

\* The lost race for an identifier: the locks of the savepoint are free.
LEMMA LostRaceIdentity ==
  ASSUME AddressInv, IdentityInv, NEW a \in Actors, NEW d \in Chassis, rows[d] # Nobody,
         NEW w, w.target = d, Known(w.payload), stage[a] = "insert",
         Goto(a, "selected", << <<"row", d>> >>, w),
         holder' = Released(a), UNCHANGED <<rows, queue, draft>>
  PROVE  IdentityInv'
<1>1. LocksOK(a)' /\ StageOK(a)'
  BY SelectedNext
<1>2. stage'[a] = "selected" /\ todo'[a] = << <<"row", d>> >> /\ work'[a] = w
  BY Went
<1>3. /\ holder' \in [Locks -> Actors \cup {Nobody}]
      /\ \A l \in Locks, b \in Actors \ {a} : holder[l] = b => holder'[l] = b
  BY HolderReleased
<1>4. /\ stage' = [stage EXCEPT ![a] = stage'[a]] /\ todo' = [todo EXCEPT ![a] = todo'[a]]
      /\ work' = [work EXCEPT ![a] = work'[a]]
  BY <1>2 DEF Goto
<1>5. draft' = [draft EXCEPT ![a] = draft'[a]]
  BY DEF AddressInv, Domains
<1>6. Quiet(a)
  BY <1>3, <1>4, <1>5 DEF Quiet
<1>7. EntriesGuarded(a)
  BY NothingWritten
<1>8. RowsGuarded(a) /\ RowsTyped' /\ UniqueIn(rows)'
  BY SameRowsGuarded DEF IdentityInv
<1>9. DraftedOK(a)'
  <2>1. \A h \in Hardware : draft'[a][h] = Nobody
    BY DEF AddressInv, DraftOK
  <2> QED
    BY <1>8, <2>1, NothingDrafted
<1>10. DraftsApart'
  BY DEF IdentityInv, DraftsApart
<1> QED
  BY <1>1, <1>6, <1>7, <1>8, <1>9, <1>10, IdentityStep DEF OwnOK

LEMMA RealtimeInsertsIdentity ==
  ASSUME AddressInv, IdentityInv, NEW a \in Actors, RealtimeInserts(a)
  PROVE  IdentityInv' /\ RowsKept
<1> DEFINE p == work[a].payload
           c == NextKey
           r == NewChassis(p.mfr, p.api, Blank, p.ip, "seen")
           w(d) == [work[a] EXCEPT !.target = d, !.verdict = "retried"]
<1>1. c \in FreeKeys /\ c \in Chassis /\ stage[a] = "insert"
  BY NextKeyFree DEF RealtimeInserts, At, NextKey
<1>2. \A d : w(d).payload = p /\ w(d).target = d
  BY IdleFields DEF AddressInv, WorkOK
<1>3. \/ Rollback(a)
      \/ Commits(a, Write(c, r)) /\ UNCHANGED queue
      \/ \E d \in Chassis : /\ rows[d] # Nobody
                            /\ Goto(a, "selected", << <<"row", d>> >>, w(d))
                            /\ holder' = Released(a) /\ UNCHANGED <<rows, queue, draft>>
  BY DEF RealtimeInserts, SameApi
<1>4. Known(p)
  BY <1>1 DEF IdentityInv, OwnOK, StageOK, RowsOK, Known
<1>5. r \in RowType(c) /\ ~Bears(r)
  <2>1. Blank \in Serials
    BY DEF Serials
  <2> QED
    BY <1>1, <1>4, <2>1, NewRow
<1> HIDE DEF c, r, w, p
<1>6. CASE Rollback(a)
  <2>1. rows' = rows
    BY <1>6 DEF Rollback
  <2> QED
    BY <1>6, <2>1, RollbackIdentity DEF RowsKept
<1>7. ASSUME NEW d \in Chassis, rows[d] # Nobody, Goto(a, "selected", << <<"row", d>> >>, w(d)),
             holder' = Released(a), UNCHANGED <<rows, queue, draft>>
      PROVE  IdentityInv' /\ RowsKept
  <2>1. IdentityInv'
    BY <1>1, <1>2, <1>4, <1>7, LostRaceIdentity
  <2> QED
    BY <1>7, <2>1 DEF RowsKept
<1> QED
  BY <1>1, <1>3, <1>5, <1>6, <1>7, InsertIdentity

LEMMA PromoteBeginsIdentity ==
  ASSUME AddressInv, IdentityInv, NEW a \in Actors, PromoteBegins(a)
  PROVE  IdentityInv'
<1>1. PICK p \in Payloads \cup {[Anonymous(q) EXCEPT !.api = IpApi(q.ip)] : q \in Payloads} :
        IF p \in Payloads
          THEN Proceeds(a, "check", << >>, [Idle EXCEPT !.task = "promote", !.payload = p])
          ELSE Proceeds(a, "insert", InsertLocks(p), [Idle EXCEPT !.task = "promote", !.payload = p])
  BY DEF PromoteBegins
<1> DEFINE w == [Idle EXCEPT !.task = "promote", !.payload = p]
<1>2. w.payload = p
  BY IdleFields
<1> HIDE DEF w
<1>3. CASE p \in Payloads /\ Proceeds(a, "check", << >>, w)
  <2>1. stage'[a] = "check" /\ todo'[a] = << >> /\ work'[a] = w
    BY <1>3, Went DEF Proceeds
  <2>2. RowsOK(a)'
    BY <1>2, <1>3, <2>1 DEF RowsOK
  <2>3. LocksOK(a)' /\ StageOK(a)'
    BY <2>1, <2>2, NoLocks, OtherStageOK
  <2> QED
    BY <1>3, <2>3, ProceedsIdentity
<1>4. CASE p \notin Payloads /\ Proceeds(a, "insert", InsertLocks(p), w)
  <2>1. Known(p)
    BY <1>4, PayloadKnown
  <2>2. LocksOK(a)' /\ StageOK(a)'
    BY <1>2, <1>4, <2>1, InsertNext DEF Proceeds
  <2> QED
    BY <1>4, <2>2, ProceedsIdentity
<1> QED
  BY <1>1, <1>3, <1>4 DEF w

LEMMA PromoteChecksIdentity ==
  ASSUME AddressInv, IdentityInv, NEW a \in Actors, PromoteChecks(a)
  PROVE  IdentityInv'
<1> DEFINE p == work[a].payload
<1>1. /\ stage[a] = "check"
      /\ \/ Rollback(a)
         \/ p.api # Blank /\ Proceeds(a, "insert", InsertLocks(p), work[a])
  BY DEF PromoteChecks, At
<1>2. CASE p.api # Blank /\ Proceeds(a, "insert", InsertLocks(p), work[a])
  <2>1. Known(p)
    BY <1>1, <1>2, PayloadKnown DEF IdentityInv, OwnOK, StageOK, RowsOK
  <2>2. LocksOK(a)' /\ StageOK(a)'
    BY <1>2, <2>1, InsertNext DEF Proceeds
  <2> QED
    BY <1>2, <2>2, ProceedsIdentity
<1> QED
  BY <1>1, <1>2, RollbackIdentity

LEMMA PromoteInsertsIdentity ==
  ASSUME AddressInv, IdentityInv, NEW a \in Actors, PromoteInserts(a)
  PROVE  IdentityInv' /\ RowsKept
<1> DEFINE p == work[a].payload
           c == NextKey
           r == NewChassis(p.mfr, p.api, p.serial, p.ip, "promoted")
<1>1. c \in FreeKeys /\ c \in Chassis /\ stage[a] = "insert"
  BY NextKeyFree DEF PromoteInserts, At, NextKey
<1>2. Rollback(a) \/ (Commits(a, Write(c, r)) /\ UNCHANGED queue)
  BY DEF PromoteInserts
<1>3. Known(p)
  BY <1>1 DEF IdentityInv, OwnOK, StageOK, RowsOK, Known
<1>4. r \in RowType(c) /\ ~Bears(r)
  BY <1>1, <1>3, NewRow DEF Known
<1> HIDE DEF c, r, p
<1>5. CASE Rollback(a)
  <2>1. rows' = rows
    BY <1>5 DEF Rollback
  <2> QED
    BY <1>5, <2>1, RollbackIdentity DEF RowsKept
<1> QED
  BY <1>1, <1>2, <1>4, <1>5, InsertIdentity

LEMMA ChargerBeginsIdentity ==
  ASSUME AddressInv, IdentityInv, NEW a \in Actors, ChargerBegins(a)
  PROVE  IdentityInv'
<1>1. PICK g \in Chargers, i \in Addresses :
        /\ rows[g] # Nobody
        /\ Proceeds(a, "edit", << <<"address", i>>, <<"row", g>> >>,
                    [Idle EXCEPT !.task = "charger", !.target = g,
                                 !.payload = [NoPayload EXCEPT !.ip = i]])
  BY DEF ChargerBegins
<1> DEFINE locks == << <<"address", i>>, <<"row", g>> >>
           w == [Idle EXCEPT !.task = "charger", !.target = g,
                             !.payload = [NoPayload EXCEPT !.ip = i]]
<1>2. w.target = g
  BY IdleFields
<1>3. DOMAIN locks = 1 .. 2 /\ locks[1] = AddressLock(i) /\ locks[2] = RowLock(g)
  BY DEF AddressLock, RowLock
<1>4. g \in Hardware
  BY DEF Hardware
<1>5. AddressLock(i) \in Locks /\ RowLock(g) \in Locks
  BY <1>4, TheLocks, TheOtherLocks
<1> HIDE DEF locks, w
<1>6. Proceeds(a, "edit", locks, w)
  BY <1>1 DEF locks, w
<1>7. stage'[a] = "edit" /\ todo'[a] = locks /\ work'[a] = w /\ UNCHANGED rows
  BY <1>6, Went DEF Proceeds
<1>8. Promised(a, RowLock(g))'
  BY <1>3, <1>7 DEF Promised, RowLock
<1>9. RowsOK(a)'
  BY <1>1, <1>2, <1>7, <1>8 DEF RowsOK, Promised, RowLock
<1>10. \A k \in DOMAIN locks : locks[k] \in Locks
  BY <1>3, <1>5
<1>11. LocksOK(a)' /\ StageOK(a)'
  BY <1>7, <1>9, <1>10, AsksForLocks, OtherStageOK
<1> QED
  BY <1>6, <1>11, ProceedsIdentity

LEMMA ChargerSavesIdentity ==
  ASSUME AddressInv, IdentityInv, NEW a \in Actors, ChargerSaves(a)
  PROVE  IdentityInv' /\ RowsKept
<1> DEFINE g == work[a].target
           i == work[a].payload.ip
<1>1. /\ stage[a] = "edit" /\ todo[a] = << >>
      /\ \/ Commits(a, Write(g, Readdressed(rows[g], i))) /\ UNCHANGED queue
         \/ Rollback(a)
  BY DEF ChargerSaves, At
<1>2. g \in Hardware /\ i \in Addresses
  BY <1>1 DEF AddressInv, WorkOK, OthersOK, Hardware
<1>3. rows[g] # Nobody /\ holder[RowLock(g)] = a
  BY <1>1, PromiseKept DEF IdentityInv, OwnOK, StageOK, RowsOK
<1> HIDE DEF g, i
<1>4. CASE Rollback(a)
  <2>1. rows' = rows
    BY <1>4 DEF Rollback
  <2> QED
    BY <1>4, <2>1, RollbackIdentity DEF RowsKept
<1> QED
  BY <1>1, <1>2, <1>3, <1>4, ReaddressIdentity

-----------------------------------------------------------------------------
(* The queue. *)

LEMMA QueueUpsertsIdentity ==
  ASSUME AddressInv, IdentityInv, NEW a \in Actors, QueueUpserts(a)
  PROVE  IdentityInv'
<1>1. UNCHANGED <<rows, draft, holder>> /\ EntriesGuarded(a)
  BY UpsertGuarded DEF QueueUpserts
<1>2. PICK w : Goto(a, "classify", << >>, w)
  BY DEF QueueUpserts
<1>3. stage'[a] = "classify" /\ todo'[a] = << >>
  BY <1>2, Went
<1> QED
  BY <1>1, <1>2, <1>3, NoLocks, PlainStageOK, GotoIdentity

LEMMA QueueClassifiesIdentity ==
  ASSUME AddressInv, IdentityInv, NEW a \in Actors, QueueClassifies(a)
  PROVE  IdentityInv'
<1>1. PICK w : Proceeds(a, "record", << >>, w)
  BY DEF QueueClassifies
<1>2. stage'[a] = "record" /\ todo'[a] = << >>
  BY <1>1, Went DEF Proceeds
<1> QED
  BY <1>1, <1>2, NoLocks, PlainStageOK, ProceedsIdentity

LEMMA QueueRecordsIdentity ==
  ASSUME AddressInv, IdentityInv, NEW a \in Actors, QueueRecords(a)
  PROVE  IdentityInv'
<1>1. Ended(a) /\ UNCHANGED rows /\ EntriesGuarded(a)
  BY RecordGuarded DEF QueueRecords
<1> QED
  BY <1>1, SameRowsGuarded, EndIdentity DEF IdentityInv

-----------------------------------------------------------------------------
(* The theorems. *)

LEMMA NextIdentity ==
  ASSUME AddressInv, IdentityInv, [Next]_vars
  PROVE  IdentityInv'
<1>1. ASSUME NEW a \in Actors, Begins(a)
      PROVE  IdentityInv'
  BY <1>1, ApproveBeginsIdentity, SyncBeginsIdentity, RealtimeBeginsIdentity,
     PromoteBeginsIdentity, ChargerBeginsIdentity, QueueUpsertsIdentity DEF Begins
<1>2. ASSUME NEW a \in Actors, Proceed(a)
      PROVE  IdentityInv'
  <2>1. CASE \/ ApproveLocksEntries(a) \/ ApproveSelects(a) \/ ApproveLocksAddresses(a)
             \/ ApproveLocksChassis(a) \/ ApproveLocksChargers(a) \/ ApprovePlans(a)
             \/ ApproveWrites(a)
    BY <2>1, ApproveLocksEntriesIdentity, ApproveSelectsIdentity, ApproveLocksAddressesIdentity,
       ApproveLocksChassisIdentity, ApproveLocksChargersIdentity, ApprovePlansIdentity,
       ApproveWritesIdentity
  <2>2. CASE SyncIndexes(a) \/ SyncDecides(a) \/ SyncStores(a) \/ SyncCommits(a)
    BY <2>2, SyncIndexesIdentity, SyncDecidesIdentity, SyncStoresIdentity, SyncCommitsIdentity
  <2>3. CASE \/ RealtimeSelected(a) \/ RealtimeUpdates(a) \/ RealtimeInserts(a)
             \/ PromoteChecks(a) \/ PromoteInserts(a) \/ ChargerSaves(a)
    BY <2>3, RealtimeSelectedIdentity, RealtimeUpdatesIdentity, RealtimeInsertsIdentity,
       PromoteChecksIdentity, PromoteInsertsIdentity, ChargerSavesIdentity
  <2>4. CASE QueueClassifies(a) \/ QueueRecords(a)
    BY <2>4, QueueClassifiesIdentity, QueueRecordsIdentity
  <2> QED
    BY <1>2, <2>1, <2>2, <2>3, <2>4 DEF Proceed
<1>3. ASSUME NEW a \in Actors, DeadlockVictim(a) \/ Dies(a)
      PROVE  IdentityInv'
  BY <1>3, RollbackIdentity DEF DeadlockVictim, Dies
<1> QED
  BY <1>1, <1>2, <1>3, AcquireIdentity, DismissIdentity, StutterIdentity DEF Next

\* Six steps write hardware.
LEMMA RowSteps ==
  ASSUME [Next]_vars
  PROVE  \/ rows' = rows
         \/ \E a \in Actors : \/ ApproveWrites(a) \/ SyncCommits(a)
                              \/ RealtimeUpdates(a) \/ RealtimeInserts(a)
                              \/ PromoteInserts(a) \/ ChargerSaves(a)
<1>0. /\ \A a, s, locks, w : Proceeds(a, s, locks, w) => rows' = rows
      /\ \A a : Rollback(a) => rows' = rows
  BY DEF Proceeds, Rollback
<1>1. ASSUME NEW a \in Actors, Begins(a)
      PROVE  rows' = rows
  <2>1. CASE ApproveBegins(a)
    BY <1>0, <2>1 DEF ApproveBegins
  <2>2. CASE SyncBegins(a)
    BY <1>0, <2>2 DEF SyncBegins
  <2>3. CASE PromoteBegins(a)
    <3>1. \E s, locks, w : Proceeds(a, s, locks, w)
      BY <2>3 DEF PromoteBegins
    <3> QED
      BY <1>0, <3>1
  <2>4. CASE ChargerBegins(a)
    BY <1>0, <2>4 DEF ChargerBegins
  <2>5. CASE RealtimeBegins(a) \/ QueueUpserts(a)
    BY <2>5 DEF RealtimeBegins, QueueUpserts
  <2> QED
    BY <1>1, <2>1, <2>2, <2>3, <2>4, <2>5 DEF Begins
<1>2. ASSUME NEW a \in Actors,
             \/ ApproveLocksEntries(a) \/ ApproveSelects(a) \/ ApproveLocksAddresses(a)
             \/ ApproveLocksChassis(a) \/ ApproveLocksChargers(a) \/ ApprovePlans(a)
      PROVE  rows' = rows
  BY <1>0, <1>2 DEF ApproveLocksEntries, ApproveSelects, ApproveLocksAddresses, ApproveLocksChassis,
                    ApproveLocksChargers, ApprovePlans
<1>3. ASSUME NEW a \in Actors, SyncIndexes(a) \/ SyncDecides(a) \/ SyncStores(a)
      PROVE  rows' = rows
  <2>1. CASE SyncIndexes(a)
    BY <1>0, <2>1 DEF SyncIndexes
  <2>2. CASE SyncDecides(a)
    <3> DEFINE v == CheckDevice(Head(work[a].inventory), work[a].index)
    <3>1. \/ v.kind \in {"new", "error"} /\ v.chassis = Nobody
          \/ v.kind \in {"conflict", "duplicate", "moved"} /\ v.chassis \in Chassis
      BY CheckDeviceResults
    <3>2. Rollback(a) \/ \E s, locks, w : Proceeds(a, s, locks, w)
      BY <2>2, <3>1 DEF SyncDecides
    <3> QED
      BY <1>0, <3>2
  <2>3. CASE SyncStores(a)
    BY <1>0, <2>3 DEF SyncStores
  <2> QED
    BY <1>3, <2>1, <2>2, <2>3
<1>4. ASSUME NEW a \in Actors, RealtimeSelected(a) \/ PromoteChecks(a)
      PROVE  rows' = rows
  BY <1>0, <1>4 DEF RealtimeSelected, PromoteChecks
<1>5. ASSUME NEW a \in Actors, QueueClassifies(a) \/ QueueRecords(a)
      PROVE  rows' = rows
  <2>1. CASE QueueClassifies(a)
    BY <1>0, <2>1 DEF QueueClassifies
  <2>2. CASE QueueRecords(a)
    BY <2>2 DEF QueueRecords
  <2> QED
    BY <1>5, <2>1, <2>2
<1>6. ASSUME NEW a \in Actors, Acquire(a) \/ DeadlockVictim(a) \/ Dies(a)
      PROVE  rows' = rows
  BY <1>0, <1>6 DEF Acquire, DeadlockVictim, Dies
<1>7. ASSUME NEW e \in Entries, Dismiss(e)
      PROVE  rows' = rows
  BY <1>7 DEF Dismiss
<1>8. CASE UNCHANGED vars
  BY <1>8 DEF vars
<1>9. ASSUME NEW a \in Actors, Proceed(a)
      PROVE  \/ rows' = rows
             \/ \/ ApproveWrites(a) \/ SyncCommits(a)
                \/ RealtimeUpdates(a) \/ RealtimeInserts(a)
                \/ PromoteInserts(a) \/ ChargerSaves(a)
  BY <1>2, <1>3, <1>4, <1>5, <1>9 DEF Proceed
<1> QED
  BY <1>1, <1>6, <1>7, <1>8, <1>9 DEF Next

LEMMA StepsKeepRows ==
  ASSUME AddressInv, IdentityInv, [Next]_vars
  PROVE  RowsKept
<1>1. rows' = rows => RowsKept
  BY DEF RowsKept
<1> QED
  BY <1>1, RowSteps, ApproveWritesIdentity, SyncCommitsIdentity, RealtimeUpdatesIdentity,
     RealtimeInsertsIdentity, PromoteInsertsIdentity, ChargerSavesIdentity

\* The values of all rows, drafts, queue entries and locks, whatever steps the transactions
\* take: a write keeps a row a row of its table, an unsaved one as well, and what a transaction
\* waits for is a lock.
THEOREM ApprovalTypesHold == Spec => []TypeOK
<1>1. Init => AddressInv /\ IdentityInv
  BY InitEstablishes, InitIdentity
<1>2. AddressInv /\ IdentityInv /\ [Next]_vars => (AddressInv /\ IdentityInv)'
  BY NextKeeps, NextIdentity
<1>3. AddressInv /\ IdentityInv => TypeOK
  <2>1. SUFFICES ASSUME AddressInv, IdentityInv
                 PROVE  TypeOK
    OBVIOUS
  <2>2. \A h \in Hardware : rows[h] \in RowType(h) \cup {Nobody}
    BY <2>1 DEF IdentityInv, RowsTyped
  <2>3. \A a \in Actors, h \in Hardware : draft[a][h] \in RowType(h) \cup {Nobody}
    BY <2>1 DEF IdentityInv, OwnOK, DraftedOK
  <2>4. queue \in [Entries -> EntryType] /\ holder \in [Locks -> Actors \cup {Nobody}]
    BY <2>1 DEF AddressInv, Domains
  <2>5. \A a \in Actors : \A k \in DOMAIN todo[a] : todo[a][k] \in Locks
    BY <2>1 DEF IdentityInv, OwnOK, LocksOK
  <2> QED
    BY <2>2, <2>3, <2>4, <2>5 DEF TypeOK
<1> QED
  BY <1>1, <1>2, <1>3, PTL DEF Spec

\* A serial number names one chassis of a manufacturer, although no index says so: whoever
\* gives a chassis one holds the lock of its manufacturer and has locked, or indexed, every
\* chassis that may have it.  Promotion takes no such lock and is left out, as in the
\* statement that the runs check.
THEOREM SerialsStayUnique == Spec => []SerialsUnique
<1>1. Init => AddressInv /\ IdentityInv
  BY InitEstablishes, InitIdentity
<1>2. AddressInv /\ IdentityInv /\ [Next]_vars => (AddressInv /\ IdentityInv)'
  BY NextKeeps, NextIdentity
<1>3. AddressInv /\ IdentityInv => SerialsUnique
  <2>1. SUFFICES ASSUME IdentityInv, NEW c \in Chassis, NEW d \in Chassis, c # d,
                        rows[c] # Nobody, rows[d] # Nobody,
                        rows[c].mfr = rows[d].mfr, rows[c].serial = rows[d].serial,
                        rows[c].serial # Blank, "promoted" \notin {rows[c].origin, rows[d].origin}
                 PROVE  FALSE
    BY DEF SerialsUnique
  <2>2. Bears(rows[c]) /\ Bears(rows[d]) /\ SameSerial(rows[c], rows[d])
    BY <2>1 DEF Bears, SameSerial
  <2> QED
    BY <2>1, <2>2 DEF IdentityInv, UniqueIn
<1> QED
  BY <1>1, <1>2, <1>3, PTL DEF Spec

\* Nobody takes over a chassis: no approval, synchronization, message, promotion or edit gives
\* a chassis another manufacturer or another serial number, nor another identifier while no
\* serial number proves that the device is the same.
THEOREM NobodyTakesOver == Spec => NoTakeover
<1>1. Init => AddressInv /\ IdentityInv
  BY InitEstablishes, InitIdentity
<1>2. AddressInv /\ IdentityInv /\ [Next]_vars => (AddressInv /\ IdentityInv)'
  BY NextKeeps, NextIdentity
<1>3. AddressInv /\ IdentityInv /\ [Next]_vars =>
        [\A c \in Chassis : rows[c] # Nobody =>
           /\ rows'[c].mfr = rows[c].mfr
           /\ rows[c].serial # Blank => rows'[c].serial = rows[c].serial
           /\ rows[c].serial = Blank => rows'[c].api = rows[c].api]_vars
  BY StepsKeepRows DEF RowsKept
<1> QED
  BY <1>1, <1>2, <1>3, PTL DEF Spec, NoTakeover

\* An approval adds, changes and readdresses what its reviewer may, even if the hardware that
\* decides which permission an entry needs came or went after the preflight.
THEOREM PermissionsLast == Spec => PermissionsHold
<1>1. Init => AddressInv /\ IdentityInv
  BY InitEstablishes, InitIdentity
<1>2. AddressInv /\ IdentityInv /\ [Next]_vars => (AddressInv /\ IdentityInv)'
  BY NextKeeps, NextIdentity
<1>3. AddressInv /\ IdentityInv /\ [Next]_vars =>
        [\A a \in Actors : ApproveWrites(a) =>
           /\ \A h \in Chassis : rows'[h] # rows[h] =>
                (IF rows[h] = Nobody THEN "add" ELSE "change") \in work[a].perms
           /\ \A h \in Chargers : rows'[h] # rows[h] => "charger" \in work[a].perms]_vars
  BY ApproveWritesIdentity DEF Permitted
<1> QED
  BY <1>1, <1>2, <1>3, PTL DEF Spec, PermissionsHold

-----------------------------------------------------------------------------
(* The order in which an approval locks.                                     *)

\* The kinds of locks in the order in which an approval takes them.
Level(l) ==
  IF l[1] = "entry" THEN 1
  ELSE IF l[1] = "manufacturer" THEN 2
  ELSE IF l[1] = "address" THEN 3
  ELSE IF l[1] = "row" /\ l[2] \in Chassis THEN 4
  ELSE IF l[1] = "row" THEN 5
  ELSE 6

Rungs == {"listed", "entries", "makers", "addresses", "chassis", "chargers", "write"}

\* The kind of locks that is taken at a stage of an approval.
Rung(s) ==
  IF s = "listed" THEN 0
  ELSE IF s = "entries" THEN 1
  ELSE IF s = "makers" THEN 2
  ELSE IF s = "addresses" THEN 3
  ELSE IF s = "chassis" THEN 4
  ELSE IF s = "chargers" THEN 5
  ELSE 6

\* An approval asks for the locks of one kind, in ascending order but for identities, and
\* has none of a later kind; the manufacturers of its identities are its own.
ClimbsOK(a) ==
  /\ stage[a] \in Rungs
  /\ \A l \in Locks : holder[l] = a => Level(l) <= Rung(stage[a])
  /\ \A k \in DOMAIN todo[a] : Level(todo[a][k]) = Rung(stage[a])
  /\ stage[a] # "write" =>
       /\ \A k \in DOMAIN todo[a], l \in Locks :
            holder[l] = a /\ Level(l) = Rung(stage[a]) => l[2] < todo[a][k][2]
       /\ \A j, k \in DOMAIN todo[a] : j < k => todo[a][j][2] < todo[a][k][2]
  /\ \A l \in Locks :
       Level(l) = 6 /\ Promised(a, l) => holder[MakerLock(l[2][1])] = a

OrderOK(a) ==
  /\ stage[a] = "idle" => todo[a] = << >> /\ \A l \in Locks : holder[l] # a
  /\ work[a].task = "approve" => ClimbsOK(a)

OrderInv == \A a \in Actors : OrderOK(a)

LEMMA LevelsOf ==
  /\ \A x : Level(<<"entry", x>>) = 1 /\ Level(<<"manufacturer", x>>) = 2
  /\ \A x : Level(<<"address", x>>) = 3 /\ Level(<<"identity", x>>) = 6
  /\ \A c \in Chassis : Level(<<"row", c>>) = 4
  /\ \A g \in Chargers : Level(<<"row", g>>) = 5
<1>1. \A g \in Chargers : g \notin Chassis
  BY KeysAssumption
<1>2. \A k, x : <<k, x>>[1] = k /\ <<k, x>>[2] = x
  OBVIOUS
<1> QED
  BY <1>1, <1>2 DEF Level

LEMMA LevelBounds == \A l : Level(l) \in 1 .. 6
  BY DEF Level

LEMMA RungBounds == \A s : Rung(s) \in 0 .. 6
  BY DEF Rung

\* The k-th of a set of numbers is less than the n-th if k is less than n.
LEMMA KthGrows ==
  ASSUME NEW S, S \subseteq Nat, IsFiniteSet(S), NEW k \in 1 .. Cardinality(S),
         NEW n \in 1 .. Cardinality(S), k < n
  PROVE  Kth(k, S) < Kth(n, S)
<1> DEFINE x == Kth(k, S)
           y == Kth(n, S)
<1>1. Cardinality(S) \in Nat
  BY FS_CardinalityType
<1>2. x \in S /\ Cardinality(Below(x, S)) = k - 1 /\ y \in S /\ Cardinality(Below(y, S)) = n - 1
  BY KthIn
<1> HIDE DEF x, y
<1>3. x # y
  BY <1>1, <1>2
<1>4. ~(y < x)
  <2>1. ASSUME y < x
        PROVE  FALSE
    <3>1. Cardinality(Below(y, S)) < Cardinality(Below(x, S))
      BY <1>2, <2>1, BelowGrows
    <3> QED
      BY <1>1, <1>2, <3>1
  <2> QED
    BY <2>1
<1>5. x \in Nat /\ y \in Nat
  BY <1>2
<1> QED
  BY <1>3, <1>4, <1>5 DEF x, y

\* A nonempty finite set of numbers has a greatest one.
LEMMA GreatestIn ==
  ASSUME NEW S, S \subseteq Nat, IsFiniteSet(S), S # {}
  PROVE  \E x \in S : \A y \in S : y <= x
<1> DEFINE n == Cardinality(S)
           x == Kth(n, S)
<1>1. n \in Nat /\ n # 0
  BY FS_CardinalityType, FS_EmptySet
<1>2. n \in 1 .. n
  BY <1>1
<1>3. x \in S /\ Cardinality(Below(x, S)) = n - 1
  BY <1>2, KthIn
<1> HIDE DEF x
<1>4. ASSUME NEW y \in S
      PROVE  y <= x
  <2>1. x \in Nat /\ y \in Nat
    BY <1>3
  <2>2. ASSUME x < y
        PROVE  FALSE
    <3>1. Cardinality(Below(x, S)) < Cardinality(Below(y, S))
      BY <1>3, <2>2, BelowGrows
    <3>2. Cardinality(Below(y, S)) \in Nat /\ Cardinality(Below(y, S)) < Cardinality(S)
      BY BelowCounts
    <3> QED
      BY <1>1, <1>3, <3>1, <3>2
  <2> QED
    BY <2>1, <2>2
<1> QED
  BY <1>3, <1>4

-----------------------------------------------------------------------------
(* What keeps the order.                                                     *)

\* A transaction that keeps its place and its locks, and is given none.
LEMMA OrderStays ==
  ASSUME NEW a, OrderOK(a), stage'[a] = stage[a], todo'[a] = todo[a], work'[a] = work[a],
         \A l \in Locks : holder'[l] = a <=> holder[l] = a,
         \A l \in Locks : Level(l) = 6 => MakerLock(l[2][1]) \in Locks
  PROVE  OrderOK(a)'
<1>1. stage[a] = "idle" => todo[a] = << >> /\ \A l \in Locks : holder'[l] # a
  BY DEF OrderOK
<1>2. ClimbsOK(a) => ClimbsOK(a)'
  <2> SUFFICES ASSUME ClimbsOK(a)
               PROVE  ClimbsOK(a)'
    OBVIOUS
  <2>1. \A l \in Locks : Promised(a, l)' => Promised(a, l)
    BY DEF Promised
  <2>2. \A l \in Locks : Level(l) = 6 /\ Promised(a, l)' => holder'[MakerLock(l[2][1])] = a
    BY <2>1 DEF ClimbsOK, MakerLock
  <2> QED
    BY <2>2 DEF ClimbsOK, Level, Locks, Identities, Apis, Serials, SerialApi, IpApi, MakerLock, Promised
<1> QED
  BY <1>1, <1>2 DEF OrderOK, Locks, Identities, Apis, Serials, SerialApi, IpApi

\* Every identity is of a manufacturer that can be locked.
LEMMA IdentityMakers ==
  ASSUME NEW l \in Locks, Level(l) = 6
  PROVE  MakerLock(l[2][1]) \in Locks /\ l[1] = "identity" /\ l[2] \in Identities
<1>1. l \in {"identity"} \X Identities
  <2>1. ASSUME NEW h \in Hardware, l = <<"row", h>>
        PROVE  FALSE
    BY <2>1, LevelsOf DEF Hardware
  <2>2. \A x : l # <<"entry", x>> /\ l # <<"manufacturer", x>> /\ l # <<"address", x>>
    BY LevelsOf
  <2> QED
    BY <2>1, <2>2 DEF Locks
<1>2. l[1] = "identity" /\ l[2] \in Identities
  BY <1>1
<1>3. l[2][1] \in Manufacturers
  BY <1>2 DEF Identities
<1> QED
  BY <1>2, <1>3, TheOtherLocks

LEMMA OthersClimb ==
  ASSUME AddressInv, OrderInv, NEW a \in Actors,
         stage' = [stage EXCEPT ![a] = stage'[a]], todo' = [todo EXCEPT ![a] = todo'[a]],
         work' = [work EXCEPT ![a] = work'[a]],
         \A l \in Locks, b \in Actors \ {a} : holder'[l] = b <=> holder[l] = b,
         OrderOK(a)'
  PROVE  OrderInv'
<1>1. ASSUME NEW b \in Actors, b # a
      PROVE  OrderOK(b)'
  <2>1. stage'[b] = stage[b] /\ todo'[b] = todo[b] /\ work'[b] = work[b]
    BY <1>1 DEF AddressInv, Domains
  <2> QED
    BY <1>1, <2>1, OrderStays, IdentityMakers DEF OrderInv
<1> QED
  BY <1>1 DEF OrderInv

LEMMA GoesOnOrder ==
  ASSUME AddressInv, OrderInv, NEW a \in Actors, NEW s, NEW locks, NEW w, Goto(a, s, locks, w),
         holder' = holder \/ holder' = Released(a), OrderOK(a)'
  PROVE  OrderInv'
<1>1. /\ stage' = [stage EXCEPT ![a] = stage'[a]] /\ todo' = [todo EXCEPT ![a] = todo'[a]]
      /\ work' = [work EXCEPT ![a] = work'[a]]
  BY Went DEF Goto
<1>2. \A l \in Locks, b \in Actors \ {a} : holder'[l] = b <=> holder[l] = b
  BY NobodyAssumption DEF Released
<1> QED
  BY <1>1, <1>2, OthersClimb

\* A transaction that has ended holds nothing.
LEMMA EndOrder ==
  ASSUME AddressInv, OrderInv, NEW a \in Actors, Ended(a)
  PROVE  OrderInv'
<1>1. Goto(a, "idle", << >>, Idle) /\ holder' = Released(a)
  BY DEF Ended
<1>2. work'[a] = Idle /\ todo'[a] = << >>
  BY <1>1, Went
<1>3. \A l \in Locks : holder'[l] # a
  BY <1>1, NobodyAssumption DEF Released
<1>4. \A l \in Locks' : holder'[l] # a
  BY <1>3 DEF Locks, Identities, Apis, Serials, SerialApi, IpApi
<1>5. OrderOK(a)'
  BY <1>2, <1>4 DEF OrderOK, Idle
<1> QED
  BY <1>1, <1>5, GoesOnOrder

LEMMA RollbackOrder ==
  ASSUME AddressInv, OrderInv, NEW a \in Actors, Rollback(a)
  PROVE  OrderInv'
  BY EndOrder DEF Rollback

LEMMA CommitOrder ==
  ASSUME AddressInv, OrderInv, NEW a \in Actors, NEW w, Commits(a, w)
  PROVE  OrderInv'
  BY EndOrder DEF Commits

\* Another transaction may take its locks in any order.
LEMMA FreeOrder ==
  ASSUME AddressInv, OrderInv, NEW a \in Actors, NEW s, NEW locks, NEW w, Goto(a, s, locks, w),
         s # "idle", w.task # "approve", holder' = holder \/ holder' = Released(a)
  PROVE  OrderInv'
<1>1. stage'[a] = s /\ work'[a] = w
  BY Went
<1>2. OrderOK(a)'
  BY <1>1 DEF OrderOK
<1> QED
  BY <1>2, GoesOnOrder

LEMMA OtherTask ==
  ASSUME AddressInv, OrderInv, NEW a \in Actors, stage[a] \notin Rungs
  PROVE  work[a].task # "approve" /\ "task" \in DOMAIN work[a]
         /\ DOMAIN work[a] = DOMAIN Idle
<1>1. OrderOK(a) /\ WorkOK(a)
  BY DEF OrderInv, AddressInv
<1> QED
  BY <1>1, IdleFields DEF OrderOK, ClimbsOK, WorkOK

\* An approval that has its locks asks for those of the next kinds.
LEMMA ClimbsOn ==
  ASSUME AddressInv, OrderInv, NEW a \in Actors, work[a].task = "approve", todo[a] = << >>,
         NEW s \in Rungs, NEW locks, NEW w, Proceeds(a, s, locks, w),
         Rung(stage[a]) < Rung(s),
         \A k \in DOMAIN locks : Level(locks[k]) = Rung(s),
         s # "write" => \A j, k \in DOMAIN locks : j < k => locks[j][2] < locks[k][2],
         \A k \in DOMAIN locks : Level(locks[k]) = 6 => holder[MakerLock(locks[k][2][1])] = a
  PROVE  OrderInv'
<1>1. stage'[a] = s /\ todo'[a] = locks /\ work'[a] = w /\ holder' = holder
      /\ Goto(a, s, locks, w)
  BY Went DEF Proceeds
<1>2. ClimbsOK(a)
  BY DEF OrderInv, OrderOK
<1>3. \A l \in Locks : holder[l] = a => Level(l) < Rung(s)
  BY <1>2, LevelBounds, RungBounds DEF ClimbsOK
<1>4. \A l \in Locks : Level(l) = 6 /\ Promised(a, l)' => holder[MakerLock(l[2][1])] = a
  <2>1. ASSUME NEW l \in Locks, Level(l) = 6, Promised(a, l)'
        PROVE  holder[MakerLock(l[2][1])] = a
    <3>1. CASE holder'[l] = a
      BY <1>1, <1>2, <2>1, <3>1 DEF ClimbsOK, Promised
    <3>2. CASE \E k \in DOMAIN locks : locks[k] = l
      BY <2>1, <3>2
    <3> QED
      BY <1>1, <2>1, <3>1, <3>2 DEF Promised
  <2> QED
    BY <2>1
<1>5. \A l \in Locks : holder[l] = a => Level(l) <= Rung(s) /\ Level(l) # Rung(s)
  BY <1>3, LevelBounds, RungBounds
<1>6. s # "idle"
  BY DEF Rungs
<1>7. ClimbsOK(a)'
  BY <1>1, <1>4, <1>5
     DEF ClimbsOK, Level, Rung, MakerLock, Locks, Identities, Apis, Serials, SerialApi, IpApi
<1>8. OrderOK(a)'
  BY <1>1, <1>6, <1>7 DEF OrderOK
<1> QED
  BY <1>1, <1>8, GoesOnOrder

\* The locks of one kind in ascending order.
LEMMA OrderedClimb ==
  ASSUME NEW S, S \subseteq Nat, IsFiniteSet(S), NEW kind, NEW n,
         \A x \in S : Level(<<kind, x>>) = n
  PROVE  LET locks == Ordered(kind, S)
         IN  /\ \A k \in DOMAIN locks : Level(locks[k]) = n
             /\ \A j, k \in DOMAIN locks : j < k => locks[j][2] < locks[k][2]
<1> DEFINE locks == Ordered(kind, S)
<1>1. Cardinality(S) \in Nat
  BY FS_CardinalityType
<1>2. DOMAIN locks = 1 .. Cardinality(S)
      /\ \A k \in 1 .. Cardinality(S) : locks[k] = <<kind, Kth(k, S)>>
  BY <1>1 DEF Ordered
<1>3. \A k \in 1 .. Cardinality(S) : Kth(k, S) \in S
  BY KthIn
<1>4. \A k \in DOMAIN locks : Level(locks[k]) = n
  BY <1>2, <1>3
<1>5. \A j, k \in DOMAIN locks : j < k => locks[j][2] < locks[k][2]
  <2>1. ASSUME NEW j \in 1 .. Cardinality(S), NEW k \in 1 .. Cardinality(S), j < k
        PROVE  locks[j][2] < locks[k][2]
    <3>1. Kth(j, S) < Kth(k, S)
      BY <2>1, KthGrows
    <3>2. locks[j][2] = Kth(j, S) /\ locks[k][2] = Kth(k, S)
      BY <1>2
    <3> QED
      BY <3>1, <3>2
  <2> QED
    BY <1>2, <2>1
<1> QED
  BY <1>4, <1>5

-----------------------------------------------------------------------------
(* The initial states and the steps.                                         *)

LEMMA InitOrder == Init => OrderInv
<1> SUFFICES ASSUME Init, NEW a \in Actors
             PROVE  OrderOK(a)
  BY DEF OrderInv
<1>1. todo[a] = << >> /\ \A l \in Locks : holder[l] # a
  BY NobodyAssumption DEF Init
<1>2. work[a].task # "approve"
  BY DEF Init, Idle
<1> QED
  BY <1>1, <1>2 DEF OrderOK

\* The lock that is taken is the next of its kind.
LEMMA AcquireOrder ==
  ASSUME AddressInv, IdentityInv, OrderInv, NEW a \in Actors, Acquire(a)
  PROVE  OrderInv'
<1> DEFINE next == Head(todo[a])
           n == Len(todo[a])
<1>1. /\ todo[a] # << >> /\ holder[next] \in {Nobody, a}
      /\ holder' = [holder EXCEPT ![next] = a]
      /\ todo' = [todo EXCEPT ![a] = Tail(todo[a])]
      /\ UNCHANGED <<rows, queue, draft, stage, work>>
  BY DEF Acquire
<1>2. Domains /\ WorkOK(a) /\ OrderOK(a) /\ LocksOK(a)
  BY DEF AddressInv, IdentityInv, OwnOK, OrderInv
<1>3. /\ n \in Nat \ {0} /\ DOMAIN todo[a] = 1 .. n /\ next = todo[a][1]
      /\ DOMAIN Tail(todo[a]) = 1 .. n - 1
      /\ \A k \in 1 .. n - 1 : Tail(todo[a])[k] = todo[a][k + 1]
  <2>1. PICK R : todo[a] \in Seq(R)
    BY <1>2 DEF WorkOK, IsSeq
  <2> QED
    BY <1>1, <2>1
<1>4. next \in Locks
  BY <1>2, <1>3 DEF LocksOK
<1>5. todo'[a] = Tail(todo[a])
  BY <1>1, <1>2 DEF Domains
<1> HIDE DEF next, n
<1>6. \A l \in Locks : holder'[l] = IF l = next THEN a ELSE holder[l]
  BY <1>1, <1>2 DEF Domains
<1>7. \A l \in Locks, b \in Actors \ {a} : holder'[l] = b <=> holder[l] = b
  BY <1>1, <1>6, NobodyAssumption
<1>8. \A l \in Locks : Promised(a, l)' => Promised(a, l)
  <2>1. ASSUME NEW l \in Locks, Promised(a, l)'
        PROVE  Promised(a, l)
    <3>1. CASE holder'[l] = a
      BY <1>3, <1>6, <3>1 DEF Promised
    <3>2. ASSUME NEW k \in 1 .. n - 1, todo[a][k + 1] = l
          PROVE  Promised(a, l)
      <4>1. k + 1 \in 1 .. n
        BY <1>3
      <4> QED
        BY <1>3, <3>2, <4>1 DEF Promised
    <3> QED
      BY <1>3, <1>5, <2>1, <3>1, <3>2 DEF Promised
  <2> QED
    BY <2>1
<1>9. ASSUME work[a].task = "approve"
      PROVE  ClimbsOK(a)'
  <2>1. ClimbsOK(a)
    BY <1>2, <1>9 DEF OrderOK
  <2>2. \A l \in Locks : holder'[l] = a => Level(l) <= Rung(stage[a])
    BY <1>3, <1>6, <2>1, RungBounds DEF ClimbsOK
  <2>3. \A k \in 1 .. n - 1 : k + 1 \in 1 .. n /\ 1 \in 1 .. n /\ 1 < k + 1
    BY <1>3
  <2>4. \A k \in 1 .. n - 1 : Level(todo'[a][k]) = Rung(stage[a])
    BY <1>3, <1>5, <2>1, <2>3 DEF ClimbsOK
  <2>5. ASSUME stage[a] # "write"
        PROVE  /\ \A k \in 1 .. n - 1, l \in Locks :
                    holder'[l] = a /\ Level(l) = Rung(stage[a]) => l[2] < todo'[a][k][2]
               /\ \A j, k \in 1 .. n - 1 : j < k => todo'[a][j][2] < todo'[a][k][2]
    <3>1. \A k \in 1 .. n - 1 : todo[a][1][2] < todo[a][k + 1][2]
      BY <1>3, <2>1, <2>3, <2>5 DEF ClimbsOK
    <3>2. ASSUME NEW k \in 1 .. n - 1, NEW l \in Locks, holder'[l] = a, Level(l) = Rung(stage[a])
          PROVE  l[2] < todo'[a][k][2]
      <4>1. CASE l = next
        BY <1>3, <1>5, <3>1, <4>1
      <4>2. CASE l # next
        BY <1>3, <1>5, <1>6, <2>1, <2>3, <2>5, <3>2, <4>2 DEF ClimbsOK
      <4> QED
        BY <4>1, <4>2
    <3>3. ASSUME NEW j \in 1 .. n - 1, NEW k \in 1 .. n - 1, j < k
          PROVE  todo'[a][j][2] < todo'[a][k][2]
      <4>1. j + 1 \in 1 .. n /\ k + 1 \in 1 .. n /\ j + 1 < k + 1
        BY <1>3, <3>3
      <4> QED
        BY <1>3, <1>5, <2>1, <2>5, <4>1 DEF ClimbsOK
    <3> QED
      BY <3>2, <3>3
  <2>6. \A l \in Locks : Level(l) = 6 /\ Promised(a, l)' => holder'[MakerLock(l[2][1])] = a
    <3>1. ASSUME NEW l \in Locks, Level(l) = 6, Promised(a, l)'
          PROVE  holder'[MakerLock(l[2][1])] = a
      <4>1. holder[MakerLock(l[2][1])] = a /\ MakerLock(l[2][1]) \in Locks
        BY <1>8, <2>1, <3>1, IdentityMakers DEF ClimbsOK
      <4> QED
        BY <1>6, <4>1
    <3> QED
      BY <3>1
  <2>7. /\ stage'[a] = stage[a] /\ stage[a] \in Rungs
        /\ DOMAIN todo'[a] = 1 .. n - 1
    BY <1>1, <1>3, <1>5, <2>1 DEF ClimbsOK
  <2> HIDE DEF n
  <2> QED
    BY <2>2, <2>4, <2>5, <2>6, <2>7
       DEF ClimbsOK, Level, MakerLock, Locks, Identities, Apis, Serials, SerialApi, IpApi
<1>10. stage[a] # "idle"
  <2>1. stage[a] = "idle" => FALSE
    BY <1>1, <1>2 DEF OrderOK
  <2> QED
    BY <2>1
<1>11. OrderOK(a)'
  BY <1>1, <1>9, <1>10 DEF OrderOK
<1>12. /\ stage' = [stage EXCEPT ![a] = stage'[a]] /\ work' = [work EXCEPT ![a] = work'[a]]
       /\ todo' = [todo EXCEPT ![a] = todo'[a]]
  BY <1>1, <1>2, <1>5 DEF Domains
<1> QED
  BY <1>7, <1>11, <1>12, OthersClimb

LEMMA ApproveBeginsOrder ==
  ASSUME AddressInv, OrderInv, NEW a \in Actors, ApproveBegins(a)
  PROVE  OrderInv'
<1>1. /\ stage[a] = "idle"
      /\ \E asked, perms, ips :
           Proceeds(a, "listed", << >>,
             [Idle EXCEPT !.task = "approve", !.batch = asked, !.perms = perms, !.ips = ips])
  BY DEF ApproveBegins, Starts
<1>2. PICK w : Proceeds(a, "listed", << >>, w)
  BY <1>1
<1>3. stage'[a] = "listed" /\ todo'[a] = << >> /\ holder' = holder
      /\ Goto(a, "listed", << >>, w)
  BY <1>2, Went DEF Proceeds
<1>4. \A l \in Locks : holder[l] # a
  BY <1>1 DEF OrderInv, OrderOK
<1>5. \A l \in Locks' : holder'[l] # a /\ ~Promised(a, l)'
  BY <1>3, <1>4 DEF Promised, Locks, Identities, Apis, Serials, SerialApi, IpApi
<1>6. ClimbsOK(a)'
  BY <1>3, <1>5 DEF ClimbsOK, Rungs
<1>7. OrderOK(a)'
  BY <1>3, <1>6 DEF OrderOK
<1> QED
  BY <1>3, <1>7, GoesOnOrder

\* At the stages of an approval somebody else has no order to keep.
LEMMA ClimbsFrom ==
  ASSUME AddressInv, OrderInv, NEW a \in Actors, NEW s \in Rungs, NEW locks, NEW w,
         Proceeds(a, s, locks, w), w.task = work[a].task,
         work[a].task = "approve" => OrderInv'
  PROVE  OrderInv'
<1>1. Goto(a, s, locks, w) /\ holder' = holder
  BY DEF Proceeds
<1>2. s # "idle"
  BY DEF Rungs
<1> QED
  BY <1>1, <1>2, FreeOrder

LEMMA ApproveLocksEntriesOrder ==
  ASSUME AddressInv, OrderInv, NEW a \in Actors, ApproveLocksEntries(a)
  PROVE  OrderInv'
<1> DEFINE found == {e \in Entries : queue[e].state = "pending" /\ queue[e].ip \in work[a].ips}
           w == [work[a] EXCEPT !.locked = found]
           locks == Ordered("entry", found)
<1>1. stage[a] = "listed" /\ todo[a] = << >> /\ Proceeds(a, "entries", locks, w)
  BY DEF ApproveLocksEntries, At
<1>2. found \subseteq Nat /\ IsFiniteSet(found)
  <2>1. found \subseteq Entries
    OBVIOUS
  <2> QED
    BY <2>1, KeysAssumption, FS_Subset
<1>3. w.task = work[a].task
  BY IdleFields DEF AddressInv, WorkOK
<1> HIDE DEF found, w
<1>4. /\ \A k \in DOMAIN locks : Level(locks[k]) = 1
      /\ \A j, k \in DOMAIN locks : j < k => locks[j][2] < locks[k][2]
  <2>1. \A x \in found : Level(<<"entry", x>>) = 1
    BY LevelsOf
  <2> QED
    BY <1>2, <2>1, OrderedClimb
<1> HIDE DEF locks
<1>5. "entries" \in Rungs /\ Rung("entries") = 1 /\ Rung(stage[a]) = 0
  BY <1>1 DEF Rungs, Rung
<1>6. work[a].task = "approve" => OrderInv'
  BY <1>1, <1>4, <1>5, ClimbsOn
<1> QED
  BY <1>1, <1>3, <1>5, <1>6, ClimbsFrom

LEMMA ApproveSelectsOrder ==
  ASSUME AddressInv, OrderInv, NEW a \in Actors, ApproveSelects(a)
  PROVE  OrderInv'
<1> DEFINE locked == {e \in work[a].locked : queue[e].state = "pending" /\ queue[e].ip \in work[a].ips}
           items == locked \cap work[a].batch
           makers == {queue[e].mfr : e \in locked}
           w == [work[a] EXCEPT !.batch = items, !.locked = {}, !.ips = {}]
           locks == Ordered("manufacturer", makers)
<1>1. /\ stage[a] = "entries" /\ todo[a] = << >>
      /\ Rollback(a) \/ Proceeds(a, "makers", locks, w)
  BY DEF ApproveSelects, At
<1>2. makers \subseteq Nat /\ IsFiniteSet(makers)
  <2>1. \A e \in locked : e \in Entries /\ queue[e].state = "pending"
    BY <1>1 DEF AddressInv, WorkOK, ApprovalOK
  <2>2. \A e \in locked : queue[e] \in EntryType /\ queue[e].state # "absent"
    BY <2>1 DEF AddressInv, Domains
  <2>3. makers \subseteq Manufacturers
    BY <2>2 DEF EntryType
  <2> QED
    BY <2>3, KeysAssumption, FS_Subset
<1>3. w.task = work[a].task
  BY IdleFields DEF AddressInv, WorkOK
<1> HIDE DEF makers, w
<1>4. /\ \A k \in DOMAIN locks : Level(locks[k]) = 2
      /\ \A j, k \in DOMAIN locks : j < k => locks[j][2] < locks[k][2]
  <2>1. \A x \in makers : Level(<<"manufacturer", x>>) = 2
    BY LevelsOf
  <2> QED
    BY <1>2, <2>1, OrderedClimb
<1> HIDE DEF locks
<1>5. "makers" \in Rungs /\ Rung("makers") = 2 /\ Rung(stage[a]) = 1
  BY <1>1 DEF Rungs, Rung
<1>6. ASSUME Proceeds(a, "makers", locks, w)
      PROVE  OrderInv'
  <2>1. work[a].task = "approve" => OrderInv'
    BY <1>1, <1>4, <1>5, <1>6, ClimbsOn
  <2> QED
    BY <1>3, <1>5, <1>6, <2>1, ClimbsFrom
<1> QED
  BY <1>1, <1>6, RollbackOrder

LEMMA ApproveLocksAddressesOrder ==
  ASSUME AddressInv, IdentityInv, OrderInv, NEW a \in Actors, ApproveLocksAddresses(a)
  PROVE  OrderInv'
<1> DEFINE ips == {queue[e].ip : e \in work[a].batch}
           locks == Ordered("address", ips)
<1>1. stage[a] = "makers" /\ todo[a] = << >> /\ Proceeds(a, "addresses", locks, work[a])
  BY DEF ApproveLocksAddresses, At
<1>2. ips \subseteq Nat /\ IsFiniteSet(ips)
  <2>1. \A e \in work[a].batch : queue[e].ip \in Addresses
    BY <1>1, BatchKnown
  <2>2. ips \subseteq Addresses
    BY <2>1
  <2> QED
    BY <2>2, KeysAssumption, FS_Subset
<1> HIDE DEF ips
<1>3. /\ \A k \in DOMAIN locks : Level(locks[k]) = 3
      /\ \A j, k \in DOMAIN locks : j < k => locks[j][2] < locks[k][2]
  <2>1. \A x \in ips : Level(<<"address", x>>) = 3
    BY LevelsOf
  <2> QED
    BY <1>2, <2>1, OrderedClimb
<1> HIDE DEF locks
<1>4. "addresses" \in Rungs /\ Rung("addresses") = 3 /\ Rung(stage[a]) = 2
  BY <1>1 DEF Rungs, Rung
<1>5. work[a].task = "approve" => OrderInv'
  BY <1>1, <1>3, <1>4, ClimbsOn
<1> QED
  BY <1>1, <1>4, <1>5, ClimbsFrom

LEMMA ApproveLocksChassisOrder ==
  ASSUME AddressInv, OrderInv, NEW a \in Actors, ApproveLocksChassis(a)
  PROVE  OrderInv'
<1> DEFINE found == {c \in Chassis : Wanted(work[a].batch, c)}
           w == [work[a] EXCEPT !.locked = found]
           locks == Ordered("row", found)
<1>1. stage[a] = "addresses" /\ todo[a] = << >> /\ Proceeds(a, "chassis", locks, w)
  BY DEF ApproveLocksChassis, At
<1>2. found \subseteq Nat /\ IsFiniteSet(found) /\ found \subseteq Chassis
  <2>1. found \subseteq Chassis
    OBVIOUS
  <2> QED
    BY <2>1, KeysAssumption, FS_Subset
<1>3. w.task = work[a].task
  BY IdleFields DEF AddressInv, WorkOK
<1> HIDE DEF found, w
<1>4. /\ \A k \in DOMAIN locks : Level(locks[k]) = 4
      /\ \A j, k \in DOMAIN locks : j < k => locks[j][2] < locks[k][2]
  <2>1. \A x \in found : Level(<<"row", x>>) = 4
    BY <1>2, LevelsOf
  <2> QED
    BY <1>2, <2>1, OrderedClimb
<1> HIDE DEF locks
<1>5. "chassis" \in Rungs /\ Rung("chassis") = 4 /\ Rung(stage[a]) = 3
  BY <1>1 DEF Rungs, Rung
<1>6. work[a].task = "approve" => OrderInv'
  BY <1>1, <1>4, <1>5, ClimbsOn
<1> QED
  BY <1>1, <1>3, <1>5, <1>6, ClimbsFrom

LEMMA ApproveLocksChargersOrder ==
  ASSUME AddressInv, OrderInv, NEW a \in Actors, ApproveLocksChargers(a)
  PROVE  OrderInv'
<1> DEFINE found == {g \in Chargers : Wanted(work[a].batch, g)}
           w == [work[a] EXCEPT !.locked = @ \cup found]
           locks == Ordered("row", found)
<1>1. stage[a] = "chassis" /\ todo[a] = << >> /\ Proceeds(a, "chargers", locks, w)
  BY DEF ApproveLocksChargers, At
<1>2. found \subseteq Nat /\ IsFiniteSet(found) /\ found \subseteq Chargers
  <2>1. found \subseteq Chargers
    OBVIOUS
  <2> QED
    BY <2>1, KeysAssumption, FS_Subset
<1>3. w.task = work[a].task
  BY IdleFields DEF AddressInv, WorkOK
<1> HIDE DEF found, w
<1>4. /\ \A k \in DOMAIN locks : Level(locks[k]) = 5
      /\ \A j, k \in DOMAIN locks : j < k => locks[j][2] < locks[k][2]
  <2>1. \A x \in found : Level(<<"row", x>>) = 5
    BY <1>2, LevelsOf
  <2> QED
    BY <1>2, <2>1, OrderedClimb
<1> HIDE DEF locks
<1>5. "chargers" \in Rungs /\ Rung("chargers") = 5 /\ Rung(stage[a]) = 4
  BY <1>1 DEF Rungs, Rung
<1>6. work[a].task = "approve" => OrderInv'
  BY <1>1, <1>4, <1>5, ClimbsOn
<1> QED
  BY <1>1, <1>3, <1>5, <1>6, ClimbsFrom

\* The identities of a plan are those of manufacturers it has locked.
LEMMA ApprovePlansOrder ==
  ASSUME AddressInv, IdentityInv, OrderInv, NEW a \in Actors, ApprovePlans(a)
  PROVE  OrderInv'
<1> DEFINE items == work[a].batch
           L == Inventory(a)
           named == {f \in items : ~IsCharger(f)}
           identities == {IdentityOf(e, L) : e \in named}
           locks == [k \in 1..Cardinality(identities) |-> <<"identity", SetToSeq(identities)[k]>>]
<1>1. /\ stage[a] = "chargers" /\ todo[a] = << >>
      /\ Rollback(a) \/ Proceeds(a, "write", locks, work[a])
  BY DEF ApprovePlans, At
<1>2. \A e \in items :
        /\ e \in Entries /\ queue[e].serial \in Serials
        /\ queue[e].api \in {p.api : p \in Payloads} \cup {Blank}
        /\ holder[MakerLock(queue[e].mfr)] = a
  BY <1>1, BatchKnown DEF Late
<1>3. \A h \in L : rows[h] \in RowType(h)
  BY <1>1, InventoryHeld DEF Late
<1>4. \A i \in identities : holder[MakerLock(i[1])] = a
  <2>1. ASSUME NEW e \in items, ~IsCharger(e)
        PROVE  IdentityOf(e, L)[1] = queue[e].mfr
    BY <1>2, <1>3, <2>1, IdentityTyped
  <2> QED
    BY <1>2, <2>1
<1>5. IsFiniteSet(identities)
  <2> DEFINE f == [e \in named |-> IdentityOf(e, L)]
  <2>1. named \subseteq Entries
    BY <1>2
  <2>2. IsFiniteSet(named)
    BY <2>1, KeysAssumption, FS_Subset
  <2>3. IsFiniteSet({f[e] : e \in named})
    <3> HIDE DEF f, named
    <3> QED
      BY <2>2, ValuesFinite
  <2>4. {f[e] : e \in named} = identities
    OBVIOUS
  <2> QED
    BY <2>3, <2>4
<1> HIDE DEF identities
<1>6. \A k \in DOMAIN locks : \E i \in identities : locks[k] = <<"identity", i>>
  BY <1>5, ListedOnce
<1> HIDE DEF locks
<1>7. \A k \in DOMAIN locks : Level(locks[k]) = 6 /\ holder[MakerLock(locks[k][2][1])] = a
  <2>1. ASSUME NEW i \in identities, NEW l, l = <<"identity", i>>
        PROVE  Level(l) = 6 /\ holder[MakerLock(l[2][1])] = a
    <3>1. l[2] = i
      BY <2>1
    <3> QED
      BY <1>4, <2>1, <3>1, LevelsOf
  <2> QED
    BY <1>6, <2>1
<1>8. "write" \in Rungs /\ Rung("write") = 6 /\ Rung(stage[a]) = 5
  BY <1>1 DEF Rungs, Rung
<1>9. ASSUME Proceeds(a, "write", locks, work[a])
      PROVE  OrderInv'
  <2>1. work[a].task = "approve" => OrderInv'
    BY <1>1, <1>7, <1>8, <1>9, ClimbsOn
  <2> QED
    BY <1>8, <1>9, <2>1, ClimbsFrom
<1> QED
  BY <1>1, <1>9, RollbackOrder

\* The other transactions: they begin with a task of their own, keep it, and end.
LEMMA OthersBeginOrder ==
  ASSUME AddressInv, OrderInv, NEW a \in Actors,
         SyncBegins(a) \/ RealtimeBegins(a) \/ PromoteBegins(a) \/ ChargerBegins(a) \/ QueueUpserts(a)
  PROVE  OrderInv'
<1>0. "task" \in DOMAIN Idle
  BY IdleFields
<1>1. CASE SyncBegins(a)
  <2>1. \E inv, locks : Proceeds(a, "index", locks,
                                 [Idle EXCEPT !.task = "sync", !.inventory = inv])
    BY <1>1 DEF SyncBegins
  <2>2. \A inv : [Idle EXCEPT !.task = "sync", !.inventory = inv].task = "sync"
    BY <1>0
  <2>3. \E locks, w : Proceeds(a, "index", locks, w) /\ w.task = "sync"
    BY <2>1, <2>2
  <2> QED
    BY <2>3, FreeOrder DEF Proceeds
<1>2. CASE RealtimeBegins(a)
  <2>1. PICK p : Upsert(a, [Idle EXCEPT !.task = "realtime", !.payload = p]) /\ holder' = holder
    BY <1>2 DEF RealtimeBegins
  <2> DEFINE w == [Idle EXCEPT !.task = "realtime", !.payload = p]
  <2>2. w.task = "realtime" /\ "task" \in DOMAIN w
    BY IdleFields
  <2> HIDE DEF w
  <2>3. \E s \in {"insert", "selected"} : \E locks, u : Goto(a, s, locks, u) /\ u.task = "realtime"
    <3>1. CASE Goto(a, "insert", InsertLocks(w.payload), w)
      BY <2>2, <3>1
    <3>2. ASSUME NEW c \in SameApi(w.payload),
                 Goto(a, "selected", << <<"row", c>> >>, [w EXCEPT !.target = c])
          PROVE  \E s \in {"insert", "selected"} : \E locks, u :
                   Goto(a, s, locks, u) /\ u.task = "realtime"
      <4>1. [w EXCEPT !.target = c].task = "realtime"
        BY <2>2
      <4> QED
        BY <3>2, <4>1
    <3> QED
      BY <2>1, <3>1, <3>2 DEF Upsert, w
  <2> QED
    BY <2>1, <2>3, FreeOrder
<1>3. CASE PromoteBegins(a)
  <2>1. \E s \in {"check", "insert"} : \E p, locks :
          Proceeds(a, s, locks, [Idle EXCEPT !.task = "promote", !.payload = p])
    BY <1>3 DEF PromoteBegins
  <2>2. \A p : [Idle EXCEPT !.task = "promote", !.payload = p].task = "promote"
    BY <1>0
  <2>3. \E s \in {"check", "insert"} : \E locks, w :
          Proceeds(a, s, locks, w) /\ w.task = "promote"
    BY <2>1, <2>2
  <2> QED
    BY <2>3, FreeOrder DEF Proceeds
<1>4. CASE ChargerBegins(a)
  <2>1. \E g, p, locks :
          Proceeds(a, "edit", locks,
                   [Idle EXCEPT !.task = "charger", !.target = g, !.payload = p])
    BY <1>4 DEF ChargerBegins
  <2>2. \A g, p : [Idle EXCEPT !.task = "charger", !.target = g, !.payload = p].task = "charger"
    BY <1>0
  <2>3. \E locks, w : Proceeds(a, "edit", locks, w) /\ w.task = "charger"
    BY <2>1, <2>2
  <2> QED
    BY <2>3, FreeOrder DEF Proceeds
<1>5. CASE QueueUpserts(a)
  <2> DEFINE w(p, e, s) == [Idle EXCEPT !.task = "queue", !.payload = p, !.batch = {e},
                                        !.verdict = s]
  <2>1. holder' = holder /\ \E p, e, s : Goto(a, "classify", << >>, w(p, e, s))
    BY <1>5 DEF QueueUpserts
  <2>2. \A p, e, s : w(p, e, s).task = "queue"
    BY <1>0
  <2> HIDE DEF w
  <2>3. \E u : Goto(a, "classify", << >>, u) /\ u.task = "queue"
    BY <2>1, <2>2
  <2> QED
    BY <2>1, <2>3, FreeOrder
<1> QED
  BY <1>1, <1>2, <1>3, <1>4, <1>5

\* A step of a transaction that is no approval and does not become one.
LEMMA KeepsTask ==
  ASSUME AddressInv, OrderInv, NEW a \in Actors, stage[a] \notin Rungs,
         NEW s, s # "idle", NEW locks, NEW w, Goto(a, s, locks, w), w.task = work[a].task,
         holder' = holder \/ holder' = Released(a)
  PROVE  OrderInv'
  BY OtherTask, FreeOrder

LEMMA SyncOrder ==
  ASSUME AddressInv, OrderInv, NEW a \in Actors,
         SyncIndexes(a) \/ SyncDecides(a) \/ SyncStores(a) \/ SyncCommits(a)
  PROVE  OrderInv'
<1>1. stage[a] \in {"index", "payload", "store"}
  BY DEF SyncIndexes, SyncDecides, SyncStores, SyncCommits, At
<1>2. stage[a] \notin Rungs
  BY <1>1 DEF Rungs
<1>3. "task" \in DOMAIN work[a]
  BY <1>2, OtherTask
<1>4. CASE SyncIndexes(a)
  <2>1. PICK w : Goto(a, "payload", << >>, w) /\ w.task = work[a].task /\ holder' = holder
    BY <1>3, <1>4 DEF SyncIndexes, Proceeds
  <2> QED
    BY <1>2, <2>1, KeepsTask
<1>5. CASE SyncDecides(a)
  <2> DEFINE inv == work[a].inventory
             index == work[a].index
             p == Head(inv)
             v == CheckDevice(p, index)
             c == v.chassis
             foreign == c # Nobody /\ index[c].mfr # p.mfr
             skip == [work[a] EXCEPT !.inventory = Tail(@)]
             next == [work[a] EXCEPT !.inventory = Tail(@), !.payload = p, !.target = c,
                                     !.verdict = v.kind]
             known == << <<"address", index[c].ip>>, <<"row", c>> >>
             moved == << <<"address", p.ip>>, <<"row", c>> >>
             new == << <<"address", p.ip>>, <<"identity", <<p.mfr, p.api>> >> >>
  <2>1. /\ v.kind \in {"new", "error", "conflict", "duplicate", "moved"}
        /\ v.kind \in {"new", "error"} => c = Nobody
    BY VerdictSays
  <2>2. SyncDecides(a) => CASE v.kind = "error" -> Rollback(a)
           [] v.kind = "conflict" \/ foreign -> Proceeds(a, "payload", << >>, skip)
           [] v.kind = "duplicate" /\ ~foreign -> Proceeds(a, "store", known, next)
           [] v.kind = "moved" /\ ~foreign -> Proceeds(a, "store", moved, next)
           [] v.kind = "new" -> Proceeds(a, "store", new, next)
    BY DEF SyncDecides
  <2>3. skip.task = work[a].task /\ next.task = work[a].task
    BY <1>3
  <2> HIDE DEF v, c, foreign, skip, next, known, moved, new
  <2>4. \/ Rollback(a)
        \/ Proceeds(a, "payload", << >>, skip)
        \/ Proceeds(a, "store", known, next)
        \/ Proceeds(a, "store", moved, next)
        \/ Proceeds(a, "store", new, next)
    BY <1>5, <2>1, <2>2
  <2>5. \/ Rollback(a)
        \/ \E s \in {"payload", "store"} : \E locks : \E w \in {skip, next} : Proceeds(a, s, locks, w)
    BY <2>4
  <2>6. ASSUME NEW s \in {"payload", "store"}, NEW locks, NEW w \in {skip, next},
               Proceeds(a, s, locks, w)
        PROVE  OrderInv'
    <3>1. w.task = work[a].task /\ Goto(a, s, locks, w) /\ holder' = holder
      BY <2>3, <2>6 DEF Proceeds
    <3> QED
      BY <1>2, <3>1, KeepsTask
  <2> QED
    BY <2>5, <2>6, RollbackOrder
<1>6. CASE SyncStores(a)
  <2>1. \/ Rollback(a)
        \/ \E known : /\ Goto(a, "payload", << >>,
                            [work[a] EXCEPT !.index = known, !.payload = NoPayload,
                                            !.target = Nobody, !.verdict = "none"])
                      /\ holder' = holder
    BY <1>6 DEF SyncStores
  <2>2. \A known : [work[a] EXCEPT !.index = known, !.payload = NoPayload,
                                   !.target = Nobody, !.verdict = "none"].task = work[a].task
    BY <1>3
  <2>3. Rollback(a) \/ \E w : /\ Goto(a, "payload", << >>, w) /\ w.task = work[a].task
                              /\ holder' = holder
    BY <2>1, <2>2
  <2> QED
    BY <1>2, <2>3, KeepsTask, RollbackOrder
<1>7. CASE SyncCommits(a)
  BY <1>7, CommitOrder DEF SyncCommits
<1> QED
  BY <1>4, <1>5, <1>6, <1>7

LEMMA RowOrder ==
  ASSUME AddressInv, OrderInv, NEW a \in Actors,
         \/ RealtimeSelected(a) \/ RealtimeUpdates(a) \/ RealtimeInserts(a)
         \/ PromoteChecks(a) \/ PromoteInserts(a) \/ ChargerSaves(a)
         \/ QueueClassifies(a) \/ QueueRecords(a)
  PROVE  OrderInv'
<1>1. stage[a] \in {"selected", "update", "insert", "check", "edit", "classify", "record"}
  BY DEF RealtimeSelected, RealtimeUpdates, RealtimeInserts, PromoteChecks, PromoteInserts,
         ChargerSaves, QueueClassifies, QueueRecords, At
<1>2. stage[a] \notin Rungs
  BY <1>1 DEF Rungs
<1>3. "task" \in DOMAIN work[a]
  BY <1>2, OtherTask
<1>4. CASE RealtimeSelected(a)
  <2>1. \/ Rollback(a)
        \/ \E s \in {"update", "insert"} : \E locks, w :
             Goto(a, s, locks, w) /\ w.task = work[a].task /\ holder' = holder
    BY <1>3, <1>4 DEF RealtimeSelected, Proceeds
  <2> QED
    BY <1>2, <2>1, KeepsTask, RollbackOrder
<1>5. CASE RealtimeUpdates(a)
  BY <1>5, CommitOrder, RollbackOrder DEF RealtimeUpdates
<1>6. CASE RealtimeInserts(a)
  <2> DEFINE p == work[a].payload
             c == NextKey
             r == NewChassis(p.mfr, p.api, Blank, p.ip, "seen")
             retry(d) == [work[a] EXCEPT !.target = d, !.verdict = "retried"]
  <2>1. \/ Commits(a, Write(c, r))
        \/ /\ \E d \in SameApi(p) : Goto(a, "selected", << <<"row", d>> >>, retry(d))
           /\ holder' = Released(a)
        \/ Rollback(a)
    BY <1>6 DEF RealtimeInserts
  <2>2. \A d : retry(d).task = work[a].task
    BY <1>3
  <2> HIDE DEF c, r, retry
  <2> QED
    BY <1>2, <2>1, <2>2, KeepsTask, CommitOrder, RollbackOrder
<1>7. CASE PromoteChecks(a)
  <2>1. \/ Rollback(a)
        \/ \E locks : Goto(a, "insert", locks, work[a]) /\ holder' = holder
    BY <1>7 DEF PromoteChecks, Proceeds
  <2> QED
    BY <1>2, <2>1, KeepsTask, RollbackOrder
<1>8. CASE PromoteInserts(a)
  BY <1>8, CommitOrder, RollbackOrder DEF PromoteInserts
<1>9. CASE ChargerSaves(a)
  BY <1>9, CommitOrder, RollbackOrder DEF ChargerSaves
<1>10. CASE QueueClassifies(a)
  <2>1. \E w : Goto(a, "record", << >>, w) /\ w.task = work[a].task /\ holder' = holder
    BY <1>3, <1>10 DEF QueueClassifies, Proceeds
  <2> QED
    BY <1>2, <2>1, KeepsTask
<1>11. CASE QueueRecords(a)
  BY <1>11, EndOrder DEF QueueRecords
<1> QED
  BY <1>4, <1>5, <1>6, <1>7, <1>8, <1>9, <1>10, <1>11

LEMMA NextOrder ==
  ASSUME AddressInv, IdentityInv, OrderInv, [Next]_vars
  PROVE  OrderInv'
<1>1. ASSUME UNCHANGED <<holder, todo, stage, work>>
      PROVE  OrderInv'
  BY <1>1, OrderStays, IdentityMakers DEF OrderInv
<1>2. ASSUME NEW a \in Actors, Begins(a)
      PROVE  OrderInv'
  BY <1>2, ApproveBeginsOrder, OthersBeginOrder DEF Begins
<1>3. ASSUME NEW a \in Actors, Proceed(a)
      PROVE  OrderInv'
  <2>1. CASE \/ ApproveLocksEntries(a) \/ ApproveSelects(a) \/ ApproveLocksAddresses(a)
             \/ ApproveLocksChassis(a) \/ ApproveLocksChargers(a) \/ ApprovePlans(a)
    BY <2>1, ApproveLocksEntriesOrder, ApproveSelectsOrder, ApproveLocksAddressesOrder,
       ApproveLocksChassisOrder, ApproveLocksChargersOrder, ApprovePlansOrder
  <2>2. CASE ApproveWrites(a)
    BY <2>2, CommitOrder, RollbackOrder DEF ApproveWrites
  <2> QED
    BY <1>3, <2>1, <2>2, SyncOrder, RowOrder DEF Proceed
<1>4. ASSUME NEW a \in Actors, DeadlockVictim(a) \/ Dies(a)
      PROVE  OrderInv'
  BY <1>4, RollbackOrder DEF DeadlockVictim, Dies
<1>5. ASSUME NEW e \in Entries, Dismiss(e)
      PROVE  OrderInv'
  BY <1>1, <1>5 DEF Dismiss
<1>6. CASE UNCHANGED vars
  BY <1>1, <1>6 DEF vars
<1> QED
  BY <1>2, <1>3, <1>4, <1>5, <1>6, AcquireOrder DEF Next

-----------------------------------------------------------------------------
(* Among approvals that wait for each other there is one that has come       *)
(* furthest, and nobody is left to hold what it waits for.                   *)

LEMMA NoCycle ==
  ASSUME AddressInv, IdentityInv, OrderInv, NEW S \in SUBSET Actors, S # {},
         \A a \in S : /\ work[a].task = "approve" /\ Waits(a)
                      /\ holder[Head(todo[a])] \in S
  PROVE  FALSE
<1> DEFINE next(a) == Head(todo[a])
           rung(a) == Rung(stage[a])
<1>1. ASSUME NEW a \in S
      PROVE  /\ next(a) \in Locks /\ Level(next(a)) = rung(a) /\ 1 \in DOMAIN todo[a]
             /\ next(a) = todo[a][1] /\ Promised(a, next(a)) /\ ClimbsOK(a)
             /\ holder[next(a)] \in S /\ holder[next(a)] # a
  <2>1. OrderOK(a) /\ LocksOK(a) /\ WorkOK(a)
    BY DEF OrderInv, IdentityInv, OwnOK, AddressInv
  <2>2. 1 \in DOMAIN todo[a] /\ next(a) = todo[a][1]
    <3>1. PICK R : todo[a] \in Seq(R)
      BY <2>1 DEF WorkOK, IsSeq
    <3> QED
      BY <3>1 DEF Waits
  <2> HIDE DEF next
  <2>3. ClimbsOK(a)
    BY <2>1 DEF OrderOK
  <2> QED
    BY <2>1, <2>2, <2>3 DEF LocksOK, ClimbsOK, Promised, Waits, next
<1> HIDE DEF next
<1>2. ASSUME NEW a \in S
      PROVE  rung(holder[next(a)]) >= rung(a)
  <2>1. holder[next(a)] \in S /\ next(a) \in Locks
    BY <1>1
  <2>2. Level(next(a)) <= rung(holder[next(a)])
    BY <1>1, <2>1 DEF ClimbsOK
  <2> QED
    BY <1>1, <2>2, RungBounds, LevelBounds
\* Nobody waits for the identity of a manufacturer that another one has locked.
<1>3. ASSUME NEW a \in S
      PROVE  rung(a) \in 1 .. 5
  <2>1. rung(a) \in 1 .. 6
    BY <1>1, LevelBounds
  <2>2. ASSUME rung(a) = 6
        PROVE  FALSE
    <3>1. PICK b : b = holder[next(a)] /\ b \in S /\ b # a
      BY <1>1
    <3>2. Promised(b, next(a)) /\ Level(next(a)) = 6 /\ next(a) \in Locks
      BY <1>1, <2>2, <3>1 DEF Promised
    <3>3. /\ holder[MakerLock(next(a)[2][1])] = a
          /\ holder[MakerLock(next(a)[2][1])] = b
      BY <1>1, <3>1, <3>2 DEF ClimbsOK
    <3> QED
      BY <3>1, <3>3
  <2> QED
    BY <2>1, <2>2
<1> HIDE DEF rung
<1>4. PICK top \in 1 .. 5 : \A a \in S : rung(a) <= top /\ \E b \in S : rung(b) = top
  <2> DEFINE T == {rung(a) : a \in S}
  <2>1. T \subseteq 1 .. 5 /\ T # {}
    BY <1>3
  <2>2. IsFiniteSet(1 .. 5)
    <3>1. \A x, y \in Int : IsFiniteSet(x .. y)
      BY FS_Interval
    <3>2. 1 \in Int /\ 5 \in Int
      OBVIOUS
    <3> QED
      BY <3>1, <3>2
  <2>3. IsFiniteSet(T) /\ T \subseteq Nat
    BY <2>1, <2>2, FS_Subset
  <2> HIDE DEF T
  <2>4. PICK x \in T : \A y \in T : y <= x
    BY <2>1, <2>3, GreatestIn
  <2>5. x \in 1 .. 5
    BY <2>1
  <2> QED
    BY <2>4, <2>5 DEF T
<1> DEFINE keys == {next(a)[2] : a \in {b \in S : rung(b) = top}}
           domain == IF top = 1 THEN Entries ELSE IF top = 2 THEN Manufacturers
                     ELSE IF top = 3 THEN Addresses ELSE Hardware
<1>5. ASSUME NEW a \in S, rung(a) = top
      PROVE  next(a)[2] \in domain
  <2>1. next(a) \in Locks /\ Level(next(a)) = top
    BY <1>1, <1>5 DEF rung
  <2>2. \A i : next(a) # <<"identity", i>>
    BY <2>1, LevelsOf
  <2>3. \/ \E e \in Entries : next(a) = <<"entry", e>>
        \/ \E m \in Manufacturers : next(a) = <<"manufacturer", m>>
        \/ \E i \in Addresses : next(a) = <<"address", i>>
        \/ \E h \in Hardware : next(a) = <<"row", h>>
    BY <2>1, <2>2 DEF Locks
  <2>4. \A h \in Hardware : Level(<<"row", h>>) \in {4, 5}
    BY LevelsOf DEF Hardware
  <2> QED
    BY <2>1, <2>3, <2>4, LevelsOf
<1>6. domain \subseteq Nat /\ IsFiniteSet(domain)
  <2>1. Hardware \subseteq Nat /\ IsFiniteSet(Hardware)
    BY KeysAssumption, FS_Union DEF Hardware
  <2> QED
    BY <2>1, KeysAssumption
<1> HIDE DEF domain
<1>7. keys \subseteq Nat /\ IsFiniteSet(keys) /\ keys # {}
  <2>1. keys \subseteq domain
    BY <1>5
  <2>2. keys # {}
    BY <1>4
  <2> QED
    BY <1>6, <2>1, <2>2, FS_Subset
<1> HIDE DEF keys
<1>8. PICK key \in keys : \A k \in keys : k <= key
  BY <1>7, GreatestIn
<1>9. PICK a \in S : rung(a) = top /\ next(a)[2] = key
  BY <1>8 DEF keys
<1>10. PICK b : b = holder[next(a)] /\ b \in S
  BY <1>1
<1>11. rung(b) = top
  <2>1. rung(b) >= top /\ rung(b) <= top /\ rung(b) \in 1 .. 5
    BY <1>2, <1>3, <1>4, <1>9, <1>10
  <2> QED
    BY <2>1
<1>12. key < next(b)[2]
  <2>1. /\ ClimbsOK(b) /\ next(b) = todo[b][1] /\ 1 \in DOMAIN todo[b]
        /\ next(a) \in Locks /\ Level(next(a)) = top
    BY <1>1, <1>9, <1>10 DEF rung
  <2>2. stage[b] # "write" /\ Rung(stage[b]) = top
    BY <1>4, <1>11 DEF rung, Rung
  <2> QED
    BY <1>9, <1>10, <2>1, <2>2 DEF ClimbsOK
<1>13. next(b)[2] \in keys /\ next(b)[2] \in Nat /\ key \in Nat
  BY <1>7, <1>8, <1>10, <1>11 DEF keys
<1> QED
  BY <1>8, <1>12, <1>13

\* Approvals never wait for each other in a circle, however many there are and whatever they
\* lock: entries, manufacturers, addresses, chassis and chargers come in one order, and the
\* unique indexes, which have none, are those of manufacturers that only one of them has.
THEOREM ApprovalsGoOn == Spec => []ApprovalsNeverDeadlock
<1>1. Init => AddressInv /\ IdentityInv /\ OrderInv
  BY InitEstablishes, InitIdentity, InitOrder
<1>2. AddressInv /\ IdentityInv /\ OrderInv /\ [Next]_vars =>
        (AddressInv /\ IdentityInv /\ OrderInv)'
  BY NextKeeps, NextIdentity, NextOrder
<1>3. AddressInv /\ IdentityInv /\ OrderInv => ApprovalsNeverDeadlock
  <2>1. SUFFICES ASSUME AddressInv, IdentityInv, OrderInv,
                        NEW S \in SUBSET {a \in Actors : work[a].task = "approve"}, S # {},
                        \A a \in S : Waits(a) /\ holder[Head(todo[a])] \in S
                 PROVE  FALSE
    BY DEF ApprovalsNeverDeadlock
  <2>2. S \in SUBSET Actors /\ \A a \in S : work[a].task = "approve"
    BY <2>1
  <2> QED
    BY <2>1, <2>2, NoCycle
<1> QED
  BY <1>1, <1>2, <1>3, PTL DEF Spec
=============================================================================
