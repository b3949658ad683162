----------------------- MODULE DiscoveryApproval_proofs -----------------------
(***************************************************************************)
(* Proofs about DiscoveryApproval: chassis and chargers never share an     *)
(* address, and what a review decided stays, for any number of             *)
(* transactions, rows, entries and payloads.                               *)
(*                                                                         *)
(* The save hook compares an address with the rows the transaction sees.   *)
(* All transactions but the synchronization commit in the step in which    *)
(* they compare; a synchronization keeps what it compared in its draft,    *)
(* and what carries it over to its commit is that it holds the lock of the *)
(* address, as does everybody who writes a charger.                        *)
(***************************************************************************)
EXTENDS DiscoveryApproval, FiniteSetTheorems, SequenceTheorems, TLAPS

-----------------------------------------------------------------------------
(* Locks in ascending order. *)

\* The numbers of S below x.
Below(x, S) == {m \in S : m < x}

LEMMA BelowCounts ==
  ASSUME NEW S, S \subseteq Nat, IsFiniteSet(S), NEW x \in S
  PROVE  /\ IsFiniteSet(Below(x, S))
         /\ Cardinality(Below(x, S)) \in Nat
         /\ Cardinality(S) \in Nat
         /\ Cardinality(Below(x, S)) < Cardinality(S)
<1>1. Below(x, S) \subseteq S /\ x \notin Below(x, S)
  BY DEF Below
<1>2. Below(x, S) # S
  BY <1>1
<1>3. IsFiniteSet(Below(x, S))
  BY <1>1, FS_Subset
<1>4. Cardinality(Below(x, S)) \in Nat /\ Cardinality(S) \in Nat
  BY <1>3, FS_CardinalityType
<1>5. Cardinality(Below(x, S)) <= Cardinality(S) /\ Cardinality(Below(x, S)) # Cardinality(S)
  BY <1>1, <1>2, FS_Subset
<1> QED
  BY <1>3, <1>4, <1>5

LEMMA BelowGrows ==
  ASSUME NEW S, S \subseteq Nat, IsFiniteSet(S), NEW x \in S, NEW y \in S, x < y
  PROVE  Cardinality(Below(x, S)) < Cardinality(Below(y, S))
<1>1. Below(x, S) \subseteq Below(y, S) /\ x \in Below(y, S) /\ x \notin Below(x, S)
  <2>1. ASSUME NEW m \in S, m < x
        PROVE  m < y
    BY <2>1
  <2>2. ~(x < x)
    OBVIOUS
  <2> QED
    BY <2>1, <2>2 DEF Below
<1>2. /\ IsFiniteSet(Below(y, S))
      /\ Cardinality(Below(x, S)) \in Nat /\ Cardinality(Below(y, S)) \in Nat
  BY BelowCounts
<1>3. /\ Cardinality(Below(x, S)) <= Cardinality(Below(y, S))
      /\ Cardinality(Below(x, S)) # Cardinality(Below(y, S))
  BY <1>1, <1>2, FS_Subset
<1> QED
  BY <1>2, <1>3

\* Every key of a set has its lock in the sequence.
LEMMA OrderedListsAll ==
  ASSUME NEW S, S \subseteq Nat, IsFiniteSet(S), NEW x \in S, NEW kind
  PROVE  \E k \in DOMAIN Ordered(kind, S) : Ordered(kind, S)[k] = <<kind, x>>
<1> DEFINE b == Cardinality(Below(x, S))
           k == b + 1
<1>0. b \in Nat /\ Cardinality(S) \in Nat /\ b < Cardinality(S)
  BY BelowCounts
<1> HIDE DEF b
<1>1. k \in 1 .. Cardinality(S) /\ k - 1 = b
  BY <1>0
<1>2. Kth(k, S) = x
  <2>1. Cardinality(Below(x, S)) = k - 1
    BY <1>1 DEF b
  <2>2. ASSUME NEW y \in S, Cardinality(Below(y, S)) = k - 1
        PROVE  y = x
    <3>1. Cardinality(Below(y, S)) = Cardinality(Below(x, S)) /\ Cardinality(Below(x, S)) \in Nat
      BY <1>0, <2>1, <2>2 DEF b
    <3>2. CASE x < y
      <4>1. Cardinality(Below(x, S)) < Cardinality(Below(y, S))
        BY <3>2, BelowGrows
      <4> QED
        BY <3>1, <4>1
    <3>3. CASE y < x
      <4>1. Cardinality(Below(y, S)) < Cardinality(Below(x, S))
        BY <3>3, BelowGrows
      <4> QED
        BY <3>1, <4>1
    <3>4. x \in Nat /\ y \in Nat
      OBVIOUS
    <3> QED
      BY <3>2, <3>3, <3>4
  <2> QED
    BY <2>1, <2>2 DEF Kth, Below
<1> QED
  BY <1>1, <1>2 DEF Ordered

-----------------------------------------------------------------------------
(* The invariant: what every transaction has locked, or is about to lock. *)

IsSeq(s) == s \in Seq({s[k] : k \in DOMAIN s})

\* Transaction a holds the lock l, or will before it goes on.
Promised(a, l) == holder[l] = a \/ \E k \in DOMAIN todo[a] : todo[a][k] = l

EntryLock(e) == <<"entry", e>>
AddressLock(i) == <<"address", i>>

\* An approval holds its entries once it has selected them, and the locks of their
\* addresses come next.
ApprovalOK(a) ==
  /\ stage[a] = "entries" =>
       \A e \in work[a].locked : e \in Entries /\ Promised(a, EntryLock(e))
  /\ stage[a] \in {"makers", "addresses", "chassis", "chargers", "write"} =>
       \A e \in work[a].batch : /\ e \in Entries
                                /\ holder[EntryLock(e)] = a
                                /\ queue[e].state = "pending"
  /\ stage[a] \in {"addresses", "chassis", "chargers", "write"} =>
       \A e \in work[a].batch : Promised(a, AddressLock(queue[e].ip))

\* A synchronization that stores a payload has, or waits for, the lock of its address.
SyncOK(a) ==
  /\ stage[a] \in {"index", "payload", "store"} => work[a].inventory \in Seq(Payloads)
  /\ stage[a] = "store" =>
       /\ work[a].payload.ip \in Addresses
       /\ work[a].verdict \in {"new", "moved", "duplicate"}
       /\ work[a].verdict # "duplicate" => Promised(a, AddressLock(work[a].payload.ip))
       /\ work[a].verdict # "new" => work[a].target \in Chassis

\* The other transactions know which kind of row they write, and under which address.
OthersOK(a) ==
  /\ stage[a] \in {"selected", "update"} => work[a].target \in Chassis
  /\ stage[a] = "edit" =>
       /\ work[a].target \in Chargers /\ work[a].payload.ip \in Addresses
       /\ Promised(a, AddressLock(work[a].payload.ip))
  /\ stage[a] \in {"classify", "record"} => work[a].batch # {}

WorkOK(a) ==
  /\ DOMAIN work[a] = DOMAIN Idle
  /\ IsSeq(todo[a])
  /\ ApprovalOK(a) /\ SyncOK(a) /\ OthersOK(a)

\* Only a synchronization drafts, and only chassis, under addresses whose locks their transactions hold and
\* which no charger has.
DraftOK(a) ==
  /\ DOMAIN draft[a] = Hardware
  /\ \A h \in Hardware : draft[a][h] # Nobody =>
       /\ stage[a] \in {"payload", "store"}
       /\ h \in Chassis
       /\ draft[a][h].ip \in Addresses
       /\ holder[AddressLock(draft[a][h].ip)] = a
       /\ \A g \in Chargers : rows[g] # Nobody => rows[g].ip # draft[a][h].ip

Domains ==
  /\ stage = [b \in Actors |-> stage[b]] /\ todo = [b \in Actors |-> todo[b]]
  /\ work = [b \in Actors |-> work[b]] /\ draft = [b \in Actors |-> draft[b]]
  /\ holder \in [Locks -> Actors \cup {Nobody}]
  /\ queue \in [Entries -> EntryType]

AddressInv ==
  /\ Domains
  /\ AddressesExclusive
  /\ \A a \in Actors : WorkOK(a) /\ DraftOK(a)

LEMMA TheLocks ==
  /\ \A e \in Entries : EntryLock(e) \in Locks
  /\ \A i \in Addresses : AddressLock(i) \in Locks
  BY DEF Locks, EntryLock, AddressLock

\* A transaction that waits for nothing has what it was promised.
LEMMA PromiseKept ==
  ASSUME NEW a, NEW l, Promised(a, l), todo[a] = << >>
  PROVE  holder[l] = a
  BY DEF Promised

LEMMA SequenceOfNone == IsSeq(<< >>)
  BY DEF IsSeq

LEMMA SequenceOfOne ==
  ASSUME NEW l
  PROVE  IsSeq(<< l >>)
  BY DEF IsSeq

LEMMA SequenceOfTwo ==
  ASSUME NEW l, NEW m
  PROVE  IsSeq(<< l, m >>)
  BY DEF IsSeq

LEMMA OrderedIsSequence ==
  ASSUME NEW kind, NEW S, IsFiniteSet(S)
  PROVE  IsSeq(Ordered(kind, S))
<1>1. Cardinality(S) \in Nat
  BY FS_CardinalityType
<1> QED
  BY <1>1 DEF IsSeq, Ordered

LEMMA TailIsSequence ==
  ASSUME NEW s, IsSeq(s), s # << >>
  PROVE  /\ IsSeq(Tail(s))
         /\ \A k \in DOMAIN s : s[k] = Head(s) \/ \E n \in DOMAIN Tail(s) : Tail(s)[n] = s[k]
<1> DEFINE R == {s[k] : k \in DOMAIN s}
<1>1. s \in Seq(R)
  BY DEF IsSeq
<1>2. Tail(s) \in Seq(R) /\ Len(Tail(s)) = Len(s) - 1 /\ Len(s) \in Nat \ {0}
      /\ \A n \in 1 .. Len(s) - 1 : Tail(s)[n] = s[n + 1]
      /\ Head(s) = s[1]
  BY <1>1
<1>3. ASSUME NEW k \in DOMAIN s, s[k] # Head(s)
      PROVE  \E n \in DOMAIN Tail(s) : Tail(s)[n] = s[k]
  <2>1. k \in 1 .. Len(s) /\ k # 1
    BY <1>1, <1>2, <1>3
  <2>2. k - 1 \in 1 .. Len(s) - 1 /\ Tail(s)[k - 1] = s[k]
    BY <1>2, <2>1
  <2>3. DOMAIN Tail(s) = 1 .. Len(s) - 1
    BY <1>2
  <2> QED
    BY <2>2, <2>3
<1>4. IsSeq(Tail(s))
  <2> DEFINE u == Tail(s)
             n == Len(s) - 1
  <2>1. u \in Seq(R) /\ Len(u) = n /\ n \in Nat /\ DOMAIN u = 1 .. n
    BY <1>2
  <2>2. u = [k \in 1 .. n |-> u[k]]
    <3>1. u \in [1 .. Len(u) -> R]
      BY <2>1, LenProperties
    <3> QED
      BY <2>1, <3>1
  <2> HIDE DEF u, n
  <2>3. [k \in 1 .. n |-> u[k]] \in Seq({u[k] : k \in 1 .. n})
    BY <2>1
  <2>4. IsSeq(u)
    BY <2>1, <2>2, <2>3 DEF IsSeq
  <2> QED
    BY <2>4 DEF u
<1> QED
  BY <1>3, <1>4

-----------------------------------------------------------------------------
(* What a step of transaction a leaves of the others. *)

\* Nothing but a's own records changes, and the others keep their locks.
Quiet(a) ==
  /\ stage' = [stage EXCEPT ![a] = stage'[a]]
  /\ todo' = [todo EXCEPT ![a] = todo'[a]]
  /\ work' = [work EXCEPT ![a] = work'[a]]
  /\ draft' = [draft EXCEPT ![a] = draft'[a]]
  /\ holder' \in [Locks -> Actors \cup {Nobody}]
  /\ \A l \in Locks, b \in Actors \ {a} : holder[l] = b => holder'[l] = b

\* Entries change under their locks or while nobody has them, chargers under the lock of
\* their new address.
EntriesGuarded(a) ==
  /\ queue' \in [Entries -> EntryType]
  /\ \A e \in Entries : queue'[e] = queue[e] \/ holder[EntryLock(e)] \in {a, Nobody}

ChargersGuarded(a) ==
  \A g \in Chargers : \/ rows'[g] = rows[g]
                      \/ rows'[g] # Nobody /\ holder[AddressLock(rows'[g].ip)] = a

\* A transaction that stays where it is keeps its part of the invariant while its locks,
\* and what it was promised, stay with it.
LEMMA StayingWorkOK ==
  ASSUME NEW b, Domains, WorkOK(b),
         stage'[b] = stage[b], work'[b] = work[b], IsSeq(todo[b])',
         \A l \in Locks : holder[l] = b => holder'[l] = b,
         \A l \in Locks : Promised(b, l) => Promised(b, l)',
         \A e \in Entries : holder[EntryLock(e)] = b => queue'[e] = queue[e]
  PROVE  WorkOK(b)'
<1>2. DOMAIN work'[b] = DOMAIN Idle'
  BY DEF WorkOK, Idle, NoDraft, NoPayload
<1>3. ApprovalOK(b)'
  <2>1. ASSUME NEW e \in work[b].locked, stage[b] = "entries"
        PROVE  e \in Entries /\ Promised(b, EntryLock(e))'
    <3>1. e \in Entries /\ Promised(b, EntryLock(e))
      BY <2>1 DEF WorkOK, ApprovalOK
    <3>2. EntryLock(e) \in Locks
      BY <3>1, TheLocks
    <3> QED
      BY <3>1, <3>2
  <2>2. ASSUME NEW e \in work[b].batch,
               stage[b] \in {"makers", "addresses", "chassis", "chargers", "write"}
        PROVE  /\ e \in Entries /\ queue'[e] = queue[e]
               /\ holder'[EntryLock(e)] = b /\ queue[e].state = "pending"
    <3>1. e \in Entries /\ holder[EntryLock(e)] = b /\ queue[e].state = "pending"
      BY <2>2 DEF WorkOK, ApprovalOK
    <3>2. EntryLock(e) \in Locks
      BY <3>1, TheLocks
    <3>3. queue'[e] = queue[e]
      BY <3>1
    <3>4. holder'[EntryLock(e)] = b
      BY <3>1, <3>2
    <3> QED
      BY <3>1, <3>3, <3>4
  <2>3. ASSUME NEW e \in work[b].batch, stage[b] \in {"addresses", "chassis", "chargers", "write"}
        PROVE  Promised(b, AddressLock(queue[e].ip))'
    <3>1. e \in Entries /\ queue'[e] = queue[e] /\ queue[e].state = "pending"
      BY <2>2, <2>3
    <3>2. queue[e].ip \in Addresses
      BY <3>1 DEF Domains, EntryType
    <3>3. AddressLock(queue[e].ip) \in Locks
      BY <3>2, TheLocks
    <3>4. Promised(b, AddressLock(queue[e].ip))
      BY <2>3 DEF WorkOK, ApprovalOK
    <3>5. \A i \in Addresses : Promised(b, AddressLock(i)) => Promised(b, AddressLock(i))'
      BY TheLocks
    <3> QED
      BY <3>1, <3>2, <3>4, <3>5 DEF Promised, AddressLock
  <2>4. stage'[b] = "entries" =>
          \A e \in work'[b].locked : e \in Entries /\ Promised(b, EntryLock(e))'
    BY <2>1
  <2>5. stage'[b] \in {"makers", "addresses", "chassis", "chargers", "write"} =>
          \A e \in work'[b].batch : /\ e \in Entries
                                    /\ holder'[EntryLock(e)] = b
                                    /\ queue'[e].state = "pending"
    BY <2>2
  <2>6. stage'[b] \in {"addresses", "chassis", "chargers", "write"} =>
          \A e \in work'[b].batch : Promised(b, AddressLock(queue[e].ip))'
    BY <2>3
  <2> QED
    BY <2>4, <2>5, <2>6 DEF ApprovalOK, EntryLock, Promised
<1>4. SyncOK(b)'
  <2>1. ASSUME stage[b] = "store", work[b].payload.ip \in Addresses,
               Promised(b, AddressLock(work[b].payload.ip))
        PROVE  Promised(b, AddressLock(work[b].payload.ip))'
    <3>1. AddressLock(work[b].payload.ip) \in Locks
      BY <2>1, TheLocks
    <3> QED
      BY <2>1, <3>1
  <2> QED
    BY <2>1 DEF WorkOK, SyncOK, Promised, AddressLock
<1>5. OthersOK(b)'
  <2>1. ASSUME stage[b] = "edit", work[b].payload.ip \in Addresses,
               Promised(b, AddressLock(work[b].payload.ip))
        PROVE  Promised(b, AddressLock(work[b].payload.ip))'
    <3>1. AddressLock(work[b].payload.ip) \in Locks
      BY <2>1, TheLocks
    <3> QED
      BY <2>1, <3>1
  <2> QED
    BY <2>1 DEF WorkOK, OthersOK, Promised, AddressLock
<1> QED
  BY <1>2, <1>3, <1>4, <1>5 DEF WorkOK

LEMMA OthersWorkOK ==
  ASSUME NEW a, NEW b \in Actors, b # a, Domains, Quiet(a), EntriesGuarded(a), WorkOK(b)
  PROVE  WorkOK(b)'
<1>1. stage'[b] = stage[b] /\ todo'[b] = todo[b] /\ work'[b] = work[b]
  BY DEF Quiet, Domains
<1>2. \A l \in Locks : holder[l] = b => holder'[l] = b
  BY DEF Quiet
<1>3. \A l \in Locks : Promised(b, l) => Promised(b, l)'
  BY <1>1, <1>2 DEF Promised
<1>4. \A e \in Entries : holder[EntryLock(e)] = b => queue'[e] = queue[e]
  BY NobodyAssumption DEF EntriesGuarded
<1>5. IsSeq(todo[b])'
  BY <1>1 DEF WorkOK, IsSeq
<1> QED
  BY <1>1, <1>2, <1>3, <1>4, <1>5, StayingWorkOK

LEMMA OthersDraftOK ==
  ASSUME NEW a, NEW b \in Actors, b # a, Domains, Quiet(a), ChargersGuarded(a), DraftOK(b)
  PROVE  DraftOK(b)'
<1>1. draft'[b] = draft[b] /\ stage'[b] = stage[b] /\ DOMAIN draft[b] = Hardware
  BY DEF Quiet, Domains, DraftOK
<1>2. ASSUME NEW h \in Hardware, draft[b][h] # Nobody
      PROVE  /\ stage[b] \in {"payload", "store"}
             /\ h \in Chassis /\ draft[b][h].ip \in Addresses
             /\ holder'[AddressLock(draft[b][h].ip)] = b
             /\ \A g \in Chargers : rows'[g] # Nobody => rows'[g].ip # draft[b][h].ip
  <2> DEFINE i == draft[b][h].ip
  <2>1. /\ stage[b] \in {"payload", "store"}
        /\ h \in Chassis /\ i \in Addresses /\ holder[AddressLock(i)] = b
        /\ \A g \in Chargers : rows[g] # Nobody => rows[g].ip # i
    BY <1>2 DEF DraftOK
  <2>2. AddressLock(i) \in Locks
    BY <2>1, TheLocks
  <2> HIDE DEF i
  <2>3. holder'[AddressLock(i)] = b
    BY <2>1, <2>2 DEF Quiet
  <2>4. ASSUME NEW g \in Chargers, rows'[g] # Nobody
        PROVE  rows'[g].ip # i
    BY <2>1, <2>4 DEF ChargersGuarded
  <2> QED
    BY <2>1, <2>3, <2>4 DEF i
<1> QED
  BY <1>1, <1>2 DEF DraftOK, AddressLock

\* A guarded step of a keeps the invariant if a keeps its own part and the rows stay apart.
LEMMA StepKeeps ==
  ASSUME AddressInv, NEW a \in Actors, Quiet(a), EntriesGuarded(a), ChargersGuarded(a),
         AddressesExclusive', WorkOK(a)', DraftOK(a)'
  PROVE  AddressInv'
<1>1. Domains'
  BY DEF AddressInv, Domains, Quiet, EntriesGuarded
<1>2. ASSUME NEW b \in Actors
      PROVE  WorkOK(b)' /\ DraftOK(b)'
  <2>1. CASE b = a
    BY <2>1
  <2>2. CASE b # a
    <3>1. WorkOK(b) /\ DraftOK(b) /\ Domains
      BY DEF AddressInv
    <3>2. WorkOK(b)'
      BY <2>2, <3>1, OthersWorkOK
    <3>3. DraftOK(b)'
      BY <2>2, <3>1, OthersDraftOK
    <3> QED
      BY <3>2, <3>3
  <2> QED
    BY <2>1, <2>2
<1> QED
  BY <1>1, <1>2 DEF AddressInv

-----------------------------------------------------------------------------
(* The forms a step can have. *)

LEMMA HolderKept ==
  ASSUME AddressInv, NEW a \in Actors, UNCHANGED holder
  PROVE  /\ holder' \in [Locks -> Actors \cup {Nobody}]
         /\ \A l \in Locks, b \in Actors \ {a} : holder[l] = b => holder'[l] = b
  BY DEF AddressInv, Domains

\* Locks that a has are given back, or stay with it.
LEMMA HolderReleased ==
  ASSUME AddressInv, NEW a \in Actors, holder' = Released(a)
  PROVE  /\ holder' \in [Locks -> Actors \cup {Nobody}]
         /\ \A l \in Locks, b \in Actors \ {a} : holder[l] = b => holder'[l] = b
  BY DEF AddressInv, Domains, Released

LEMMA NothingWritten ==
  ASSUME AddressInv, NEW a \in Actors, UNCHANGED <<rows, queue>>
  PROVE  EntriesGuarded(a) /\ ChargersGuarded(a) /\ AddressesExclusive'
<1>1. EntriesGuarded(a)
  BY DEF AddressInv, Domains, EntriesGuarded
<1>2. ChargersGuarded(a)
  BY DEF ChargersGuarded
<1>3. AddressesExclusive'
  BY DEF AddressInv, AddressesExclusive
<1> QED
  BY <1>1, <1>2, <1>3

\* A transaction that has ended remembers nothing and has drafted nothing.
LEMMA NothingRemembered ==
  ASSUME NEW a, stage'[a] = "idle", todo'[a] = << >>, work'[a] = Idle, draft'[a] = NoDraft
  PROVE  WorkOK(a)' /\ DraftOK(a)'
<1>1. DOMAIN work'[a] = DOMAIN Idle'
  BY DEF Idle, NoDraft, NoPayload
<1>2. IsSeq(todo[a])'
  <2>1. IsSeq(<< >>)
    BY SequenceOfNone
  <2> QED
    BY <2>1 DEF IsSeq
<1>3. ApprovalOK(a)' /\ SyncOK(a)' /\ OthersOK(a)'
  BY DEF ApprovalOK, SyncOK, OthersOK
<1>4. DraftOK(a)'
  BY DEF DraftOK, NoDraft
<1> QED
  BY <1>1, <1>2, <1>3, <1>4 DEF WorkOK

LEMMA EndKeeps ==
  ASSUME AddressInv, NEW a \in Actors, Ended(a), EntriesGuarded(a), ChargersGuarded(a),
         AddressesExclusive'
  PROVE  AddressInv'
<1>1. /\ stage' = [stage EXCEPT ![a] = "idle"] /\ todo' = [todo EXCEPT ![a] = << >>]
      /\ work' = [work EXCEPT ![a] = Idle] /\ draft' = [draft EXCEPT ![a] = NoDraft]
      /\ holder' = Released(a)
  BY DEF Ended, Goto
<1>2. stage'[a] = "idle" /\ todo'[a] = << >> /\ work'[a] = Idle /\ draft'[a] = NoDraft
  BY <1>1 DEF AddressInv, Domains
<1>3. Quiet(a)
  <2>1. /\ holder' \in [Locks -> Actors \cup {Nobody}]
        /\ \A l \in Locks, b \in Actors \ {a} : holder[l] = b => holder'[l] = b
    BY <1>1, HolderReleased
  <2> QED
    BY <1>1, <1>2, <2>1 DEF Quiet
<1>4. WorkOK(a)' /\ DraftOK(a)'
  BY <1>2, NothingRemembered
<1> QED
  BY <1>3, <1>4, StepKeeps

LEMMA RollbackKeeps ==
  ASSUME AddressInv, NEW a \in Actors, Rollback(a)
  PROVE  AddressInv'
<1>1. Ended(a) /\ UNCHANGED <<rows, queue>>
  BY DEF Rollback
<1>2. EntriesGuarded(a) /\ ChargersGuarded(a) /\ AddressesExclusive'
  BY <1>1, NothingWritten
<1> QED
  BY <1>1, <1>2, EndKeeps

\* What is committed passed the save hook, chargers under the lock of their address.
LEMMA CommitKeeps ==
  ASSUME AddressInv, NEW a \in Actors, NEW w, Commits(a, w), EntriesGuarded(a),
         \A h \in Hardware : w[h] # Nobody => ~TakenByOtherKind(Over(w, rows), h, w[h].ip),
         \A g \in Chargers : w[g] # Nobody => holder[AddressLock(w[g].ip)] = a
  PROVE  AddressInv'
<1>1. rows' = Over(w, rows) /\ Ended(a)
  BY DEF Commits
<1>2. ChargersGuarded(a)
  <2>1. \A g \in Chargers : rows'[g] = IF w[g] # Nobody THEN w[g] ELSE rows[g]
    BY <1>1 DEF Over, Hardware
  <2> QED
    BY <2>1 DEF ChargersGuarded
<1>3. AddressesExclusive'
  <2> SUFFICES ASSUME NEW c \in Chassis, NEW g \in Chargers, rows'[c] # Nobody, rows'[g] # Nobody
               PROVE  rows'[c].ip # rows'[g].ip
    BY DEF AddressesExclusive
  <2>1. c \in Hardware /\ g \in Hardware /\ g \notin Chassis
    BY KeysAssumption DEF Hardware
  <2>2. CASE w[c] # Nobody
    <3>1. rows'[c] = w[c]
      BY <1>1, <2>1, <2>2 DEF Over
    <3>2. ~TakenByOtherKind(rows', c, w[c].ip)
      BY <1>1, <2>1, <2>2
    <3> QED
      BY <3>1, <3>2 DEF TakenByOtherKind
  <2>3. CASE w[g] # Nobody
    <3>1. rows'[g] = w[g]
      BY <1>1, <2>1, <2>3 DEF Over
    <3>2. ~TakenByOtherKind(rows', g, w[g].ip)
      BY <1>1, <2>1, <2>3
    <3> QED
      BY <2>1, <3>1, <3>2 DEF TakenByOtherKind
  <2>4. CASE w[c] = Nobody /\ w[g] = Nobody
    <3>1. rows'[c] = rows[c] /\ rows'[g] = rows[g]
      BY <1>1, <2>1, <2>4 DEF Over
    <3> QED
      BY <3>1 DEF AddressInv, AddressesExclusive
  <2> QED
    BY <2>2, <2>3, <2>4
<1> QED
  BY <1>1, <1>2, <1>3, EndKeeps

\* The commit of a single row.
LEMMA WriteKeeps ==
  ASSUME AddressInv, NEW a \in Actors, NEW h \in Hardware, NEW r,
         Commits(a, Write(h, r)), UNCHANGED queue,
         ~TakenByOtherKind(rows, h, r.ip),
         h \in Chargers => holder[AddressLock(r.ip)] = a
  PROVE  AddressInv'
<1>1. \A g \in Hardware : Write(h, r)[g] = IF g = h THEN r ELSE Nobody
  BY DEF Write, NoDraft
<1>2. ASSUME NEW g \in Hardware, Write(h, r)[g] # Nobody
      PROVE  ~TakenByOtherKind(Over(Write(h, r), rows), g, Write(h, r)[g].ip)
  <2>1. g = h /\ Write(h, r)[g] = r
    BY <1>1, <1>2
  <2>2. \A f \in Hardware \ {h} : Over(Write(h, r), rows)[f] = rows[f]
    BY <1>1 DEF Over
  <2>3. \A f \in IF h \in Chassis THEN Chargers ELSE Chassis : f \in Hardware \ {h}
    BY KeysAssumption DEF Hardware
  <2>4. ~TakenByOtherKind(Over(Write(h, r), rows), h, r.ip)
    BY <2>2, <2>3 DEF TakenByOtherKind
  <2> QED
    BY <2>1, <2>4
<1>3. ASSUME NEW g \in Chargers, Write(h, r)[g] # Nobody
      PROVE  holder[AddressLock(Write(h, r)[g].ip)] = a
  BY <1>1, <1>3 DEF Hardware
<1>4. EntriesGuarded(a)
  BY DEF AddressInv, Domains, EntriesGuarded
<1> QED
  BY <1>2, <1>3, <1>4, CommitKeeps

\* A step that writes nothing but a's own records.
LEMMA GotoKeeps ==
  ASSUME AddressInv, NEW a \in Actors, NEW s, NEW locks, NEW w, Goto(a, s, locks, w),
         UNCHANGED <<rows, queue, draft, holder>>, WorkOK(a)',
         stage[a] \in {"payload", "store"} => s \in {"payload", "store"}
  PROVE  AddressInv'
<1>1. /\ stage' = [stage EXCEPT ![a] = s] /\ todo' = [todo EXCEPT ![a] = locks]
      /\ work' = [work EXCEPT ![a] = w]
  BY DEF Goto
<1>2. /\ holder' \in [Locks -> Actors \cup {Nobody}]
      /\ \A l \in Locks, b \in Actors \ {a} : holder[l] = b => holder'[l] = b
  BY HolderKept
<1>3. stage'[a] = s /\ todo'[a] = locks /\ work'[a] = w /\ draft'[a] = draft[a]
  BY <1>1 DEF AddressInv, Domains
<1>4. draft' = [draft EXCEPT ![a] = draft'[a]]
  BY DEF AddressInv, Domains
<1>5. Quiet(a)
  BY <1>1, <1>2, <1>3, <1>4 DEF Quiet
<1>6. DraftOK(a)'
  BY <1>3 DEF AddressInv, DraftOK, AddressLock
<1>7. EntriesGuarded(a) /\ ChargersGuarded(a) /\ AddressesExclusive'
  BY NothingWritten
<1> QED
  BY <1>5, <1>6, <1>7, StepKeeps

LEMMA ProceedsKeeps ==
  ASSUME AddressInv, NEW a \in Actors, NEW s, NEW locks, NEW w, Proceeds(a, s, locks, w),
         WorkOK(a)', stage[a] \in {"payload", "store"} => s \in {"payload", "store"}
  PROVE  AddressInv'
  BY GotoKeeps DEF Proceeds

-----------------------------------------------------------------------------
(* The initial states, the locks, and the ends that come from outside. *)

LEMMA InitEstablishes ==
  ASSUME Init
  PROVE  AddressInv
<1>1. PICK b \in Beginnings : rows = b.rows /\ queue = b.queue
  BY DEF Init
<1>2. Domains
  BY <1>1, BeginningsAssumption DEF Init, Domains
<1>3. AddressesExclusive
  BY <1>1, BeginningsAssumption DEF AddressesExclusive
<1>4. ASSUME NEW a \in Actors
      PROVE  WorkOK(a) /\ DraftOK(a)
  <2>1. stage[a] = "idle" /\ todo[a] = << >> /\ work[a] = Idle /\ draft[a] = NoDraft
    BY DEF Init
  <2>2. IsSeq(todo[a])
    BY <2>1, SequenceOfNone
  <2>3. ApprovalOK(a) /\ SyncOK(a) /\ OthersOK(a)
    BY <2>1 DEF ApprovalOK, SyncOK, OthersOK
  <2>4. DraftOK(a)
    BY <2>1 DEF DraftOK, NoDraft
  <2> QED
    BY <2>1, <2>2, <2>3, <2>4 DEF WorkOK
<1> QED
  BY <1>2, <1>3, <1>4 DEF AddressInv

\* A transaction that takes a lock keeps what it has, and what it was promised.
LEMMA AcquireForms ==
  ASSUME AddressInv, NEW a \in Actors, Acquire(a)
  PROVE  /\ Quiet(a) /\ todo'[a] = Tail(todo[a]) /\ IsSeq(todo[a])'
         /\ \A m \in Locks : holder[m] = a => holder'[m] = a
         /\ \A m \in Locks : Promised(a, m) => Promised(a, m)'
<1> DEFINE l == Head(todo[a])
<1>1. /\ todo[a] # << >> /\ holder[l] \in {Nobody, a}
      /\ holder' = [holder EXCEPT ![l] = a]
      /\ todo' = [todo EXCEPT ![a] = Tail(todo[a])]
      /\ UNCHANGED <<rows, queue, draft, stage, work>>
  BY DEF Acquire
<1>2. IsSeq(todo[a]) /\ Domains
  BY DEF AddressInv, WorkOK
<1>3. /\ IsSeq(Tail(todo[a]))
      /\ \A k \in DOMAIN todo[a] :
           todo[a][k] = l \/ \E n \in DOMAIN Tail(todo[a]) : Tail(todo[a])[n] = todo[a][k]
  BY <1>1, <1>2, TailIsSequence
<1> HIDE DEF l
<1>4. todo'[a] = Tail(todo[a])
  BY <1>1, <1>2 DEF Domains
<1>5. \A m \in Locks : holder'[m] = IF m = l THEN a ELSE holder[m]
  BY <1>1, <1>2 DEF Domains
<1>6. Quiet(a)
  <2>1. holder' \in [Locks -> Actors \cup {Nobody}]
    BY <1>1, <1>2 DEF Domains
  <2>2. \A m \in Locks, b \in Actors \ {a} : holder[m] = b => holder'[m] = b
    BY <1>1, <1>5, NobodyAssumption
  <2>3. todo' = [todo EXCEPT ![a] = todo'[a]]
    BY <1>1, <1>4
  <2>4. /\ stage' = [stage EXCEPT ![a] = stage'[a]] /\ work' = [work EXCEPT ![a] = work'[a]]
        /\ draft' = [draft EXCEPT ![a] = draft'[a]]
    BY <1>1, <1>2 DEF Domains
  <2> QED
    BY <2>1, <2>2, <2>3, <2>4 DEF Quiet
<1>7. \A m \in Locks : holder[m] = a => holder'[m] = a
  BY <1>5
<1>8. ASSUME NEW m \in Locks, Promised(a, m)
      PROVE  Promised(a, m)'
  <2>1. CASE holder[m] = a
    BY <1>7, <2>1 DEF Promised
  <2>2. CASE m = l
    BY <1>5, <2>2 DEF Promised
  <2>3. CASE \E k \in DOMAIN todo[a] : todo[a][k] = m /\ m # l
    <3>1. \E n \in DOMAIN Tail(todo[a]) : Tail(todo[a])[n] = m
      BY <1>3, <2>3
    <3> QED
      BY <1>4, <3>1 DEF Promised
  <2> QED
    BY <1>8, <2>1, <2>2, <2>3 DEF Promised
<1>9. IsSeq(todo[a])'
  BY <1>3, <1>4 DEF IsSeq
<1> QED
  BY <1>4, <1>6, <1>7, <1>8, <1>9

LEMMA AcquireKeeps ==
  ASSUME AddressInv, NEW a \in Actors, Acquire(a)
  PROVE  AddressInv'
<1>1. UNCHANGED <<rows, queue, draft, stage, work>>
  BY DEF Acquire
<1>2. Domains /\ WorkOK(a) /\ DraftOK(a)
  BY DEF AddressInv
<1>3. WorkOK(a)'
  BY <1>1, <1>2, AcquireForms, StayingWorkOK
<1>4. DraftOK(a)'
  <2>1. ASSUME NEW h \in Hardware, draft[a][h] # Nobody
        PROVE  holder'[AddressLock(draft[a][h].ip)] = a
    <3>1. draft[a][h].ip \in Addresses /\ holder[AddressLock(draft[a][h].ip)] = a
      BY <1>2, <2>1 DEF DraftOK
    <3>2. AddressLock(draft[a][h].ip) \in Locks
      BY <3>1, TheLocks
    <3> QED
      BY <3>1, <3>2, AcquireForms
  <2> QED
    BY <1>1, <1>2, <2>1 DEF DraftOK, AddressLock
<1>5. EntriesGuarded(a) /\ ChargersGuarded(a) /\ AddressesExclusive'
  BY <1>1, NothingWritten
<1> QED
  BY <1>3, <1>4, <1>5, AcquireForms, StepKeeps

\* A review that imports nothing changes an entry nobody has locked.
LEMMA DismissForms ==
  ASSUME AddressInv, NEW e \in Entries, Dismiss(e)
  PROVE  /\ Quiet(Nobody) /\ EntriesGuarded(Nobody) /\ ChargersGuarded(Nobody)
         /\ UNCHANGED <<rows, draft, holder, todo, stage, work>>
<1>1. /\ queue[e].state = "pending" /\ holder[EntryLock(e)] = Nobody
      /\ queue' = [queue EXCEPT ![e].state = "dismissed", ![e].reviewed = TRUE]
      /\ UNCHANGED <<rows, draft, holder, todo, stage, work>>
  BY DEF Dismiss, EntryLock
<1>2. Domains
  BY DEF AddressInv
<1>3. queue' \in [Entries -> EntryType]
  <2> DEFINE q == [queue[e] EXCEPT !.state = "dismissed", !.reviewed = TRUE]
  <2>1. queue[e] \in EntryType /\ queue[e].state # "absent"
    BY <1>1, <1>2 DEF Domains
  <2>2. q \in EntryType
    BY <2>1 DEF EntryType
  <2>3. queue' = [queue EXCEPT ![e] = q]
    BY <1>1, <1>2 DEF Domains
  <2> QED
    BY <1>2, <2>2, <2>3 DEF Domains
<1>4. EntriesGuarded(Nobody)
  <2>1. \A f \in Entries : f # e => queue'[f] = queue[f]
    BY <1>1, <1>2 DEF Domains
  <2> QED
    BY <1>1, <1>3, <2>1 DEF EntriesGuarded
<1>5. Quiet(Nobody) /\ ChargersGuarded(Nobody)
  BY <1>1, <1>2, NobodyAssumption DEF Quiet, Domains, ChargersGuarded
<1> QED
  BY <1>1, <1>4, <1>5

LEMMA DismissKeeps ==
  ASSUME AddressInv, NEW e \in Entries, Dismiss(e)
  PROVE  AddressInv'
<1>1. Domains /\ AddressesExclusive
  BY DEF AddressInv
<1>2. ASSUME NEW b \in Actors
      PROVE  WorkOK(b)' /\ DraftOK(b)'
  <2>1. b # Nobody /\ WorkOK(b) /\ DraftOK(b)
    BY NobodyAssumption DEF AddressInv
  <2>2. WorkOK(b)'
    BY <1>1, <2>1, DismissForms, OthersWorkOK
  <2>3. DraftOK(b)'
    BY <1>1, <2>1, DismissForms, OthersDraftOK
  <2> QED
    BY <2>2, <2>3
<1>3. Domains' /\ AddressesExclusive'
  BY <1>1, DismissForms DEF Domains, AddressesExclusive, EntriesGuarded
<1> QED
  BY <1>2, <1>3 DEF AddressInv

-----------------------------------------------------------------------------
(* Approval. *)

\* Where a step has taken a transaction.
LEMMA Went ==
  ASSUME AddressInv, NEW a \in Actors, NEW s, NEW locks, NEW w, Goto(a, s, locks, w)
  PROVE  stage'[a] = s /\ todo'[a] = locks /\ work'[a] = w
  BY DEF Goto, AddressInv, Domains

\* At these stages nothing is said of what is remembered.
LEMMA PlainWorkOK ==
  ASSUME NEW a, stage'[a] \in {"listed", "insert", "check"}, IsSeq(todo'[a]),
         DOMAIN work'[a] = DOMAIN Idle
  PROVE  WorkOK(a)'
<1>1. DOMAIN work'[a] = DOMAIN Idle' /\ IsSeq(todo[a])'
  BY DEF Idle, NoDraft, NoPayload, IsSeq
<1> QED
  BY <1>1 DEF WorkOK, ApprovalOK, SyncOK, OthersOK

\* An approval that goes on with the same batch of entries, which it holds.
LEMMA BatchWorkOK ==
  ASSUME AddressInv, NEW a \in Actors, UNCHANGED <<queue, holder>>,
         stage'[a] \in {"makers", "addresses", "chassis", "chargers", "write"},
         IsSeq(todo'[a]), DOMAIN work'[a] = DOMAIN Idle,
         \A e \in work'[a].batch : /\ e \in Entries /\ holder[EntryLock(e)] = a
                                   /\ queue[e].state = "pending",
         stage'[a] # "makers" =>
           \A e \in work'[a].batch : Promised(a, AddressLock(queue[e].ip))'
  PROVE  WorkOK(a)'
<1>1. DOMAIN work'[a] = DOMAIN Idle' /\ IsSeq(todo[a])'
  BY DEF Idle, NoDraft, NoPayload, IsSeq
<1>2. SyncOK(a)' /\ OthersOK(a)'
  BY DEF SyncOK, OthersOK
<1>3. ApprovalOK(a)'
  BY DEF ApprovalOK, EntryLock
<1> QED
  BY <1>1, <1>2, <1>3 DEF WorkOK

\* What an approval has once its entries are selected.
LEMMA BatchHeld ==
  ASSUME AddressInv, NEW a \in Actors, NEW e \in work[a].batch,
         stage[a] \in {"makers", "addresses", "chassis", "chargers", "write"}
  PROVE  /\ e \in Entries /\ holder[EntryLock(e)] = a
         /\ queue[e] \in EntryType /\ queue[e].state = "pending" /\ queue[e].ip \in Addresses
         /\ stage[a] # "makers" /\ todo[a] = << >> => holder[AddressLock(queue[e].ip)] = a
<1>1. /\ e \in Entries /\ holder[EntryLock(e)] = a /\ queue[e].state = "pending"
      /\ stage[a] # "makers" => Promised(a, AddressLock(queue[e].ip))
  BY DEF AddressInv, WorkOK, ApprovalOK
<1>2. queue[e] \in EntryType
  BY <1>1 DEF AddressInv, Domains
<1>3. queue[e].ip \in Addresses
  BY <1>1, <1>2 DEF EntryType
<1>4. stage[a] # "makers" /\ todo[a] = << >> => holder[AddressLock(queue[e].ip)] = a
  BY <1>1, PromiseKept
<1> QED
  BY <1>1, <1>2, <1>3, <1>4

LEMMA ValuesFinite ==
  ASSUME NEW S, IsFiniteSet(S), NEW f
  PROVE  IsFiniteSet({f[x] : x \in S})
<1> DEFINE g == [x \in S |-> f[x]]
           T == {f[x] : x \in S}
<1>1. g \in Surjection(S, T)
  BY DEF Surjection
<1> HIDE DEF T, g
<1>2. IsFiniteSet(T)
  BY <1>1, FS_Surjection
<1> QED
  BY <1>2 DEF T

LEMMA IdleFields ==
  /\ DOMAIN Idle = {"task", "batch", "locked", "ips", "perms", "payload", "inventory", "index",
                    "target", "verdict"}
  /\ Idle.batch = {}
  BY DEF Idle

LEMMA ApproveBeginsKeeps ==
  ASSUME AddressInv, NEW a \in Actors, ApproveBegins(a)
  PROVE  AddressInv'
<1>1. PICK w : /\ Proceeds(a, "listed", << >>, w) /\ DOMAIN w = DOMAIN Idle
               /\ stage[a] = "idle"
  BY DEF ApproveBegins, Starts, Idle
<1>2. stage'[a] = "listed" /\ todo'[a] = << >> /\ work'[a] = w
  BY <1>1, Went DEF Proceeds
<1>3. WorkOK(a)'
  BY <1>1, <1>2, SequenceOfNone, PlainWorkOK
<1> QED
  BY <1>1, <1>3, ProceedsKeeps

LEMMA ApproveLocksEntriesKeeps ==
  ASSUME AddressInv, NEW a \in Actors, ApproveLocksEntries(a)
  PROVE  AddressInv'
<1> DEFINE found == {e \in Entries : queue[e].state = "pending" /\ queue[e].ip \in work[a].ips}
           w == [work[a] EXCEPT !.locked = found]
<1>1. Proceeds(a, "entries", Ordered("entry", found), w) /\ stage[a] = "listed"
  BY DEF ApproveLocksEntries, At
<1>2. found \subseteq Entries /\ found \subseteq Nat /\ IsFiniteSet(found)
  <2>1. found \subseteq Entries
    OBVIOUS
  <2>2. IsFiniteSet(found)
    BY <2>1, KeysAssumption, FS_Subset
  <2> QED
    BY <2>1, <2>2, KeysAssumption
<1>3. DOMAIN work[a] = DOMAIN Idle
  BY DEF AddressInv, WorkOK
<1>4. w.locked = found /\ DOMAIN w = DOMAIN Idle
  BY <1>3, IdleFields
<1> HIDE DEF found, w
<1>5. stage'[a] = "entries" /\ todo'[a] = Ordered("entry", found) /\ work'[a] = w
  BY <1>1, Went DEF Proceeds
<1>6. \A e \in found : Promised(a, EntryLock(e))'
  <2>1. ASSUME NEW e \in found
        PROVE  \E k \in DOMAIN todo'[a] : todo'[a][k] = EntryLock(e)
    BY <1>2, <1>5, OrderedListsAll DEF EntryLock
  <2> QED
    BY <2>1 DEF Promised, EntryLock
<1>7. IsSeq(todo[a])'
  <2>1. IsSeq(Ordered("entry", found))
    BY <1>2, OrderedIsSequence
  <2> QED
    BY <1>5, <2>1 DEF IsSeq
<1>8. ApprovalOK(a)'
  BY <1>2, <1>4, <1>5, <1>6 DEF ApprovalOK
<1>9. DOMAIN work'[a] = DOMAIN Idle'
  BY <1>4, <1>5 DEF Idle, NoDraft, NoPayload
<1>10. SyncOK(a)' /\ OthersOK(a)'
  BY <1>5 DEF SyncOK, OthersOK
<1>11. WorkOK(a)'
  BY <1>7, <1>8, <1>9, <1>10 DEF WorkOK
<1> QED
  BY <1>1, <1>11, ProceedsKeeps

LEMMA ApproveSelectsKeeps ==
  ASSUME AddressInv, NEW a \in Actors, ApproveSelects(a)
  PROVE  AddressInv'
<1> DEFINE locked == {e \in work[a].locked : queue[e].state = "pending" /\ queue[e].ip \in work[a].ips}
           items == locked \cap work[a].batch
           makers == {queue[e].mfr : e \in locked}
           w == [work[a] EXCEPT !.batch = items, !.locked = {}, !.ips = {}]
<1>1. /\ stage[a] = "entries" /\ todo[a] = << >>
      /\ Rollback(a) \/ Proceeds(a, "makers", Ordered("manufacturer", makers), w)
  BY DEF ApproveSelects, At
<1>2. \A e \in locked : /\ e \in Entries /\ holder[EntryLock(e)] = a
                        /\ queue[e].state = "pending"
  BY <1>1, PromiseKept DEF AddressInv, WorkOK, ApprovalOK
<1>3. IsFiniteSet(makers)
  <2>1. locked \subseteq Entries
    BY <1>2
  <2>2. IsFiniteSet(locked)
    BY <2>1, KeysAssumption, FS_Subset
  <2> DEFINE f == [e \in locked |-> queue[e].mfr]
  <2>3. IsFiniteSet({f[e] : e \in locked})
    <3> HIDE DEF f, locked
    <3> QED
      BY <2>2, ValuesFinite
  <2>4. {f[e] : e \in locked} = makers
    OBVIOUS
  <2> QED
    BY <2>3, <2>4
<1>4. DOMAIN work[a] = DOMAIN Idle
  BY DEF AddressInv, WorkOK
<1>5. w.batch = items /\ DOMAIN w = DOMAIN Idle
  BY <1>4, IdleFields
<1> HIDE DEF makers, w
<1>6. CASE Proceeds(a, "makers", Ordered("manufacturer", makers), w)
  <2>1. /\ stage'[a] = "makers" /\ todo'[a] = Ordered("manufacturer", makers) /\ work'[a] = w
        /\ UNCHANGED <<queue, holder>>
    BY <1>6, Went DEF Proceeds
  <2>2. IsSeq(todo'[a])
    BY <1>3, <2>1, OrderedIsSequence
  <2>3. WorkOK(a)'
    BY <1>2, <1>5, <2>1, <2>2, BatchWorkOK
  <2> QED
    BY <1>1, <1>6, <2>3, ProceedsKeeps
<1> QED
  BY <1>1, <1>6, RollbackKeeps

LEMMA ApproveLocksAddressesKeeps ==
  ASSUME AddressInv, NEW a \in Actors, ApproveLocksAddresses(a)
  PROVE  AddressInv'
<1> DEFINE items == work[a].batch
           ips == {queue[e].ip : e \in items}
<1>1. stage[a] = "makers" /\ Proceeds(a, "addresses", Ordered("address", ips), work[a])
  BY DEF ApproveLocksAddresses, At
<1>2. \A e \in items : /\ e \in Entries /\ holder[EntryLock(e)] = a
                       /\ queue[e].state = "pending" /\ queue[e].ip \in Addresses
  BY <1>1, BatchHeld
<1>3. ips \subseteq Addresses /\ ips \subseteq Nat
  BY <1>2, KeysAssumption
<1>4. IsFiniteSet(ips)
  BY <1>3, KeysAssumption, FS_Subset
<1>5. DOMAIN work[a] = DOMAIN Idle
  BY DEF AddressInv, WorkOK
<1>6. \A e \in items : queue[e].ip \in ips
  OBVIOUS
<1> HIDE DEF ips
<1>7. /\ stage'[a] = "addresses" /\ todo'[a] = Ordered("address", ips) /\ work'[a] = work[a]
      /\ UNCHANGED <<queue, holder>>
  BY <1>1, Went DEF Proceeds
<1>8. ASSUME NEW e \in items
      PROVE  Promised(a, AddressLock(queue[e].ip))'
  <2>1. \E k \in DOMAIN todo'[a] : todo'[a][k] = AddressLock(queue[e].ip)
    <3> DEFINE i == queue[e].ip
    <3>1. i \in ips
      BY <1>6
    <3> HIDE DEF i
    <3>2. \E k \in DOMAIN Ordered("address", ips) : Ordered("address", ips)[k] = <<"address", i>>
      BY <1>3, <1>4, <3>1, OrderedListsAll
    <3> QED
      BY <1>7, <3>2 DEF AddressLock, i
  <2> QED
    BY <1>7, <2>1 DEF Promised, AddressLock
<1>9. IsSeq(todo'[a])
  BY <1>4, <1>7, OrderedIsSequence
<1>10. WorkOK(a)'
  BY <1>2, <1>5, <1>7, <1>8, <1>9, BatchWorkOK
<1> QED
  BY <1>1, <1>10, ProceedsKeeps

\* The steps of an approval that holds its entries and the locks of their addresses.
LEMMA BatchGoesOn ==
  ASSUME AddressInv, NEW a \in Actors, NEW s, NEW locks, NEW w, Proceeds(a, s, locks, w),
         stage[a] \in {"addresses", "chassis", "chargers"}, todo[a] = << >>,
         s \in {"chassis", "chargers", "write"}, IsSeq(locks),
         DOMAIN w = DOMAIN Idle, w.batch = work[a].batch
  PROVE  AddressInv'
<1>1. stage'[a] = s /\ todo'[a] = locks /\ work'[a] = w /\ UNCHANGED <<queue, holder>>
  BY Went DEF Proceeds
<1>2. \A e \in work[a].batch : /\ e \in Entries /\ holder[EntryLock(e)] = a
                               /\ queue[e].state = "pending"
                               /\ holder[AddressLock(queue[e].ip)] = a
  BY BatchHeld
<1>3. \A e \in work'[a].batch : Promised(a, AddressLock(queue[e].ip))'
  BY <1>1, <1>2 DEF Promised, AddressLock
<1>4. WorkOK(a)'
  BY <1>1, <1>2, <1>3, BatchWorkOK
<1> QED
  BY <1>4, ProceedsKeeps

LEMMA ApproveLocksHardwareKeeps ==
  ASSUME AddressInv, NEW a \in Actors, ApproveLocksChassis(a) \/ ApproveLocksChargers(a)
  PROVE  AddressInv'
<1>1. DOMAIN work[a] = DOMAIN Idle
  BY DEF AddressInv, WorkOK
<1>2. CASE ApproveLocksChassis(a)
  <2> DEFINE found == {c \in Chassis : Wanted(work[a].batch, c)}
             w == [work[a] EXCEPT !.locked = found]
  <2>1. /\ stage[a] = "addresses" /\ todo[a] = << >>
        /\ Proceeds(a, "chassis", Ordered("row", found), w)
    BY <1>2 DEF ApproveLocksChassis, At
  <2>2. found \subseteq Chassis
    OBVIOUS
  <2>3. IsFiniteSet(found)
    BY <2>2, KeysAssumption, FS_Subset
  <2>4. DOMAIN w = DOMAIN Idle /\ w.batch = work[a].batch
    BY <1>1, IdleFields
  <2> HIDE DEF found, w
  <2>5. IsSeq(Ordered("row", found))
    BY <2>3, OrderedIsSequence
  <2> QED
    BY <2>1, <2>4, <2>5, BatchGoesOn
<1>3. CASE ApproveLocksChargers(a)
  <2> DEFINE found == {g \in Chargers : Wanted(work[a].batch, g)}
             w == [work[a] EXCEPT !.locked = @ \cup found]
  <2>1. /\ stage[a] = "chassis" /\ todo[a] = << >>
        /\ Proceeds(a, "chargers", Ordered("row", found), w)
    BY <1>3 DEF ApproveLocksChargers, At
  <2>2. found \subseteq Chargers
    OBVIOUS
  <2>3. IsFiniteSet(found)
    BY <2>2, KeysAssumption, FS_Subset
  <2>4. DOMAIN w = DOMAIN Idle /\ w.batch = work[a].batch
    BY <1>1, IdleFields
  <2> HIDE DEF found, w
  <2>5. IsSeq(Ordered("row", found))
    BY <2>3, OrderedIsSequence
  <2> QED
    BY <2>1, <2>4, <2>5, BatchGoesOn
<1> QED
  BY <1>2, <1>3

LEMMA ApprovePlansKeeps ==
  ASSUME AddressInv, NEW a \in Actors, ApprovePlans(a)
  PROVE  AddressInv'
<1> DEFINE items == work[a].batch
           L == Inventory(a)
           identities == {IdentityOf(e, L) : e \in {f \in items : ~IsCharger(f)}}
           locks == [k \in 1..Cardinality(identities) |-> <<"identity", SetToSeq(identities)[k]>>]
<1>1. /\ stage[a] = "chargers" /\ todo[a] = << >>
      /\ Rollback(a) \/ Proceeds(a, "write", locks, work[a])
  BY DEF ApprovePlans, At
<1>2. IsFiniteSet(identities)
  <2> DEFINE S == {f \in items : ~IsCharger(f)}
             f == [e \in S |-> IdentityOf(e, L)]
  <2>1. S \subseteq Entries
    BY <1>1, BatchHeld
  <2>2. IsFiniteSet(S)
    BY <2>1, KeysAssumption, FS_Subset
  <2>3. IsFiniteSet({f[e] : e \in S})
    <3> HIDE DEF f, S
    <3> QED
      BY <2>2, ValuesFinite
  <2>4. {f[e] : e \in S} = identities
    OBVIOUS
  <2> QED
    BY <2>3, <2>4
<1>3. Cardinality(identities) \in Nat
  BY <1>2, FS_CardinalityType
<1> HIDE DEF identities
<1>4. IsSeq(locks)
  BY <1>3 DEF IsSeq
<1>5. DOMAIN work[a] = DOMAIN Idle
  BY DEF AddressInv, WorkOK
<1> HIDE DEF locks
<1>6. CASE Proceeds(a, "write", locks, work[a])
  BY <1>1, <1>4, <1>5, <1>6, BatchGoesOn
<1> QED
  BY <1>1, <1>6, RollbackKeeps

LEMMA ImportedType ==
  ASSUME NEW e, queue[e] \in EntryType, queue[e].state # "absent", NEW h
  PROVE  Imported(e, h) \in EntryType
<1> DEFINE q == queue[e]
           d == IF h \in Chassis THEN h ELSE q.device
           g == IF h \in Chargers THEN h ELSE q.charger
<1>1. q \in EntryType /\ q.state # "absent"
  OBVIOUS
<1>2. Imported(e, h) = [q EXCEPT !.state = "imported", !.reviewed = TRUE, !.device = d, !.charger = g]
  BY DEF Imported
<1>3. d \in Chassis \cup {Nobody} /\ g \in Chargers \cup {Nobody}
  BY <1>1 DEF EntryType
<1> HIDE DEF q, d, g
<1> QED
  BY <1>1, <1>2, <1>3 DEF EntryType

\* The entries of the batch are marked under their locks.
LEMMA BatchImported ==
  ASSUME AddressInv, NEW a \in Actors, ApproveWrites(a), ~Rollback(a)
  PROVE  EntriesGuarded(a)
<1> DEFINE items == work[a].batch
           L == Inventory(a)
<1>1. stage[a] = "write" /\ todo[a] = << >>
  BY DEF ApproveWrites, At
<1>2. \A e \in items : /\ e \in Entries /\ holder[EntryLock(e)] = a
                       /\ queue[e] \in EntryType /\ queue[e].state # "absent"
                       /\ holder[AddressLock(queue[e].ip)] = a
  BY <1>1, BatchHeld
<1>3. queue' = [e \in Entries |-> IF e \in items THEN Imported(e, KeyOf(e, items, L))
                                                 ELSE queue[e]]
  BY DEF ApproveWrites
<1>4. \A e \in Entries : queue[e] \in EntryType
  BY DEF AddressInv, Domains
<1>5. \A e \in items : Imported(e, KeyOf(e, items, L)) \in EntryType
  BY <1>2, ImportedType
<1>6. queue' \in [Entries -> EntryType]
  BY <1>3, <1>4, <1>5
<1>7. \A e \in Entries : e \notin items => queue'[e] = queue[e]
  BY <1>3
<1> QED
  BY <1>2, <1>6, <1>7 DEF EntriesGuarded

LEMMA ApproveWritesKeeps ==
  ASSUME AddressInv, NEW a \in Actors, ApproveWrites(a)
  PROVE  AddressInv'
<1> DEFINE items == work[a].batch
           L == Inventory(a)
           w == Adoptions(items, L)
<1>1. stage[a] = "write" /\ todo[a] = << >>
  BY DEF ApproveWrites, At
<1>2. \A e \in items : holder[AddressLock(queue[e].ip)] = a
  BY <1>1, BatchHeld
<1>3. CASE Rollback(a)
  BY <1>3, RollbackKeeps
<1>4. CASE ~Rollback(a)
  <2>1. /\ \A h \in Hardware : w[h] # Nobody => Writable(Over(w, rows), h, w[h])
        /\ Commits(a, w)
    BY <1>4 DEF ApproveWrites
  <2>2. EntriesGuarded(a)
    BY <1>4, BatchImported
  <2>3. \A h \in Hardware : w[h] # Nobody => ~TakenByOtherKind(Over(w, rows), h, w[h].ip)
    BY <2>1 DEF Writable
  <2>4. ASSUME NEW g \in Chargers, w[g] # Nobody
        PROVE  holder[AddressLock(w[g].ip)] = a
    <3>1. g \in Hardware
      BY DEF Hardware
    <3>2. PICK e \in items : w[g] = Adopted(e, items, L)
      BY <2>4, <3>1 DEF Adoptions
    <3>3. Adopted(e, items, L).ip = queue[e].ip
      BY DEF Adopted, Row, NewChassis
    <3> QED
      BY <1>2, <3>2, <3>3
  <2> HIDE DEF w
  <2> QED
    BY <2>1, <2>2, <2>3, <2>4, CommitKeeps
<1> QED
  BY <1>3, <1>4

-----------------------------------------------------------------------------
(* Synchronization. *)

\* What a payload can be, and of which chassis.
LEMMA CheckDeviceResults ==
  ASSUME NEW p, NEW seen
  PROVE  LET v == CheckDevice(p, seen)
         IN  \/ v.kind \in {"new", "error"} /\ v.chassis = Nobody
             \/ v.kind \in {"conflict", "duplicate", "moved"} /\ v.chassis \in Chassis
<1> DEFINE known == {c \in Chassis : seen[c] # Nobody}
           bySerial == {c \in known : p.serial # Blank /\ seen[c].serial = p.serial}
           byIp == {c \in known : seen[c].ip = p.ip}
           byApi == {c \in known : seen[c].mfr = p.mfr /\ seen[c].api = p.api}
           found == IF bySerial # {} THEN bySerial ELSE IF byIp # {} THEN byIp ELSE byApi
           c == CHOOSE d \in found : TRUE
           v == CheckDevice(p, seen)
<1>1. \/ found = {} /\ v = Verdict("new", Nobody)
      \/ found # {} /\ \E kind \in {"error"} : v = Verdict(kind, Nobody)
      \/ found # {} /\ \E kind \in {"conflict", "duplicate", "moved"} : v = Verdict(kind, c)
  BY DEF CheckDevice
<1>2. found # {} => c \in Chassis
  OBVIOUS
<1> HIDE DEF found, c, v
<1>3. \A kind, d : Verdict(kind, d).kind = kind /\ Verdict(kind, d).chassis = d
  BY DEF Verdict
<1>4. \/ v.kind \in {"new", "error"} /\ v.chassis = Nobody
      \/ v.kind \in {"conflict", "duplicate", "moved"} /\ v.chassis \in Chassis
  BY <1>1, <1>2, <1>3
<1> QED
  BY <1>4 DEF v

\* A synchronization between two payloads.
LEMMA PayloadWorkOK ==
  ASSUME NEW a, stage'[a] \in {"index", "payload"}, IsSeq(todo'[a]),
         DOMAIN work'[a] = DOMAIN Idle, work'[a].inventory \in Seq(Payloads)
  PROVE  WorkOK(a)'
<1>1. DOMAIN work'[a] = DOMAIN Idle' /\ IsSeq(todo[a])'
  BY DEF Idle, NoDraft, NoPayload, IsSeq
<1> QED
  BY <1>1 DEF WorkOK, ApprovalOK, SyncOK, OthersOK

LEMMA SyncBeginsKeeps ==
  ASSUME AddressInv, NEW a \in Actors, SyncBegins(a)
  PROVE  AddressInv'
<1>1. PICK inv \in Inventories :
        Proceeds(a, "index", << <<"manufacturer", Min(Manufacturers)>>,
                                <<"manufacturer", inv[1].mfr>> >>,
                 [Idle EXCEPT !.task = "sync", !.inventory = inv])
  BY DEF SyncBegins
<1> DEFINE locks == << <<"manufacturer", Min(Manufacturers)>>, <<"manufacturer", inv[1].mfr>> >>
           w == [Idle EXCEPT !.task = "sync", !.inventory = inv]
<1>2. IsSeq(locks)
  BY SequenceOfTwo
<1>3. DOMAIN w = DOMAIN Idle /\ w.inventory = inv
  BY IdleFields
<1>4. inv \in Seq(Payloads)
  BY PayloadsAssumption
<1> HIDE DEF locks, w
<1>5. Proceeds(a, "index", locks, w)
  BY <1>1 DEF locks, w
<1>6. stage'[a] = "index" /\ todo'[a] = locks /\ work'[a] = w
  BY <1>5, Went DEF Proceeds
<1>7. WorkOK(a)'
  BY <1>2, <1>3, <1>4, <1>6, PayloadWorkOK
<1>8. stage[a] = "idle"
  BY DEF SyncBegins, Starts
<1> QED
  BY <1>5, <1>7, <1>8, ProceedsKeeps

LEMMA SyncIndexesKeeps ==
  ASSUME AddressInv, NEW a \in Actors, SyncIndexes(a)
  PROVE  AddressInv'
<1> DEFINE index == [h \in Hardware |-> IF h \in Chassis THEN rows[h] ELSE Nobody]
           w == [work[a] EXCEPT !.index = index]
<1>1. stage[a] = "index" /\ Proceeds(a, "payload", << >>, w)
  BY DEF SyncIndexes, At
<1>2. DOMAIN work[a] = DOMAIN Idle /\ work[a].inventory \in Seq(Payloads)
  BY <1>1 DEF AddressInv, WorkOK, SyncOK
<1>3. DOMAIN w = DOMAIN Idle /\ w.inventory = work[a].inventory
  BY <1>2, IdleFields
<1> HIDE DEF w
<1>4. stage'[a] = "payload" /\ todo'[a] = << >> /\ work'[a] = w
  BY <1>1, Went DEF Proceeds
<1>5. WorkOK(a)'
  BY <1>2, <1>3, <1>4, SequenceOfNone, PayloadWorkOK
<1> QED
  BY <1>1, <1>5, ProceedsKeeps

LEMMA SyncDecidesKeeps ==
  ASSUME AddressInv, NEW a \in Actors, SyncDecides(a)
  PROVE  AddressInv'
<1> DEFINE inv == work[a].inventory
           p == Head(inv)
           v == CheckDevice(p, work[a].index)
           c == v.chassis
           foreign == c # Nobody /\ work[a].index[c].mfr # p.mfr
           skip == [work[a] EXCEPT !.inventory = Tail(@)]
           next == [work[a] EXCEPT !.inventory = Tail(@), !.payload = p, !.target = c,
                                   !.verdict = v.kind]
           known == << <<"address", work[a].index[c].ip>>, <<"row", c>> >>
           moved == << <<"address", p.ip>>, <<"row", c>> >>
           new == << <<"address", p.ip>>, <<"identity", <<p.mfr, p.api>> >> >>
<1>1. stage[a] = "payload" /\ inv # << >>
  BY DEF SyncDecides, At
<1>2. DOMAIN work[a] = DOMAIN Idle /\ inv \in Seq(Payloads)
  BY <1>1 DEF AddressInv, WorkOK, SyncOK
<1>3. p \in Payloads /\ Tail(inv) \in Seq(Payloads)
  BY <1>1, <1>2
<1>4. p.ip \in Addresses
  BY <1>3, PayloadsAssumption
<1>5. \/ v.kind \in {"new", "error"} /\ c = Nobody
      \/ v.kind \in {"conflict", "duplicate", "moved"} /\ c \in Chassis
  BY CheckDeviceResults
<1>6. \/ Rollback(a)
      \/ Proceeds(a, "payload", << >>, skip)
      \/ v.kind = "duplicate" /\ Proceeds(a, "store", known, next)
      \/ v.kind = "moved" /\ Proceeds(a, "store", moved, next)
      \/ v.kind = "new" /\ Proceeds(a, "store", new, next)
  <2>1. v.kind = "new" => ~foreign
    BY <1>5
  <2> QED
    BY <1>5, <2>1 DEF SyncDecides
<1>7. /\ DOMAIN skip = DOMAIN Idle /\ skip.inventory = Tail(inv)
      /\ DOMAIN next = DOMAIN Idle /\ next.inventory = Tail(inv) /\ next.payload = p
      /\ next.target = c /\ next.verdict = v.kind
  BY <1>2, IdleFields
<1>8. IsSeq(known) /\ IsSeq(moved) /\ IsSeq(new)
  BY SequenceOfTwo
<1>9. /\ \E k \in DOMAIN moved : moved[k] = AddressLock(p.ip)
      /\ \E k \in DOMAIN new : new[k] = AddressLock(p.ip)
  <2>1. 1 \in DOMAIN moved /\ moved[1] = AddressLock(p.ip)
    BY DEF AddressLock
  <2>2. 1 \in DOMAIN new /\ new[1] = AddressLock(p.ip)
    BY DEF AddressLock
  <2> QED
    BY <2>1, <2>2
<1> HIDE DEF p, v, c, skip, next, known, moved, new
<1>10. CASE Proceeds(a, "payload", << >>, skip)
  <2>1. stage'[a] = "payload" /\ todo'[a] = << >> /\ work'[a] = skip
    BY <1>10, Went DEF Proceeds
  <2>2. DOMAIN work'[a] = DOMAIN Idle /\ work'[a].inventory \in Seq(Payloads)
    BY <1>3, <1>7, <2>1
  <2>3. WorkOK(a)'
    BY <2>1, <2>2, SequenceOfNone, PayloadWorkOK
  <2> QED
    BY <1>10, <2>3, ProceedsKeeps
<1>11. ASSUME NEW locks, Proceeds(a, "store", locks, next), IsSeq(locks),
              v.kind \in {"new", "moved", "duplicate"},
              v.kind # "duplicate" => \E k \in DOMAIN locks : locks[k] = AddressLock(p.ip)
       PROVE  AddressInv'
  <2>1. stage'[a] = "store" /\ todo'[a] = locks /\ work'[a] = next
    BY <1>11, Went DEF Proceeds
  <2>2. v.kind # "new" => c \in Chassis
    BY <1>5, <1>11
  <2>3. v.kind # "duplicate" => \E k \in DOMAIN todo'[a] : todo'[a][k] = AddressLock(p.ip)
    BY <1>11, <2>1
  <2>4. SyncOK(a)'
    BY <1>3, <1>4, <1>7, <1>11, <2>1, <2>2, <2>3 DEF SyncOK, Promised, AddressLock
  <2>5. ApprovalOK(a)' /\ OthersOK(a)'
    BY <2>1 DEF ApprovalOK, OthersOK
  <2>6. DOMAIN work'[a] = DOMAIN Idle' /\ IsSeq(todo[a])'
    BY <1>7, <1>11, <2>1 DEF Idle, NoDraft, NoPayload, IsSeq
  <2>7. WorkOK(a)'
    BY <2>4, <2>5, <2>6 DEF WorkOK
  <2> QED
    BY <1>11, <2>7, ProceedsKeeps
<1>12. CASE v.kind = "duplicate" /\ Proceeds(a, "store", known, next)
  BY <1>8, <1>11, <1>12
<1>13. CASE v.kind = "moved" /\ Proceeds(a, "store", moved, next)
  BY <1>8, <1>9, <1>11, <1>13
<1>14. CASE v.kind = "new" /\ Proceeds(a, "store", new, next)
  BY <1>8, <1>9, <1>11, <1>14
<1> QED
  BY <1>6, <1>10, <1>12, <1>13, <1>14, RollbackKeeps

LEMMA NextKeyFree ==
  ASSUME FreeKeys # {}
  PROVE  NextKey \in Chassis /\ NextKey \in Hardware /\ NextKey \notin Chargers
<1>1. NextKey \in FreeKeys
  BY DEF NextKey
<1> QED
  BY <1>1, KeysAssumption DEF FreeKeys, Hardware

\* A synchronization sees the chargers as they are committed.
LEMMA ChargersSeen ==
  ASSUME AddressInv, NEW a \in Actors, NEW g \in Chargers
  PROVE  draft[a][g] = Nobody /\ Sees(a)[g] = rows[g]
<1>1. g \in Hardware /\ g \notin Chassis
  BY KeysAssumption DEF Hardware
<1>2. draft[a][g] = Nobody
  BY <1>1 DEF AddressInv, DraftOK
<1> QED
  BY <1>1, <1>2 DEF Sees, Over

\* What was compared under the lock of the address is drafted.
LEMMA DraftKeeps ==
  ASSUME AddressInv, NEW a \in Actors, NEW c \in Chassis, NEW r,
         stage[a] = "store", stage'[a] \in {"payload", "store"},
         draft'[a] = [draft[a] EXCEPT ![c] = r], UNCHANGED <<rows, holder>>,
         r.ip \in Addresses, holder[AddressLock(r.ip)] = a,
         ~TakenByOtherKind(Sees(a), c, r.ip)
  PROVE  DraftOK(a)'
<1>1. DraftOK(a) /\ DOMAIN draft[a] = Hardware
  BY DEF AddressInv, DraftOK
<1>2. \A g \in Chargers : rows[g] # Nobody => rows[g].ip # r.ip
  BY ChargersSeen DEF TakenByOtherKind
<1>3. ASSUME NEW h \in Hardware, draft'[a][h] # Nobody
      PROVE  /\ h \in Chassis /\ draft'[a][h].ip \in Addresses
             /\ holder[AddressLock(draft'[a][h].ip)] = a
             /\ \A g \in Chargers : rows[g] # Nobody => rows[g].ip # draft'[a][h].ip
  <2>1. CASE h = c
    <3>1. draft'[a][h] = r
      BY <1>1, <2>1
    <3> QED
      BY <1>2, <2>1, <3>1
  <2>2. CASE h # c
    <3>1. draft'[a][h] = draft[a][h]
      BY <1>1, <2>2
    <3> QED
      BY <1>1, <1>3, <3>1 DEF DraftOK
  <2> QED
    BY <2>1, <2>2
<1> QED
  BY <1>1, <1>3 DEF DraftOK, AddressLock

LEMMA SyncStoresKeeps ==
  ASSUME AddressInv, NEW a \in Actors, SyncStores(a)
  PROVE  AddressInv'
<1> DEFINE p == work[a].payload
           v == work[a].verdict
           c == IF v = "new" THEN NextKey ELSE work[a].target
           r == CASE v = "new" -> NewChassis(p.mfr, p.api, p.serial, p.ip, "seen")
                  [] v = "moved" -> Readdressed(Sees(a)[c], p.ip)
                  [] v = "duplicate" -> work[a].index[c]
           refused == \/ TakenByOtherKind(Sees(a), c, r.ip)
                      \/ v # "duplicate" /\ Duplicates(Sees(a), c, r)
                      \/ v # "new" /\ Sees(a)[c].retired
           known == [work[a].index EXCEPT
                       ![c] = IF v = "new" THEN r ELSE Readdressed(@, r.ip)]
           w == [work[a] EXCEPT !.index = known, !.payload = NoPayload, !.target = Nobody,
                                !.verdict = "none"]
<1>1. stage[a] = "store" /\ todo[a] = << >>
  BY DEF SyncStores, At
<1>2. /\ DOMAIN work[a] = DOMAIN Idle /\ work[a].inventory \in Seq(Payloads)
      /\ p.ip \in Addresses /\ v \in {"new", "moved", "duplicate"}
      /\ v # "duplicate" => Promised(a, AddressLock(p.ip))
      /\ v # "new" => work[a].target \in Chassis
  BY <1>1 DEF AddressInv, WorkOK, SyncOK
<1>3. c \in Chassis
  BY <1>2, NextKeyFree DEF SyncStores
<1>4. v # "duplicate" => r.ip = p.ip /\ holder[AddressLock(r.ip)] = a
  <2>1. v # "duplicate" => r.ip = p.ip
    BY <1>2 DEF NewChassis, Readdressed, Row
  <2> HIDE DEF r
  <2>2. v # "duplicate" => holder[AddressLock(p.ip)] = a
    BY <1>1, <1>2, PromiseKept
  <2> QED
    BY <2>1, <2>2
<1>5. DOMAIN w = DOMAIN Idle /\ w.inventory = work[a].inventory
  BY <1>2, IdleFields
<1>6. \/ Rollback(a)
      \/ /\ ~refused
         /\ draft' = IF v = "duplicate" THEN draft ELSE [draft EXCEPT ![a][c] = r]
         /\ Goto(a, "payload", << >>, w) /\ UNCHANGED <<rows, queue, holder>>
  BY DEF SyncStores
<1> HIDE DEF r, c, w
<1>7. CASE Rollback(a)
  BY <1>7, RollbackKeeps
<1>8. CASE /\ ~refused
           /\ draft' = IF v = "duplicate" THEN draft ELSE [draft EXCEPT ![a][c] = r]
           /\ Goto(a, "payload", << >>, w) /\ UNCHANGED <<rows, queue, holder>>
  <2>1. stage'[a] = "payload" /\ todo'[a] = << >> /\ work'[a] = w
    BY <1>8, Went
  <2>2. WorkOK(a)'
    BY <1>2, <1>5, <2>1, SequenceOfNone, PayloadWorkOK
  <2>3. CASE v = "duplicate"
    <3>1. UNCHANGED <<rows, queue, draft, holder>>
      BY <1>8, <2>3
    <3> QED
      BY <1>8, <2>2, <3>1, GotoKeeps
  <2>4. CASE v # "duplicate"
    <3>1. draft' = [draft EXCEPT ![a] = [draft[a] EXCEPT ![c] = r]]
      BY <1>8, <2>4
    <3>2. draft'[a] = [draft[a] EXCEPT ![c] = r]
      BY <3>1 DEF AddressInv, Domains
    <3>3. ~TakenByOtherKind(Sees(a), c, r.ip)
      BY <1>8
    <3>4. DraftOK(a)'
      BY <1>1, <1>2, <1>3, <1>4, <1>8, <2>1, <2>4, <3>2, <3>3, DraftKeeps
    <3>5. /\ stage' = [stage EXCEPT ![a] = stage'[a]] /\ todo' = [todo EXCEPT ![a] = todo'[a]]
          /\ work' = [work EXCEPT ![a] = work'[a]]
      BY <1>8, <2>1 DEF Goto
    <3>6. /\ holder' \in [Locks -> Actors \cup {Nobody}]
          /\ \A l \in Locks, b \in Actors \ {a} : holder[l] = b => holder'[l] = b
      BY <1>8, HolderKept
    <3>7. Quiet(a)
      BY <3>1, <3>2, <3>5, <3>6 DEF Quiet
    <3>8. EntriesGuarded(a) /\ ChargersGuarded(a) /\ AddressesExclusive'
      BY <1>8, NothingWritten
    <3> QED
      BY <2>2, <3>4, <3>7, <3>8, StepKeeps
  <2> QED
    BY <2>3, <2>4
<1> QED
  BY <1>6, <1>7, <1>8

LEMMA SyncCommitsKeeps ==
  ASSUME AddressInv, NEW a \in Actors, SyncCommits(a)
  PROVE  AddressInv'
<1>1. Commits(a, draft[a]) /\ UNCHANGED queue
  BY DEF SyncCommits
<1>2. \A g \in Chargers : draft[a][g] = Nobody
  BY ChargersSeen
<1>3. ASSUME NEW h \in Hardware, draft[a][h] # Nobody
      PROVE  ~TakenByOtherKind(Over(draft[a], rows), h, draft[a][h].ip)
  <2>1. h \in Chassis /\ \A g \in Chargers : rows[g] # Nobody => rows[g].ip # draft[a][h].ip
    BY <1>3 DEF AddressInv, DraftOK
  <2>2. \A g \in Chargers : Over(draft[a], rows)[g] = rows[g]
    BY <1>2 DEF Over, Hardware
  <2> QED
    BY <2>1, <2>2 DEF TakenByOtherKind
<1>4. EntriesGuarded(a)
  BY <1>1 DEF AddressInv, Domains, EntriesGuarded
<1> QED
  BY <1>1, <1>2, <1>3, <1>4, CommitKeeps

-----------------------------------------------------------------------------
(* Realtime messages, promotion, chargers. *)

\* A transaction that has selected a chassis for update.
LEMMA SelectedWorkOK ==
  ASSUME NEW a, stage'[a] \in {"selected", "update"}, IsSeq(todo'[a]),
         DOMAIN work'[a] = DOMAIN Idle, work'[a].target \in Chassis
  PROVE  WorkOK(a)'
<1>1. DOMAIN work'[a] = DOMAIN Idle' /\ IsSeq(todo[a])'
  BY DEF Idle, NoDraft, NoPayload, IsSeq
<1> QED
  BY <1>1 DEF WorkOK, ApprovalOK, SyncOK, OthersOK

LEMMA InsertLocksSequence ==
  ASSUME NEW p
  PROVE  IsSeq(InsertLocks(p))
  BY SequenceOfTwo DEF InsertLocks

LEMMA UpsertKeeps ==
  ASSUME AddressInv, NEW a \in Actors, NEW w, DOMAIN w = DOMAIN Idle, Upsert(a, w),
         stage[a] \notin {"payload", "store"}, UNCHANGED <<rows, queue, draft, holder>>
  PROVE  AddressInv'
<1>1. CASE Goto(a, "insert", InsertLocks(w.payload), w)
  <2>1. stage'[a] = "insert" /\ todo'[a] = InsertLocks(w.payload) /\ work'[a] = w
    BY <1>1, Went
  <2>2. WorkOK(a)'
    BY <2>1, InsertLocksSequence, PlainWorkOK
  <2> QED
    BY <1>1, <2>2, GotoKeeps
<1>2. ASSUME NEW c \in Chassis, Goto(a, "selected", << <<"row", c>> >>, [w EXCEPT !.target = c])
      PROVE  AddressInv'
  <2> DEFINE u == [w EXCEPT !.target = c]
  <2>1. DOMAIN u = DOMAIN Idle /\ u.target = c
    BY IdleFields
  <2> HIDE DEF u
  <2>2. Goto(a, "selected", << <<"row", c>> >>, u)
    BY <1>2 DEF u
  <2>3. stage'[a] = "selected" /\ todo'[a] = << <<"row", c>> >> /\ work'[a] = u
    BY <2>2, Went
  <2>4. IsSeq(todo'[a])
    <3>1. IsSeq(<< <<"row", c>> >>)
      BY SequenceOfOne
    <3> QED
      BY <2>3, <3>1
  <2>5. WorkOK(a)'
    BY <2>1, <2>3, <2>4, SelectedWorkOK
  <2> QED
    BY <2>2, <2>5, GotoKeeps
<1> QED
  BY <1>1, <1>2 DEF Upsert, SameApi

LEMMA RealtimeBeginsKeeps ==
  ASSUME AddressInv, NEW a \in Actors, RealtimeBegins(a)
  PROVE  AddressInv'
<1>1. PICK p : Upsert(a, [Idle EXCEPT !.task = "realtime", !.payload = p])
  BY DEF RealtimeBegins
<1> DEFINE w == [Idle EXCEPT !.task = "realtime", !.payload = p]
<1>2. DOMAIN w = DOMAIN Idle
  BY IdleFields
<1> HIDE DEF w
<1>3. Upsert(a, w) /\ stage[a] = "idle" /\ UNCHANGED <<rows, queue, draft, holder>>
  BY <1>1 DEF RealtimeBegins, Starts, w
<1> QED
  BY <1>2, <1>3, UpsertKeeps

LEMMA RealtimeSelectedKeeps ==
  ASSUME AddressInv, NEW a \in Actors, RealtimeSelected(a)
  PROVE  AddressInv'
<1> DEFINE p == work[a].payload
           w == [work[a] EXCEPT !.target = Nobody]
<1>1. /\ stage[a] = "selected"
      /\ \/ Proceeds(a, "update", << <<"address", p.ip>> >>, work[a])
         \/ Rollback(a)
         \/ Proceeds(a, "insert", InsertLocks(p), w)
  BY DEF RealtimeSelected, At
<1>2. DOMAIN work[a] = DOMAIN Idle /\ work[a].target \in Chassis
  BY <1>1 DEF AddressInv, WorkOK, OthersOK
<1>3. DOMAIN w = DOMAIN Idle
  BY <1>2, IdleFields
<1> HIDE DEF p, w
<1>4. CASE Proceeds(a, "update", << <<"address", p.ip>> >>, work[a])
  <2>1. stage'[a] = "update" /\ todo'[a] = << <<"address", p.ip>> >> /\ work'[a] = work[a]
    BY <1>4, Went DEF Proceeds
  <2>2. IsSeq(todo'[a])
    <3>1. IsSeq(<< <<"address", p.ip>> >>)
      BY SequenceOfOne
    <3> QED
      BY <2>1, <3>1
  <2>3. WorkOK(a)'
    BY <1>2, <2>1, <2>2, SelectedWorkOK
  <2> QED
    BY <1>1, <1>4, <2>3, ProceedsKeeps
<1>5. CASE Proceeds(a, "insert", InsertLocks(p), w)
  <2>1. stage'[a] = "insert" /\ todo'[a] = InsertLocks(p) /\ work'[a] = w
    BY <1>5, Went DEF Proceeds
  <2>2. WorkOK(a)'
    BY <1>3, <2>1, InsertLocksSequence, PlainWorkOK
  <2> QED
    BY <1>1, <1>5, <2>2, ProceedsKeeps
<1> QED
  BY <1>1, <1>4, <1>5, RollbackKeeps

\* A chassis is written after a comparison with the committed rows.
LEMMA ChassisWriteKeeps ==
  ASSUME AddressInv, NEW a \in Actors, NEW c \in Chassis, NEW r,
         Commits(a, Write(c, r)), UNCHANGED queue, Writable(rows, c, r)
  PROVE  AddressInv'
<1>1. c \in Hardware /\ c \notin Chargers /\ ~TakenByOtherKind(rows, c, r.ip)
  BY KeysAssumption DEF Hardware, Writable
<1> QED
  BY <1>1, WriteKeeps

LEMMA RealtimeUpdatesKeeps ==
  ASSUME AddressInv, NEW a \in Actors, RealtimeUpdates(a)
  PROVE  AddressInv'
<1> DEFINE c == work[a].target
           r == Readdressed(rows[c], work[a].payload.ip)
<1>1. c \in Chassis
  BY DEF RealtimeUpdates, At, AddressInv, WorkOK, OthersOK
<1>2. \/ Rollback(a)
      \/ Writable(rows, c, r) /\ Commits(a, Write(c, r)) /\ UNCHANGED queue
  BY DEF RealtimeUpdates
<1> HIDE DEF c, r
<1> QED
  BY <1>1, <1>2, RollbackKeeps, ChassisWriteKeeps

\* A lost race: the savepoint's locks are given back, nothing was drafted.
LEMMA LostRaceKeeps ==
  ASSUME AddressInv, NEW a \in Actors, NEW d \in Chassis, NEW w, DOMAIN w = DOMAIN Idle,
         w.target = d, stage[a] = "insert", Goto(a, "selected", << <<"row", d>> >>, w),
         holder' = Released(a), UNCHANGED <<rows, queue, draft>>
  PROVE  AddressInv'
<1>1. stage'[a] = "selected" /\ todo'[a] = << <<"row", d>> >> /\ work'[a] = w
  BY Went
<1>2. WorkOK(a)'
  BY <1>1, SequenceOfOne, SelectedWorkOK
<1>3. DraftOK(a)'
  BY DEF AddressInv, DraftOK
<1>4. /\ holder' \in [Locks -> Actors \cup {Nobody}]
      /\ \A l \in Locks, b \in Actors \ {a} : holder[l] = b => holder'[l] = b
  BY HolderReleased
<1>5. /\ stage' = [stage EXCEPT ![a] = stage'[a]] /\ todo' = [todo EXCEPT ![a] = todo'[a]]
      /\ work' = [work EXCEPT ![a] = work'[a]]
  BY <1>1 DEF Goto
<1>6. draft' = [draft EXCEPT ![a] = draft'[a]]
  BY DEF AddressInv, Domains
<1>7. Quiet(a)
  BY <1>4, <1>5, <1>6 DEF Quiet
<1>8. EntriesGuarded(a) /\ ChargersGuarded(a) /\ AddressesExclusive'
  BY NothingWritten
<1> QED
  BY <1>2, <1>3, <1>7, <1>8, StepKeeps

LEMMA RealtimeInsertsKeeps ==
  ASSUME AddressInv, NEW a \in Actors, RealtimeInserts(a)
  PROVE  AddressInv'
<1> DEFINE p == work[a].payload
           c == NextKey
           r == NewChassis(p.mfr, p.api, Blank, p.ip, "seen")
           w(d) == [work[a] EXCEPT !.target = d, !.verdict = "retried"]
<1>1. c \in Chassis /\ stage[a] = "insert"
  BY NextKeyFree DEF RealtimeInserts, At
<1>2. DOMAIN work[a] = DOMAIN Idle
  BY DEF AddressInv, WorkOK
<1>3. \/ Rollback(a)
      \/ Writable(rows, c, r) /\ Commits(a, Write(c, r)) /\ UNCHANGED queue
      \/ \E d \in Chassis : /\ Goto(a, "selected", << <<"row", d>> >>, w(d))
                            /\ holder' = Released(a) /\ UNCHANGED <<rows, queue, draft>>
  BY DEF RealtimeInserts, SameApi
<1>4. \A d : DOMAIN w(d) = DOMAIN Idle /\ w(d).target = d
  BY <1>2, IdleFields
<1> HIDE DEF c, r, w
<1> QED
  BY <1>1, <1>3, <1>4, RollbackKeeps, ChassisWriteKeeps, LostRaceKeeps

LEMMA PromoteBeginsKeeps ==
  ASSUME AddressInv, NEW a \in Actors, PromoteBegins(a)
  PROVE  AddressInv'
<1>1. PICK p : \/ Proceeds(a, "check", << >>, [Idle EXCEPT !.task = "promote", !.payload = p])
               \/ Proceeds(a, "insert", InsertLocks(p), [Idle EXCEPT !.task = "promote", !.payload = p])
  BY DEF PromoteBegins
<1> DEFINE w == [Idle EXCEPT !.task = "promote", !.payload = p]
<1>2. DOMAIN w = DOMAIN Idle
  BY IdleFields
<1> HIDE DEF w
<1>3. PICK s \in {"check", "insert"}, locks \in {<< >>, InsertLocks(p)} : Proceeds(a, s, locks, w)
  BY <1>1 DEF w
<1>4. IsSeq(locks)
  BY SequenceOfNone, InsertLocksSequence
<1>5. stage'[a] = s /\ todo'[a] = locks /\ work'[a] = w
  BY <1>3, Went DEF Proceeds
<1>6. WorkOK(a)'
  BY <1>2, <1>4, <1>5, PlainWorkOK
<1>7. stage[a] = "idle"
  BY DEF PromoteBegins, Starts
<1> QED
  BY <1>3, <1>6, <1>7, ProceedsKeeps

LEMMA PromoteChecksKeeps ==
  ASSUME AddressInv, NEW a \in Actors, PromoteChecks(a)
  PROVE  AddressInv'
<1> DEFINE locks == InsertLocks(work[a].payload)
<1>1. stage[a] = "check" /\ (Rollback(a) \/ Proceeds(a, "insert", locks, work[a]))
  BY DEF PromoteChecks, At
<1>2. DOMAIN work[a] = DOMAIN Idle
  BY DEF AddressInv, WorkOK
<1>3. IsSeq(locks)
  BY InsertLocksSequence
<1> HIDE DEF locks
<1>4. CASE Proceeds(a, "insert", locks, work[a])
  <2>1. stage'[a] = "insert" /\ todo'[a] = locks /\ work'[a] = work[a]
    BY <1>4, Went DEF Proceeds
  <2>2. WorkOK(a)'
    BY <1>2, <1>3, <2>1, PlainWorkOK
  <2> QED
    BY <1>1, <1>4, <2>2, ProceedsKeeps
<1> QED
  BY <1>1, <1>4, RollbackKeeps

LEMMA PromoteInsertsKeeps ==
  ASSUME AddressInv, NEW a \in Actors, PromoteInserts(a)
  PROVE  AddressInv'
<1> DEFINE p == work[a].payload
           r == NewChassis(p.mfr, p.api, p.serial, p.ip, "promoted")
<1>1. NextKey \in Chassis
  BY NextKeyFree DEF PromoteInserts
<1>2. \/ Rollback(a)
      \/ Writable(rows, NextKey, r) /\ Commits(a, Write(NextKey, r)) /\ UNCHANGED queue
  BY DEF PromoteInserts
<1> HIDE DEF r
<1> QED
  BY <1>1, <1>2, RollbackKeeps, ChassisWriteKeeps

LEMMA ChargerBeginsKeeps ==
  ASSUME AddressInv, NEW a \in Actors, ChargerBegins(a)
  PROVE  AddressInv'
<1>1. PICK g \in Chargers, i \in Addresses :
        Proceeds(a, "edit", << <<"address", i>>, <<"row", g>> >>,
                 [Idle EXCEPT !.task = "charger", !.target = g,
                              !.payload = [NoPayload EXCEPT !.ip = i]])
  BY DEF ChargerBegins
<1> DEFINE locks == << <<"address", i>>, <<"row", g>> >>
           w == [Idle EXCEPT !.task = "charger", !.target = g,
                             !.payload = [NoPayload EXCEPT !.ip = i]]
<1>2. DOMAIN w = DOMAIN Idle /\ w.target = g /\ w.payload.ip = i
  BY IdleFields DEF NoPayload
<1>3. IsSeq(locks)
  BY SequenceOfTwo
<1>4. 1 \in DOMAIN locks /\ locks[1] = AddressLock(i)
  BY DEF AddressLock
<1> HIDE DEF locks, w
<1>5. Proceeds(a, "edit", locks, w)
  BY <1>1 DEF locks, w
<1>6. stage'[a] = "edit" /\ todo'[a] = locks /\ work'[a] = w
  BY <1>5, Went DEF Proceeds
<1>7. OthersOK(a)'
  BY <1>2, <1>4, <1>6 DEF OthersOK, Promised, AddressLock
<1>8. ApprovalOK(a)' /\ SyncOK(a)'
  BY <1>6 DEF ApprovalOK, SyncOK
<1>9. DOMAIN work'[a] = DOMAIN Idle' /\ IsSeq(todo[a])'
  BY <1>2, <1>3, <1>6 DEF Idle, NoDraft, NoPayload, IsSeq
<1>10. WorkOK(a)'
  BY <1>7, <1>8, <1>9 DEF WorkOK
<1>11. stage[a] = "idle"
  BY DEF ChargerBegins, Starts
<1> QED
  BY <1>5, <1>10, <1>11, ProceedsKeeps

LEMMA ChargerSavesKeeps ==
  ASSUME AddressInv, NEW a \in Actors, ChargerSaves(a)
  PROVE  AddressInv'
<1> DEFINE g == work[a].target
           r == Readdressed(rows[g], work[a].payload.ip)
<1>1. /\ g \in Chargers /\ Promised(a, AddressLock(work[a].payload.ip)) /\ todo[a] = << >>
  BY DEF ChargerSaves, At, AddressInv, WorkOK, OthersOK
<1>2. g \in Hardware
  BY <1>1 DEF Hardware
<1>3. holder[AddressLock(work[a].payload.ip)] = a
  BY <1>1, PromiseKept
<1>4. r.ip = work[a].payload.ip
  BY DEF Readdressed, Row
<1>5. \/ Rollback(a)
      \/ Writable(rows, g, r) /\ Commits(a, Write(g, r)) /\ UNCHANGED queue
  BY DEF ChargerSaves
<1> HIDE DEF g, r
<1>6. Writable(rows, g, r) => ~TakenByOtherKind(rows, g, r.ip)
  BY DEF Writable
<1>7. holder[AddressLock(r.ip)] = a
  BY <1>3, <1>4
<1> QED
  BY <1>2, <1>5, <1>6, <1>7, RollbackKeeps, WriteKeeps

-----------------------------------------------------------------------------
(* The queue. *)

\* A payload replaces what an entry had.
LEMMA UpsertedType ==
  ASSUME NEW p \in Payloads, NEW old \in EntryType \cup {[NoEntry EXCEPT !.state = "pending"]}
  PROVE  [old EXCEPT !.mfr = p.mfr, !.api = p.api, !.serial = p.serial, !.ip = p.ip,
                     !.role = p.role] \in EntryType
<1>1. p.mfr \in Manufacturers /\ p.ip \in Addresses
  BY PayloadsAssumption
<1> DEFINE Entry == [state : {"absent", "pending", "imported", "dismissed"},
                     mfr : Manufacturers \cup {Nobody}, api : {q.api : q \in Payloads} \cup {Blank},
                     serial : Serials,
                     ip : Addresses \cup {Nobody},
                     role : {q.role : q \in Payloads} \cup {"none"}, device : Chassis \cup {Nobody},
                     charger : Chargers \cup {Nobody}, conflict : BOOLEAN, reviewed : BOOLEAN]
           new == [old EXCEPT !.mfr = p.mfr, !.api = p.api, !.serial = p.serial, !.ip = p.ip,
                              !.role = p.role]
<1>2. old \in Entry
  BY DEF EntryType, NoEntry, Serials
<1>3. p.api \in {q.api : q \in Payloads} /\ p.serial \in Serials
      /\ p.role \in {q.role : q \in Payloads}
  BY DEF Serials
<1>4. new \in Entry /\ new.ip = p.ip /\ new.mfr = p.mfr
  BY <1>1, <1>2, <1>3
<1> QED
  BY <1>1, <1>4 DEF EntryType

\* The upsert writes an entry that nobody has locked.
LEMMA UpsertGuarded ==
  ASSUME AddressInv, NEW a \in Actors, QueueUpserts(a)
  PROVE  EntriesGuarded(a)
<1> DEFINE Old(e) == IF queue[e].state = "absent" THEN [NoEntry EXCEPT !.state = "pending"]
                     ELSE queue[e]
           New(e, p) == [Old(e) EXCEPT !.mfr = p.mfr, !.api = p.api, !.serial = p.serial,
                                       !.ip = p.ip, !.role = p.role]
<1>1. PICK p \in Payloads, e \in Entries :
        /\ holder[<<"entry", e>>] = Nobody
        /\ queue' = [queue EXCEPT ![e] = New(e, p)]
  BY DEF QueueUpserts, EntriesOf
<1>2. New(e, p) \in EntryType
  <2>1. Old(e) \in EntryType \cup {[NoEntry EXCEPT !.state = "pending"]}
    BY DEF AddressInv, Domains
  <2> QED
    BY <2>1, UpsertedType
<1> HIDE DEF New
<1>3. queue \in [Entries -> EntryType]
  BY DEF AddressInv, Domains
<1>4. queue' \in [Entries -> EntryType] /\ \A f \in Entries : f # e => queue'[f] = queue[f]
  BY <1>1, <1>2, <1>3
<1> QED
  BY <1>1, <1>4 DEF EntriesGuarded, EntryLock

LEMMA QueueUpsertsKeeps ==
  ASSUME AddressInv, NEW a \in Actors, QueueUpserts(a)
  PROVE  AddressInv'
<1> DEFINE Old(e) == IF queue[e].state = "absent" THEN [NoEntry EXCEPT !.state = "pending"]
                     ELSE queue[e]
           W(e, p) == [Idle EXCEPT !.task = "queue", !.payload = p, !.batch = {e},
                                   !.verdict = Old(e).state]
<1>1. PICK p \in Payloads, e \in Entries : Goto(a, "classify", << >>, W(e, p))
  BY DEF QueueUpserts, EntriesOf
<1>2. UNCHANGED <<rows, draft, holder>> /\ stage[a] = "idle"
  BY DEF QueueUpserts, Starts
<1>3. DOMAIN W(e, p) = DOMAIN Idle /\ W(e, p).batch = {e}
  BY IdleFields
<1> HIDE DEF W
<1>4. EntriesGuarded(a)
  BY UpsertGuarded
<1>5. stage'[a] = "classify" /\ todo'[a] = << >> /\ work'[a] = W(e, p)
  BY <1>1, Went
<1>6. WorkOK(a)'
  <2>1. DOMAIN work'[a] = DOMAIN Idle'
    BY <1>3, <1>5 DEF Idle, NoDraft, NoPayload
  <2>2. IsSeq(todo[a])'
    BY <1>5, SequenceOfNone DEF IsSeq
  <2>3. ApprovalOK(a)' /\ SyncOK(a)' /\ OthersOK(a)'
    BY <1>3, <1>5 DEF ApprovalOK, SyncOK, OthersOK
  <2> QED
    BY <2>1, <2>2, <2>3 DEF WorkOK
<1>7. DraftOK(a)'
  <2>1. draft[a] = draft'[a] /\ \A h \in Hardware : draft[a][h] = Nobody
    BY <1>2 DEF AddressInv, DraftOK
  <2>2. DOMAIN draft[a] = Hardware
    BY DEF AddressInv, DraftOK
  <2> QED
    BY <2>1, <2>2 DEF DraftOK
<1>8. Quiet(a)
  <2>1. /\ stage' = [stage EXCEPT ![a] = stage'[a]] /\ todo' = [todo EXCEPT ![a] = todo'[a]]
        /\ work' = [work EXCEPT ![a] = work'[a]]
    BY <1>1, <1>5 DEF Goto
  <2>2. draft' = [draft EXCEPT ![a] = draft'[a]]
    BY <1>2 DEF AddressInv, Domains
  <2>3. /\ holder' \in [Locks -> Actors \cup {Nobody}]
        /\ \A l \in Locks, b \in Actors \ {a} : holder[l] = b => holder'[l] = b
    BY <1>2, HolderKept
  <2> QED
    BY <2>1, <2>2, <2>3 DEF Quiet
<1>9. ChargersGuarded(a) /\ AddressesExclusive'
  BY <1>2 DEF ChargersGuarded, AddressInv, AddressesExclusive
<1> QED
  BY <1>4, <1>6, <1>7, <1>8, <1>9, StepKeeps

\* A queue transaction that goes on with its entry.
LEMMA QueueWorkOK ==
  ASSUME NEW a, stage'[a] = "record", todo'[a] = << >>, DOMAIN work'[a] = DOMAIN Idle,
         work'[a].batch # {}
  PROVE  WorkOK(a)'
<1>1. DOMAIN work'[a] = DOMAIN Idle'
  BY DEF Idle, NoDraft, NoPayload
<1>2. IsSeq(todo[a])'
  BY SequenceOfNone DEF IsSeq
<1> QED
  BY <1>1, <1>2 DEF WorkOK, ApprovalOK, SyncOK, OthersOK

LEMMA QueueClassifiesKeeps ==
  ASSUME AddressInv, NEW a \in Actors, QueueClassifies(a)
  PROVE  AddressInv'
<1> DEFINE W(h, s) == [work[a] EXCEPT !.target = h, !.locked = s]
<1>1. PICK h, s : Proceeds(a, "record", << >>, W(h, s))
  BY DEF QueueClassifies
<1>2. stage[a] = "classify" /\ DOMAIN work[a] = DOMAIN Idle /\ work[a].batch # {}
  BY DEF QueueClassifies, At, AddressInv, WorkOK, OthersOK
<1>3. DOMAIN W(h, s) = DOMAIN Idle /\ W(h, s).batch = work[a].batch
  BY <1>2, IdleFields
<1> HIDE DEF W
<1>4. stage'[a] = "record" /\ todo'[a] = << >> /\ work'[a] = W(h, s)
  BY <1>1, Went DEF Proceeds
<1>5. WorkOK(a)'
  BY <1>2, <1>3, <1>4, QueueWorkOK
<1> QED
  BY <1>1, <1>2, <1>5, ProceedsKeeps

LEMMA RecordedType ==
  ASSUME NEW q \in EntryType, NEW conflict \in BOOLEAN, NEW device \in Chassis \cup {Nobody},
         NEW charger \in Chargers \cup {Nobody}, NEW reviewed \in BOOLEAN
  PROVE  [q EXCEPT !.conflict = conflict, !.device = device, !.charger = charger,
                   !.reviewed = reviewed] \in EntryType
<1> DEFINE Entry == [state : {"absent", "pending", "imported", "dismissed"},
                     mfr : Manufacturers \cup {Nobody}, api : {p.api : p \in Payloads} \cup {Blank},
                     serial : Serials,
                     ip : Addresses \cup {Nobody},
                     role : {p.role : p \in Payloads} \cup {"none"}, device : Chassis \cup {Nobody},
                     charger : Chargers \cup {Nobody}, conflict : BOOLEAN, reviewed : BOOLEAN]
           new == [q EXCEPT !.conflict = conflict, !.device = device, !.charger = charger,
                            !.reviewed = reviewed]
<1>1. q \in Entry /\ (q.state # "absent" => q.mfr \in Manufacturers /\ q.ip \in Addresses)
  BY DEF EntryType
<1>2. new \in Entry /\ new.state = q.state /\ new.ip = q.ip /\ new.mfr = q.mfr
  <2>1. CASE conflict = TRUE /\ reviewed = TRUE
    BY <1>1, <2>1
  <2>2. CASE conflict = TRUE /\ reviewed = FALSE
    BY <1>1, <2>2
  <2>3. CASE conflict = FALSE /\ reviewed = TRUE
    BY <1>1, <2>3
  <2>4. CASE conflict = FALSE /\ reviewed = FALSE
    <3>1. new = [q EXCEPT !.conflict = FALSE, !.device = device, !.charger = charger,
                            !.reviewed = FALSE]
      BY <2>4
    <3> HIDE DEF new
    <3> QED
      BY <1>1, <3>1
  <2>5. conflict \in {TRUE, FALSE} /\ reviewed \in {TRUE, FALSE}
    OBVIOUS
  <2> HIDE DEF Entry, new
  <2> QED
    BY <2>1, <2>2, <2>3, <2>4, <2>5, Zenon
<1> QED
  BY <1>1, <1>2 DEF EntryType

\* The classification is recorded in an entry that nobody has locked.
LEMMA RecordGuarded ==
  ASSUME AddressInv, NEW a \in Actors, QueueRecords(a)
  PROVE  EntriesGuarded(a)
<1> DEFINE h == work[a].target
           device == IF h \in Chassis THEN h ELSE Nobody
           charger == IF h \in Chargers THEN h ELSE Nobody
           conflict == work[a].locked # {}
           Reviewed(e) == IF work[a].verdict = "pending" THEN FALSE ELSE queue[e].reviewed
           New(e) == [queue[e] EXCEPT !.conflict = conflict, !.device = device,
                                      !.charger = charger, !.reviewed = Reviewed(e)]
<1>1. queue \in [Entries -> EntryType]
  BY DEF AddressInv, Domains
<1>2. PICK e \in work[a].batch :
        /\ holder[<<"entry", e>>] = Nobody
        /\ queue' = [queue EXCEPT ![e].conflict = conflict, ![e].device = device,
                       ![e].charger = charger, ![e].reviewed =
                         IF work[a].verdict = "pending" THEN FALSE ELSE @]
  <2>1. work[a].batch # {}
    BY DEF QueueRecords, At, AddressInv, WorkOK, OthersOK
  <2>2. \A e \in work[a].batch :
          /\ holder[<<"entry", e>>] = Nobody
          /\ queue' = [queue EXCEPT ![e].conflict = conflict, ![e].device = device,
                         ![e].charger = charger, ![e].reviewed =
                           IF work[a].verdict = "pending" THEN FALSE ELSE @]
    BY DEF QueueRecords
  <2> QED
    BY <2>1, <2>2
<1>3. queue' \in [Entries -> EntryType] /\ \A f \in Entries : f # e => queue'[f] = queue[f]
  <2>1. CASE e \in Entries
    <3>1. queue' = [queue EXCEPT ![e] = New(e)]
      BY <1>1, <1>2, <2>1
    <3>2. queue[e] \in EntryType
      BY <1>1, <2>1
    <3>3. queue[e].reviewed \in BOOLEAN
      BY <3>2 DEF EntryType
    <3>4. conflict \in BOOLEAN /\ device \in Chassis \cup {Nobody}
          /\ charger \in Chargers \cup {Nobody} /\ Reviewed(e) \in BOOLEAN
      BY <3>3
    <3>5. New(e) \in EntryType
      <4> DEFINE reviewed == Reviewed(e)
      <4> HIDE DEF conflict, device, charger, Reviewed, reviewed
      <4>1. [queue[e] EXCEPT !.conflict = conflict, !.device = device, !.charger = charger,
                             !.reviewed = reviewed] \in EntryType
        BY <3>2, <3>4, RecordedType DEF reviewed
      <4> QED
        BY <4>1 DEF reviewed
    <3> QED
      BY <1>1, <2>1, <3>1, <3>5
  <2>2. CASE e \notin Entries
    BY <1>1, <1>2, <2>2
  <2> QED
    BY <2>1, <2>2
<1> QED
  BY <1>2, <1>3 DEF EntriesGuarded, EntryLock

LEMMA QueueRecordsKeeps ==
  ASSUME AddressInv, NEW a \in Actors, QueueRecords(a)
  PROVE  AddressInv'
<1>1. Ended(a) /\ UNCHANGED rows
  BY DEF QueueRecords
<1>2. ChargersGuarded(a) /\ AddressesExclusive'
  BY <1>1 DEF ChargersGuarded, AddressInv, AddressesExclusive
<1> QED
  BY <1>1, <1>2, RecordGuarded, EndKeeps

-----------------------------------------------------------------------------
(* The theorem. *)

LEMMA NextKeeps ==
  ASSUME AddressInv, [Next]_vars
  PROVE  AddressInv'
<1>1. ASSUME NEW a \in Actors, Begins(a)
      PROVE  AddressInv'
  BY <1>1, ApproveBeginsKeeps, SyncBeginsKeeps, RealtimeBeginsKeeps, PromoteBeginsKeeps,
     ChargerBeginsKeeps, QueueUpsertsKeeps DEF Begins
<1>2. ASSUME NEW a \in Actors, Proceed(a)
      PROVE  AddressInv'
  <2>1. CASE \/ ApproveLocksEntries(a) \/ ApproveSelects(a) \/ ApproveLocksAddresses(a)
             \/ ApproveLocksChassis(a) \/ ApproveLocksChargers(a) \/ ApprovePlans(a)
             \/ ApproveWrites(a)
    BY <2>1, ApproveLocksEntriesKeeps, ApproveSelectsKeeps, ApproveLocksAddressesKeeps,
       ApproveLocksHardwareKeeps, ApprovePlansKeeps, ApproveWritesKeeps
  <2>2. CASE SyncIndexes(a) \/ SyncDecides(a) \/ SyncStores(a) \/ SyncCommits(a)
    BY <2>2, SyncIndexesKeeps, SyncDecidesKeeps, SyncStoresKeeps, SyncCommitsKeeps
  <2>3. CASE \/ RealtimeSelected(a) \/ RealtimeUpdates(a) \/ RealtimeInserts(a)
             \/ PromoteChecks(a) \/ PromoteInserts(a) \/ ChargerSaves(a)
    BY <2>3, RealtimeSelectedKeeps, RealtimeUpdatesKeeps, RealtimeInsertsKeeps,
       PromoteChecksKeeps, PromoteInsertsKeeps, ChargerSavesKeeps
  <2>4. CASE QueueClassifies(a) \/ QueueRecords(a)
    BY <2>4, QueueClassifiesKeeps, QueueRecordsKeeps
  <2> QED
    BY <1>2, <2>1, <2>2, <2>3, <2>4 DEF Proceed
<1>3. ASSUME NEW a \in Actors, DeadlockVictim(a) \/ Dies(a)
      PROVE  AddressInv'
  BY <1>3, RollbackKeeps DEF DeadlockVictim, Dies
<1>4. CASE UNCHANGED vars
  <2>1. Domains' /\ AddressesExclusive'
    BY <1>4 DEF vars, AddressInv, Domains, AddressesExclusive
  <2>2. EntriesGuarded(Nobody) /\ Quiet(Nobody) /\ ChargersGuarded(Nobody)
    BY <1>4, NobodyAssumption DEF vars, AddressInv, Domains, EntriesGuarded, Quiet, ChargersGuarded
  <2>3. ASSUME NEW b \in Actors
        PROVE  WorkOK(b)' /\ DraftOK(b)'
    BY <2>2, NobodyAssumption, OthersWorkOK, OthersDraftOK DEF AddressInv
  <2> QED
    BY <2>1, <2>3 DEF AddressInv
<1> QED
  BY <1>1, <1>2, <1>3, <1>4, AcquireKeeps, DismissKeeps DEF Next

\* An address belongs to hardware of one kind, whatever transactions meet: approvals,
\* synchronizations, realtime messages, promotions and edits of chargers.
THEOREM AddressesStayExclusive == Spec => []AddressesExclusive
<1>1. Init => AddressInv
  BY InitEstablishes
<1>2. AddressInv /\ [Next]_vars => AddressInv'
  BY NextKeeps
<1>3. AddressInv => AddressesExclusive
  BY DEF AddressInv
<1> QED
  BY <1>1, <1>2, <1>3, PTL DEF Spec

\* What the steps write into the review queue.
LEMMA QueueSteps ==
  ASSUME AddressInv, [Next]_vars
  PROVE  \/ queue' = queue
         \/ \E a \in Actors : ApproveWrites(a) /\ ~Rollback(a)
         \/ \E a \in Actors : QueueUpserts(a) \/ QueueRecords(a)
         \/ \E e \in Entries : Dismiss(e)
<1>0. \A a, s, locks, w : Proceeds(a, s, locks, w) => queue' = queue
  BY DEF Proceeds
<1>1. ASSUME NEW a \in Actors, Begins(a)
      PROVE  queue' = queue \/ QueueUpserts(a)
  <2>1. CASE ApproveBegins(a)
    BY <1>0, <2>1 DEF ApproveBegins
  <2>2. CASE SyncBegins(a)
    BY <1>0, <2>2 DEF SyncBegins
  <2>3. CASE RealtimeBegins(a)
    BY <2>3 DEF RealtimeBegins
  <2>4. CASE PromoteBegins(a)
    <3>1. \E s, locks, w : Proceeds(a, s, locks, w)
      BY <2>4 DEF PromoteBegins
    <3> QED
      BY <1>0, <3>1
  <2>5. CASE ChargerBegins(a)
    BY <1>0, <2>5 DEF ChargerBegins
  <2> QED
    BY <1>1, <2>1, <2>2, <2>3, <2>4, <2>5 DEF Begins
<1>2. ASSUME NEW a \in Actors, Acquire(a) \/ DeadlockVictim(a) \/ Dies(a)
      PROVE  queue' = queue
  BY <1>2 DEF Acquire, DeadlockVictim, Dies, Rollback
<1>3. ASSUME NEW a \in Actors, Proceed(a)
      PROVE  queue' = queue \/ (ApproveWrites(a) /\ ~Rollback(a)) \/ QueueRecords(a)
  <2>1. CASE \/ ApproveLocksEntries(a) \/ ApproveSelects(a) \/ ApproveLocksAddresses(a)
             \/ ApproveLocksChassis(a) \/ ApproveLocksChargers(a) \/ ApprovePlans(a)
    BY <2>1 DEF ApproveLocksEntries, ApproveSelects, ApproveLocksAddresses, ApproveLocksChassis,
                ApproveLocksChargers, ApprovePlans, Proceeds, Rollback
  <2>2. CASE ApproveWrites(a)
    BY <2>2 DEF Rollback
  <2>3. CASE SyncIndexes(a) \/ SyncDecides(a) \/ SyncStores(a) \/ SyncCommits(a)
    <3>1. CASE SyncIndexes(a)
      BY <1>0, <3>1 DEF SyncIndexes
    <3>2. CASE SyncDecides(a)
      <4> DEFINE v == CheckDevice(Head(work[a].inventory), work[a].index)
      <4>1. \/ v.kind \in {"new", "error"} /\ v.chassis = Nobody
            \/ v.kind \in {"conflict", "duplicate", "moved"} /\ v.chassis \in Chassis
        BY CheckDeviceResults
      <4>2. Rollback(a) \/ \E s, locks, w : Proceeds(a, s, locks, w)
        BY <3>2, <4>1 DEF SyncDecides
      <4> QED
        BY <1>0, <4>2 DEF Rollback
    <3>3. CASE SyncStores(a)
      BY <1>0, <3>3 DEF SyncStores, Rollback
    <3>4. CASE SyncCommits(a)
      BY <3>4 DEF SyncCommits
    <3> QED
      BY <2>3, <3>1, <3>2, <3>3, <3>4
  <2>4. CASE \/ RealtimeSelected(a) \/ RealtimeUpdates(a) \/ RealtimeInserts(a)
             \/ PromoteChecks(a) \/ PromoteInserts(a) \/ ChargerSaves(a)
    BY <2>4 DEF RealtimeSelected, RealtimeUpdates, RealtimeInserts, PromoteChecks, PromoteInserts,
                ChargerSaves, Proceeds, Rollback
  <2>5. CASE QueueClassifies(a)
    BY <2>5 DEF QueueClassifies, Proceeds
  <2> QED
    BY <1>3, <2>1, <2>2, <2>3, <2>4, <2>5 DEF Proceed
<1>4. CASE UNCHANGED vars
  BY <1>4 DEF vars
<1> QED
  BY <1>1, <1>2, <1>3, <1>4 DEF Next

\* A decision is a state other than pending, and only pending entries change theirs.
LEMMA DecisionsStay ==
  ASSUME AddressInv, [Next]_vars, NEW e \in Entries,
         queue[e].state \notin {"absent", "pending"}
  PROVE  queue'[e].state = queue[e].state
<1>. queue \in [Entries -> EntryType] /\ queue[e] \in EntryType
  BY DEF AddressInv, Domains
<1>1. ASSUME NEW a \in Actors, ApproveWrites(a), ~Rollback(a)
      PROVE  queue'[e] = queue[e]
  <2>1. e \notin work[a].batch
    BY <1>1, BatchHeld DEF ApproveWrites, At
  <2> QED
    BY <1>1, <2>1 DEF ApproveWrites
<1>2. ASSUME NEW a \in Actors, QueueUpserts(a)
      PROVE  queue'[e].state = queue[e].state
  <2> DEFINE Old(f) == IF queue[f].state = "absent" THEN [NoEntry EXCEPT !.state = "pending"]
                       ELSE queue[f]
  <2>1. PICK p \in Payloads, f \in Entries :
          queue' = [queue EXCEPT ![f] = [Old(f) EXCEPT !.mfr = p.mfr, !.api = p.api,
                                           !.serial = p.serial, !.ip = p.ip, !.role = p.role]]
    BY <1>2 DEF QueueUpserts, EntriesOf
  <2>2. CASE f # e
    BY <2>1, <2>2
  <2>3. CASE f = e
    <3>1. Old(f) = queue[e]
      BY <2>3
    <3>2. queue'[e] = [queue[e] EXCEPT !.mfr = p.mfr, !.api = p.api, !.serial = p.serial,
                                       !.ip = p.ip, !.role = p.role]
      BY <2>1, <2>3, <3>1
    <3> QED
      BY <3>2 DEF EntryType
  <2> QED
    BY <2>2, <2>3
<1>3. ASSUME NEW a \in Actors, QueueRecords(a)
      PROVE  queue'[e].state = queue[e].state
  <2> DEFINE h == work[a].target
             conflict == work[a].locked # {}
             device == IF h \in Chassis THEN h ELSE Nobody
             charger == IF h \in Chargers THEN h ELSE Nobody
  <2>1. PICK f \in work[a].batch :
          queue' = [queue EXCEPT ![f].conflict = conflict, ![f].device = device,
                                 ![f].charger = charger,
                                 ![f].reviewed = IF work[a].verdict = "pending" THEN FALSE ELSE @]
    <3>1. work[a].batch # {}
      BY <1>3 DEF QueueRecords, At, AddressInv, WorkOK, OthersOK
    <3> QED
      BY <1>3, <3>1 DEF QueueRecords
  <2> HIDE DEF h, conflict, device, charger
  <2> QED
    BY <2>1 DEF EntryType
<1>4. ASSUME NEW f \in Entries, Dismiss(f)
      PROVE  queue'[e].state = queue[e].state
  BY <1>4 DEF Dismiss
<1> QED
  BY <1>1, <1>2, <1>3, <1>4, QueueSteps

(* What a review decided is not decided again, whichever reviews and       *)
(* synchronizations meet at an entry: an approval locks its entries before *)
(* it looks at their state, and the queue's upsert keeps the state.        *)
THEOREM ReviewsAreFinal == Spec => ReviewIsFinal
<1>1. Init => AddressInv
  BY InitEstablishes
<1>2. AddressInv /\ [Next]_vars => AddressInv'
  BY NextKeeps
<1>3. AddressInv /\ [Next]_vars =>
        [\A e \in Entries : queue[e].state \notin {"absent", "pending"} =>
           queue'[e].state = queue[e].state]_vars
  BY DecisionsStay
<1> QED
  BY <1>1, <1>2, <1>3, PTL DEF Spec, ReviewIsFinal
=============================================================================
