------------------------- MODULE AlertFanout_proofs -------------------------
(***************************************************************************)
(* For any numbers of passes, units, assignments, users and channels and   *)
(* for any limits: the types, which hold the budgets of every pass;        *)
(* nobody has two recent pending alerts about one condition; a settled     *)
(* alert stays settled except for a mail that fails; every alert is        *)
(* warranted by a group, an assignment and a reading; and the pages rotate.*)
(*                                                                         *)
(* The argument for the alerts: a pass between its search and its          *)
(* insertion holds the lock of its channel, so no other pass inserts an    *)
(* alert about the same condition meanwhile, and every other step only     *)
(* makes fewer alerts pending.  What a pass mails is still there, and      *)
(* nobody else mails it.  The argument for the pages: the rank of a row,   *)
(* the number of rows before it, is a bijection onto 0 .. n - 1, so the    *)
(* k-th row exists, and what is taken from the front after the cursor goes *)
(* to the back behind the new one.                                         *)
(***************************************************************************)
EXTENDS AlertFanout, FiniteSetTheorems, TLAPS

-----------------------------------------------------------------------------
(* Rows in an order, and pages of them. *)

\* A strict total order on a set.
TotalOrder(sooner, S) ==
  /\ \A x \in S : <<x, x>> \notin sooner
  /\ \A x, y \in S : x # y => <<x, y>> \in sooner \/ <<y, x>> \in sooner
  /\ \A x, y, z \in S : <<x, y>> \in sooner /\ <<y, z>> \in sooner => <<x, z>> \in sooner

LEMMA KeysOrdered == ASSUME NEW S \in SUBSET Nat PROVE TotalOrder(KeyOrder, S)
BY DEF TotalOrder, KeyOrder

LEMMA PairsOrdered == ASSUME NEW S \in SUBSET (Nat \X Nat) PROVE TotalOrder(PairOrder, S)
BY DEF TotalOrder, PairOrder

LEMMA ItemsOrdered ==
  ASSUME NEW S \in SUBSET (Nat \X Nat \X Nat) PROVE TotalOrder(ItemOrder, S)
<1>1. \A x, y \in Nat \X Nat \X Nat :
        <<x, y>> \in ItemOrder <=>
          \/ x[1] < y[1]
          \/ x[1] = y[1] /\ (x[2] < y[2] \/ (x[2] = y[2] /\ x[3] < y[3]))
  BY DEF ItemOrder, PairOrder
<1>2. \A x \in S : <<x, x>> \notin ItemOrder
  BY <1>1
<1>3. \A x, y \in S : x # y => <<x, y>> \in ItemOrder \/ <<y, x>> \in ItemOrder
  BY <1>1
<1>4. \A x, y, z \in S :
        <<x, y>> \in ItemOrder /\ <<y, z>> \in ItemOrder => <<x, z>> \in ItemOrder
  <2> SUFFICES ASSUME NEW x \in S, NEW y \in S, NEW z \in S,
                      <<x, y>> \in ItemOrder, <<y, z>> \in ItemOrder
               PROVE  <<x, z>> \in ItemOrder
    OBVIOUS
  <2> QED BY <1>1
<1> QED BY <1>2, <1>3, <1>4 DEF TotalOrder

\* Whatever comes after the cursor may come first.
LEMMA BehindOrdered ==
  ASSUME NEW S, NEW sooner, TotalOrder(sooner, S), NEW from
  PROVE  TotalOrder(Behind(from, sooner, S), S)
<1> DEFINE After(x) == <<from, x>> \in sooner
           B == Behind(from, sooner, S)
<1>1. \A x, y \in S : <<x, y>> \in B <=>
        IF After(x) <=> After(y) THEN <<x, y>> \in sooner ELSE After(x)
  BY DEF Behind
<1> HIDE DEF B, After
<1> QED BY <1>1 DEF TotalOrder, B

\* How many come before.
Rank(x, S, sooner) == Cardinality({y \in S : <<y, x>> \in sooner})

LEMMA Ranks ==
  ASSUME NEW S, IsFiniteSet(S), NEW sooner, TotalOrder(sooner, S)
  PROVE  /\ \A x \in S : Rank(x, S, sooner) \in 0 .. Cardinality(S) - 1
         /\ \A x, y \in S : <<x, y>> \in sooner => Rank(x, S, sooner) < Rank(y, S, sooner)
         /\ \A k \in 0 .. Cardinality(S) - 1 : \E x \in S : Rank(x, S, sooner) = k
<1> DEFINE Sooner(x) == {y \in S : <<y, x>> \in sooner}
           n == Cardinality(S)
<1>1. n \in Nat
  BY FS_CardinalityType
<1>2. \A x \in S : IsFiniteSet(Sooner(x)) /\ Cardinality(Sooner(x)) \in Nat
  BY FS_Subset, FS_CardinalityType
<1>3. ASSUME NEW x \in S PROVE Rank(x, S, sooner) \in 0 .. n - 1
  <2>1. x \notin Sooner(x)
    BY DEF TotalOrder
  <2>2. Sooner(x) \in SUBSET (S \ {x})
    BY <2>1
  <2>3. IsFiniteSet(S \ {x}) /\ Cardinality(S \ {x}) = n - 1
    BY FS_RemoveElement
  <2>4. Cardinality(Sooner(x)) <= n - 1
    BY <2>2, <2>3, FS_Subset
  <2> QED BY <1>1, <1>2, <2>4 DEF Rank
<1>4. ASSUME NEW x \in S, NEW y \in S, <<x, y>> \in sooner
      PROVE  Rank(x, S, sooner) < Rank(y, S, sooner)
  <2>1. Sooner(x) \cup {x} \in SUBSET Sooner(y)
    BY <1>4 DEF TotalOrder
  <2>2. x \notin Sooner(x)
    BY DEF TotalOrder
  <2>3. Cardinality(Sooner(x) \cup {x}) = Cardinality(Sooner(x)) + 1
    BY <1>2, <2>2, FS_AddElement
  <2>4. Cardinality(Sooner(x) \cup {x}) <= Cardinality(Sooner(y))
    BY <1>2, <2>1, FS_Subset
  <2> QED BY <1>2, <2>3, <2>4 DEF Rank
<1>5. \A k \in 0 .. n - 1 : \E x \in S : Rank(x, S, sooner) = k
  <2> DEFINE f == [x \in S |-> Rank(x, S, sooner)]
             T == 0 .. n - 1
  <2>1. IsFiniteSet(T) /\ Cardinality(T) = n
    BY <1>1, FS_Interval
  <2>2. f \in [S -> T]
    BY <1>3
  <2>3. ASSUME NEW x \in S, NEW y \in S, x # y PROVE f[x] # f[y]
    <3>1. <<x, y>> \in sooner \/ <<y, x>> \in sooner
      BY <2>3 DEF TotalOrder
    <3>2. f[x] \in Int /\ f[y] \in Int
      BY <1>3
    <3>3. f[x] < f[y] \/ f[y] < f[x]
      BY <1>4, <3>1
    <3> QED BY <3>2, <3>3
  <2>4. f \in Injection(S, T)
    BY <2>2, <2>3 DEF Injection, IsInjective
  <2>5. f \in Surjection(S, T)
    BY <2>1, <2>4, FS_Injection
  <2> QED BY <2>5 DEF Surjection
<1> QED BY <1>3, <1>4, <1>5

\* The rows of a query: all of them, each once, in their order.
LEMMA RowsInOrder ==
  ASSUME NEW S, IsFiniteSet(S), NEW sooner, TotalOrder(sooner, S)
  PROVE  LET all == InOrder(S, sooner) IN
         /\ all \in Seq(S)
         /\ Len(all) = Cardinality(S)
         /\ \A k \in DOMAIN all : Rank(all[k], S, sooner) = k - 1
         /\ \A x \in S : \E k \in DOMAIN all : all[k] = x
<1> DEFINE all == InOrder(S, sooner)
           n == Cardinality(S)
<1>1. n \in Nat
  BY FS_CardinalityType
<1>2. DOMAIN all = 1 .. n
  BY DEF InOrder
<1>3. \A k \in 1 .. n : all[k] \in S /\ Rank(all[k], S, sooner) = k - 1
  <2> TAKE k \in 1 .. n
  <2>1. k - 1 \in 0 .. n - 1
    BY <1>1
  <2>2. \E x \in S : Rank(x, S, sooner) = k - 1
    BY <2>1, Ranks
  <2>3. all[k] = CHOOSE x \in S : Rank(x, S, sooner) = k - 1
    BY DEF InOrder, Rank
  <2> QED BY <2>2, <2>3
<1>4. all \in [1 .. n -> S]
  BY <1>2, <1>3 DEF InOrder
<1>5. all \in Seq(S) /\ Len(all) = n
  BY <1>1, <1>4
<1>6. ASSUME NEW x \in S PROVE \E k \in DOMAIN all : all[k] = x
  <2> DEFINE k == Rank(x, S, sooner) + 1
  <2>1. Rank(x, S, sooner) \in 0 .. n - 1
    BY Ranks
  <2>2. k \in 1 .. n /\ Rank(all[k], S, sooner) = Rank(x, S, sooner) /\ all[k] \in S
    BY <1>1, <1>3, <2>1
  <2>3. <<all[k], x>> \notin sooner /\ <<x, all[k]>> \notin sooner
    BY <2>1, <2>2, Ranks
  <2>4. all[k] = x
    BY <2>2, <2>3 DEF TotalOrder
  <2> QED BY <1>2, <2>2, <2>4
<1> HIDE DEF all
<1> QED BY <1>2, <1>3, <1>5, <1>6 DEF all

\* A page: as many rows as the limit allows, each once.
LEMMA Page ==
  ASSUME NEW S, IsFiniteSet(S), NEW sooner, TotalOrder(sooner, S), NEW from, NEW n \in Nat
  PROVE  LET turn == Turn(S, from, sooner, n) IN
         /\ turn \in Seq(S)
         /\ Len(turn) = IF n < Cardinality(S) THEN n ELSE Cardinality(S)
         /\ \A i, j \in DOMAIN turn : turn[i] = turn[j] => i = j
         /\ Cardinality(S) <= n => \A x \in S : \E k \in DOMAIN turn : turn[k] = x
<1> DEFINE B == Behind(from, sooner, S)
           all == InOrder(S, B)
           m == IF n < Len(all) THEN n ELSE Len(all)
           turn == Turn(S, from, sooner, n)
<1>1. TotalOrder(B, S)
  BY BehindOrdered
<1>2. /\ all \in Seq(S)
      /\ Len(all) = Cardinality(S)
      /\ \A k \in DOMAIN all : Rank(all[k], S, B) = k - 1
      /\ \A x \in S : \E k \in DOMAIN all : all[k] = x
  BY <1>1, RowsInOrder
<1>3. turn = SubSeq(all, 1, m)
  BY DEF Turn
<1> HIDE DEF all, B, turn
<1>4. m \in Nat /\ m <= Len(all) /\ Len(all) \in Nat
  BY <1>2
<1>5. /\ turn \in Seq(S)
      /\ Len(turn) = m
      /\ \A k \in 1 .. m : turn[k] = all[k]
  BY <1>2, <1>3, <1>4
<1> HIDE DEF m
<1>6. \A i, j \in DOMAIN turn : turn[i] = turn[j] => i = j
  BY <1>2, <1>4, <1>5
<1>7. ASSUME Cardinality(S) <= n PROVE \A x \in S : \E k \in DOMAIN turn : turn[k] = x
  <2>1. m = Len(all)
    BY <1>2, <1>4, <1>7 DEF m
  <2>2. DOMAIN turn = DOMAIN all
    BY <1>2, <1>5, <2>1
  <2> QED BY <1>2, <1>5, <2>1, <2>2
<1> QED BY <1>2, <1>5, <1>6, <1>7 DEF m, turn

LEMMA Rotation ==
  ASSUME NEW S, IsFiniteSet(S), NEW sooner, NEW from, TotalOrder(sooner, S \cup {from}),
         NEW n \in Nat \ {0}
  PROVE  LET turn == Turn(S, from, sooner, n) IN
         \A x \in S :
           (\A k \in DOMAIN turn : turn[k] # x)
             => /\ turn # <<>>
                /\ Rank(x, S, Behind(Last(turn), sooner, S))
                     = Rank(x, S, Behind(from, sooner, S)) - Len(turn)
<1> DEFINE B == Behind(from, sooner, S)
           turn == Turn(S, from, sooner, n)
           all == InOrder(S, B)
           m == Len(turn)
           c == Last(turn)
           C == Behind(c, sooner, S)
           Taken == {y \in S : y = c \/ <<y, c>> \in B}
<1>1. TotalOrder(sooner, S) /\ TotalOrder(B, S)
  <2>1. TotalOrder(sooner, S)
    BY DEF TotalOrder
  <2> QED BY <2>1, BehindOrdered
<1>2. /\ all \in Seq(S)
      /\ Len(all) = Cardinality(S)
      /\ \A k \in DOMAIN all : Rank(all[k], S, B) = k - 1
      /\ \A y \in S : \E k \in DOMAIN all : all[k] = y
  BY <1>1, RowsInOrder
<1>3. /\ turn = SubSeq(all, 1, IF n < Len(all) THEN n ELSE Len(all))
      /\ Len(all) \in Nat
  BY <1>2 DEF Turn
<1> SUFFICES ASSUME NEW x \in S, \A k \in DOMAIN turn : turn[k] # x
             PROVE  /\ turn # <<>>
                    /\ Rank(x, S, C) = Rank(x, S, B) - m
  OBVIOUS
<1> DEFINE Below == {y \in S : <<y, x>> \in B}
<1> HIDE DEF turn, all, B
<1>4. PICK r \in DOMAIN all : all[r] = x
  BY <1>2
<1>5. /\ turn \in Seq(S) /\ m = n /\ m < r
      /\ \A k \in 1 .. m : turn[k] = all[k]
  <2>1. Len(all) # 0
    BY <1>2, <1>4
  <2>2. DEFINE l == IF n < Len(all) THEN n ELSE Len(all)
  <2>3. l \in Nat /\ l <= Len(all) /\ l # 0 /\ (l = n \/ l = Len(all))
    BY <1>3, <2>1
  <2> HIDE DEF l
  <2>4. turn \in Seq(S) /\ Len(turn) = l /\ \A k \in 1 .. l : turn[k] = all[k]
    BY <1>2, <1>3, <2>3 DEF l
  <2>5. ~(r <= l)
    BY <1>2, <1>4, <2>3, <2>4
  <2>6. l # Len(all)
    BY <1>2, <1>4, <2>5
  <2> QED BY <1>2, <1>4, <2>3, <2>4, <2>5, <2>6
<1>6. c \in S /\ Rank(c, S, B) = m - 1 /\ Rank(x, S, B) = r - 1 /\ m \in Nat \ {0} /\ r \in Nat
      /\ turn # <<>>
  <2>1. m \in Nat \ {0} /\ m \in DOMAIN all /\ turn # <<>> /\ r \in Nat
    BY <1>2, <1>4, <1>5
  <2>2. c = all[m] /\ all[m] \in S
    BY <1>2, <1>5, <2>1 DEF Last
  <2> HIDE DEF c
  <2> QED BY <1>2, <1>4, <2>1, <2>2
<1> HIDE DEF c, m
<1>7. <<c, x>> \in B
  <2>1. Rank(c, S, B) < Rank(x, S, B)
    BY <1>5, <1>6
  <2>2. <<x, c>> \notin B
    BY <1>1, <1>6, <2>1, Ranks
  <2>3. x # c
    BY <1>6, <2>1
  <2> QED BY <1>1, <1>6, <2>2, <2>3 DEF TotalOrder
<1>8. ASSUME NEW y \in S
      PROVE  <<y, x>> \in C <=> y \in Below /\ y \notin Taken
  <2> DEFINE R(a, b) == <<a, b>> \in sooner
  <2>1. \A a, b \in S : <<a, b>> \in B <=>
          IF R(from, a) <=> R(from, b) THEN R(a, b) ELSE R(from, a)
    BY DEF B, Behind
  <2>2. \A a, b \in S : <<a, b>> \in C <=>
          IF R(c, a) <=> R(c, b) THEN R(a, b) ELSE R(c, a)
    BY DEF Behind
  <2>3. /\ \A a \in S \cup {from} : ~R(a, a)
        /\ \A a, b \in S \cup {from} : a # b => R(a, b) \/ R(b, a)
        /\ \A a, b, d \in S \cup {from} : R(a, b) /\ R(b, d) => R(a, d)
    BY DEF TotalOrder
  <2> HIDE DEF R, C
  <2> QED BY <1>6, <1>7, <2>1, <2>2, <2>3
<1>9. Taken \in SUBSET Below
  BY <1>1, <1>6, <1>7 DEF TotalOrder
<1>10. IsFiniteSet(Below) /\ IsFiniteSet(Taken) /\ Cardinality(Below) \in Nat
  BY FS_Subset, FS_CardinalityType
<1>11. Cardinality(Taken) = m
  <2> DEFINE T == {y \in S : <<y, c>> \in B}
  <2>1. c \notin T
    BY <1>1, <1>6 DEF TotalOrder
  <2>2. IsFiniteSet(T) /\ Cardinality(T) = m - 1
    BY <1>6, FS_Subset DEF Rank
  <2>3. Taken = T \cup {c}
    BY <1>6
  <2>4. Cardinality(T \cup {c}) = Cardinality(T) + 1
    BY <2>1, <2>2, FS_AddElement
  <2>5. Cardinality(Taken) = Cardinality(T) + 1
    BY <2>3, <2>4
  <2> HIDE DEF T, Taken
  <2> QED BY <1>6, <2>2, <2>5
<1>12. {y \in S : <<y, x>> \in C} = Below \ Taken
  BY <1>8
<1>13. Cardinality(Below \ Taken) = Cardinality(Below) - Cardinality(Taken)
  <2>1. Below \cap Taken = Taken
    BY <1>9
  <2>2. Cardinality(Below \ Taken) = Cardinality(Below) - Cardinality(Below \cap Taken)
    BY <1>10, FS_Difference
  <2> QED BY <2>1, <2>2
<1>14. Rank(x, S, C) = Rank(x, S, B) - m
  BY <1>11, <1>12, <1>13 DEF Rank
<1> QED BY <1>6, <1>14

\* Whoever is not on a page moves up by its length: behind the cursor of the page fewer
\* rows come before it than did behind the old one.
MovesUp(S, from, sooner, n) ==
  LET turn == Turn(S, from, sooner, n) IN
  \A x \in S :
    (\A k \in DOMAIN turn : turn[k] # x)
      => /\ turn # <<>>
         /\ Rank(x, S, Behind(Last(turn), sooner, S))
              = Rank(x, S, Behind(from, sooner, S)) - Len(turn)

(* AlertFanoutService._rotating_page and _rotating_recipient_pairs: while the *)
(* rows of the query stay and nobody else moves its cursor, every row is on a  *)
(* page after as many pages as it takes to hold the rows before it.            *)
THEOREM PagesRotate ==
  ASSUME NEW n \in Nat \ {0}
  PROVE  /\ \A S \in SUBSET Nat : \A from \in Nat :
              IsFiniteSet(S) => MovesUp(S, from, KeyOrder, n)
         /\ \A S \in SUBSET (Nat \X Nat) : \A from \in Nat \X Nat :
              IsFiniteSet(S) => MovesUp(S, from, PairOrder, n)
<1>1. ASSUME NEW S \in SUBSET Nat, NEW from \in Nat, IsFiniteSet(S)
      PROVE  MovesUp(S, from, KeyOrder, n)
  <2>1. TotalOrder(KeyOrder, S \cup {from})
    BY KeysOrdered
  <2> QED BY <1>1, <2>1, Rotation DEF MovesUp
<1>2. ASSUME NEW S \in SUBSET (Nat \X Nat), NEW from \in Nat \X Nat, IsFiniteSet(S)
      PROVE  MovesUp(S, from, PairOrder, n)
  <2>1. TotalOrder(PairOrder, S \cup {from})
    BY PairsOrdered
  <2> QED BY <1>2, <2>1, Rotation DEF MovesUp
<1> QED BY <1>1, <1>2

-----------------------------------------------------------------------------
(* No duplicates, and settled alerts. *)

\* The parts of the type the argument needs.
Shape ==
  /\ DOMAIN pc = Passes
  /\ DOMAIN items = Passes
  /\ DOMAIN mailed = Passes
  /\ rows \in [Slots -> Row \cup {NoRow}]
  /\ lock \in [Channels -> Passes \cup {Nobody}]

\* A pass that delivers holds the lock of its channel.
Held ==
  \A p \in Passes : pc[p] \in {"dedup", "create"} =>
    Channel(p) \in Channels /\ lock[Channel(p)] = p

\* A pass that is about to insert found nothing, and there is still nothing.
NoneYet ==
  \A p \in Passes : pc[p] = "create" =>
    \A i \in Slots : i[1] = Key(Item(p)) => ~Pending(i)

\* The alert a pass mails is there, and only this pass mails it.
Mailing ==
  \A p \in Passes : mailed[p] \in Slots =>
    rows[mailed[p]] # NoRow /\ \A q \in Passes \ {p} : mailed[q] # mailed[p]

Inv == Shape /\ Held /\ NoneYet /\ Mailing /\ NoDuplicates

\* Only pass p moves, and it does not get in front of a search or an insertion.
Aside(p) ==
  /\ DOMAIN pc' = Passes
  /\ DOMAIN items' = Passes
  /\ \A q \in Passes \ {p} : pc'[q] = pc[q] /\ items'[q] = items[q]
  /\ pc'[p] \notin {"dedup", "create"}

\* No alert becomes pending.
Fewer == \A i \in Slots : Pending(i)' => Pending(i)

LEMMA InitInv == Init => Inv
<1> SUFFICES ASSUME Init PROVE Inv
  OBVIOUS
<1>1. Shape
  BY DEF Init, Shape
<1>2. Held /\ NoneYet
  BY DEF Init, Held, NoneYet
<1>3. Mailing
  BY NobodyAssumption DEF Init, Mailing
<1>4. NoDuplicates
  BY DEF Init, NoDuplicates, Pending, Slots
<1> QED BY <1>1, <1>2, <1>3, <1>4 DEF Inv

\* What holds whatever else a pass does when it steps aside.
LEMMA StepsAside ==
  ASSUME Inv, NEW p \in Passes, Aside(p), Fewer, Shape',
         \A c \in Channels : lock[c] # p => lock'[c] = lock[c]
  PROVE  Held' /\ NoneYet' /\ NoDuplicates'
<1>1. Held'
  <2> SUFFICES ASSUME NEW q \in Passes, pc'[q] \in {"dedup", "create"}
               PROVE  Channel(q)' \in Channels /\ lock'[Channel(q)'] = q
    BY DEF Held
  <2>1. q # p /\ pc'[q] = pc[q] /\ items'[q] = items[q]
    BY DEF Aside
  <2>2. Channel(q)' = Channel(q)
    BY <2>1 DEF Channel, Item
  <2>3. Channel(q) \in Channels /\ lock[Channel(q)] = q
    BY <2>1 DEF Inv, Held
  <2> QED BY <2>1, <2>2, <2>3
<1>2. NoneYet'
  <2> SUFFICES ASSUME NEW q \in Passes, pc'[q] = "create",
                      NEW i \in Slots, i[1] = Key(Item(q))'
               PROVE  ~Pending(i)'
    BY DEF NoneYet
  <2>1. q # p /\ pc'[q] = pc[q] /\ items'[q] = items[q]
    BY DEF Aside
  <2>2. i[1] = Key(Item(q))
    BY <2>1 DEF Key, Item
  <2>3. ~Pending(i)
    BY <2>1, <2>2 DEF Inv, NoneYet
  <2> QED BY <2>3 DEF Fewer
<1>3. NoDuplicates'
  BY DEF Inv, NoDuplicates, Fewer, Slots
<1> QED BY <1>1, <1>2, <1>3

\* Steps of a pass that touch neither the alerts nor a lock.
LEMMA Quiet ==
  ASSUME Inv, NEW p \in Passes, Aside(p), UNCHANGED <<rows, lock, mailed>>
  PROVE  Inv'
<1>1. Shape'
  BY DEF Inv, Shape, Aside
<1>2. Fewer
  BY DEF Fewer, Pending
<1>3. Mailing'
  BY DEF Inv, Mailing
<1> QED BY <1>1, <1>2, <1>3, StepsAside DEF Inv

\* Steps of a pass that give its locks back and leave the alerts.
LEMMA Releases ==
  ASSUME Inv, NEW p \in Passes, Aside(p), Release(p), UNCHANGED <<rows, mailed>>
  PROVE  Inv'
<1>1. Shape'
  BY DEF Inv, Shape, Aside, Release
<1>2. Fewer
  BY DEF Fewer, Pending
<1>3. Mailing'
  BY DEF Inv, Mailing
<1>4. \A c \in Channels : lock[c] # p => lock'[c] = lock[c]
  BY DEF Release
<1> QED BY <1>1, <1>2, <1>3, <1>4, StepsAside DEF Inv

\* A pass that has mailed its alert, whatever status it gives it, if it only lets
\* fewer alerts be pending.
LEMMA MailedInv ==
  ASSUME Inv, NEW p \in Passes, NEW status, Mailed(p, status), Aside(p),
         UNCHANGED lock,
         mailed[p] \in Slots =>
           /\ status \in Statuses
           /\ status = "pending" => Pending(mailed[p]) \/ ~rows[mailed[p]].recent
  PROVE  Inv'
<1>1. \A i \in Slots : i # mailed[p] => rows'[i] = rows[i]
  BY DEF Mailed, Inv, Shape
<1>2. mailed[p] \in Slots =>
        /\ rows[mailed[p]] \in Row
        /\ rows'[mailed[p]] = IF rows[mailed[p]].recent
                                THEN [rows[mailed[p]] EXCEPT !.status = status] ELSE NoRow
  BY DEF Mailed, Inv, Shape, Mailing
<1>3. Shape'
  <2>1. rows' \in [Slots -> Row \cup {NoRow}]
    <3>1. DOMAIN rows' = Slots /\ rows' = [i \in Slots |-> rows'[i]]
      BY DEF Mailed, Inv, Shape
    <3>2. \A i \in Slots : rows'[i] \in Row \cup {NoRow}
      BY <1>1, <1>2 DEF Inv, Shape, Row
    <3> QED BY <3>1, <3>2
  <2> QED BY <2>1 DEF Inv, Shape, Aside, Mailed
<1>4. Fewer
  BY <1>1, <1>2, NoRowAssumption DEF Fewer, Pending, Row
<1>5. Mailing'
  <2> SUFFICES ASSUME NEW q \in Passes, mailed'[q] \in Slots
               PROVE  rows'[mailed'[q]] # NoRow /\ \A r \in Passes \ {q} : mailed'[r] # mailed'[q]
    BY DEF Mailing
  <2>1. q # p /\ mailed'[q] = mailed[q]
    BY NobodyAssumption DEF Mailed, Inv, Shape
  <2>2. mailed[q] # mailed[p]
    BY <2>1 DEF Inv, Mailing
  <2>3. rows'[mailed[q]] # NoRow
    BY <1>1, <2>1, <2>2 DEF Inv, Mailing
  <2>4. \A r \in Passes \ {q} : mailed'[r] # mailed[q]
    BY <2>1, NobodyAssumption DEF Mailed, Inv, Shape, Mailing
  <2> QED BY <2>1, <2>3, <2>4
<1> QED BY <1>3, <1>4, <1>5, StepsAside DEF Inv

\* Steps beside the passes.
LEMMA Beside ==
  ASSUME Inv, UNCHANGED <<pc, items, lock, mailed>>, Fewer, Mailing',
         rows' \in [Slots -> Row \cup {NoRow}]
  PROVE  Inv'
<1>1. Shape'
  BY DEF Inv, Shape
<1>2. Held'
  BY DEF Inv, Held, Channel, Item
<1>3. NoneYet'
  BY DEF Inv, NoneYet, Fewer, Key, Item
<1>4. NoDuplicates'
  BY DEF Inv, NoDuplicates, Fewer, Slots
<1> QED BY <1>1, <1>2, <1>3, <1>4 DEF Inv

LEMMA SettleInv ==
  ASSUME Inv, NEW i \in Slots, rows[i] # NoRow, NEW status \in Statuses \ {"pending"},
         Settle(i, status)
  PROVE  Inv'
<1>1. rows[i] \in Row
  BY DEF Inv, Shape
<1>2. rows' = [rows EXCEPT ![i] = [rows[i] EXCEPT !.status = status]]
  BY DEF Settle
<1>3. rows' \in [Slots -> Row \cup {NoRow}]
  BY <1>1, <1>2 DEF Inv, Shape, Row
<1>4. Fewer
  BY <1>1, <1>2 DEF Inv, Shape, Fewer, Pending, Row
<1>5. Mailing'
  BY <1>1, <1>2, NoRowAssumption DEF Inv, Shape, Mailing, Settle, Row
<1> QED BY <1>3, <1>4, <1>5, Beside DEF Settle, passvars

LEMMA AgeInv == ASSUME Inv, NEW i \in Slots, Age(i) PROVE Inv'
<1>1. rows[i] \in Row
  BY DEF Inv, Shape, Age
<1>2. \A j \in Slots \ {i} : rows'[j] = rows[j]
  BY DEF Inv, Shape, Age
<1>3. rows'[i] = IF \E p \in Passes : mailed[p] = i
                   THEN [rows[i] EXCEPT !.recent = FALSE] ELSE NoRow
  BY DEF Inv, Shape, Age
<1>4. DOMAIN rows' = Slots /\ rows' = [j \in Slots |-> rows'[j]]
  BY DEF Inv, Shape, Age
<1>5. rows'[i] \in Row \cup {NoRow}
  BY <1>1, <1>3 DEF Row
<1>6. rows' \in [Slots -> Row \cup {NoRow}]
  BY <1>2, <1>4, <1>5 DEF Inv, Shape
<1>7. Fewer
  BY <1>1, <1>2, <1>3 DEF Fewer, Pending, Row
<1>8. Mailing'
  <2>1. (\E p \in Passes : mailed[p] = i) => rows'[i] # NoRow
    BY <1>1, <1>3, NoRowAssumption DEF Row
  <2> QED BY <2>1, <1>2 DEF Inv, Mailing, Age
<1> QED BY <1>6, <1>7, <1>8, Beside DEF Age, passvars

LEMMA LockInv == ASSUME Inv, NEW p \in Passes, Lock(p) PROVE Inv'
<1>1. CASE Eligible(Item(p)[1], Item(p)[2])
  <2>1. /\ lock' = [lock EXCEPT ![Channel(p)] = p]
        /\ pc' = [pc EXCEPT ![p] = "dedup"]
        /\ Channel(p) \in Channels /\ lock[Channel(p)] = Nobody
        /\ UNCHANGED <<rows, mailed, items>>
    BY <1>1 DEF Lock
  <2>2. Shape'
    BY <2>1 DEF Inv, Shape
  <2>3. Held'
    <3> SUFFICES ASSUME NEW q \in Passes, pc'[q] \in {"dedup", "create"}
                 PROVE  Channel(q)' \in Channels /\ lock'[Channel(q)'] = q
      BY DEF Held
    <3>1. Channel(q)' = Channel(q)
      BY <2>1 DEF Channel, Item
    <3>2. CASE q = p
      BY <2>1, <3>1, <3>2 DEF Inv, Shape
    <3>3. CASE q # p
      <4>1. Channel(q) \in Channels /\ lock[Channel(q)] = q
        BY <2>1, <3>3 DEF Inv, Shape, Held
      <4> QED BY <2>1, <3>1, <4>1, NobodyAssumption DEF Inv, Shape
    <3> QED BY <3>2, <3>3
  <2>4. NoneYet'
    BY <2>1 DEF Inv, Shape, NoneYet, Pending, Key, Item
  <2>5. Mailing' /\ NoDuplicates'
    BY <2>1 DEF Inv, Mailing, NoDuplicates, Pending
  <2> QED BY <2>2, <2>3, <2>4, <2>5 DEF Inv
<1>2. CASE ~Eligible(Item(p)[1], Item(p)[2])
  <2>1. Aside(p) /\ UNCHANGED <<rows, lock, mailed>>
    BY <1>2 DEF Lock, NextItem, Deliver, Aside, Inv, Shape
  <2> QED BY <2>1, Quiet
<1> QED BY <1>1, <1>2

LEMMA DedupInv == ASSUME Inv, NEW p \in Passes, Dedup(p) PROVE Inv'
<1>1. CASE Similar(p)
  <2>1. Aside(p) /\ Release(p) /\ UNCHANGED <<rows, mailed>>
    BY <1>1 DEF Dedup, NextItem, Deliver, Aside, Inv, Shape
  <2> QED BY <2>1, Releases
<1>2. CASE ~Similar(p)
  <2>1. pc[p] = "dedup" /\ pc' = [pc EXCEPT ![p] = "create"]
        /\ UNCHANGED <<rows, mailed, items, lock>>
    BY <1>2 DEF Dedup
  <2>2. Shape'
    BY <2>1 DEF Inv, Shape
  <2>3. Held'
    BY <2>1 DEF Inv, Shape, Held, Channel, Item
  <2>4. \A i \in Slots : i[1] = Key(Item(p)) => ~Pending(i)
    BY <1>2 DEF Similar, Slots
  <2>5. NoneYet'
    BY <2>1, <2>4 DEF Inv, Shape, NoneYet, Pending, Key, Item
  <2>6. Mailing' /\ NoDuplicates'
    BY <2>1 DEF Inv, Mailing, NoDuplicates, Pending
  <2> QED BY <2>2, <2>3, <2>5, <2>6 DEF Inv
<1> QED BY <1>1, <1>2

\* The row lock keeps two passes from inserting about one condition.
LEMMA CreateInv == ASSUME Inv, NEW p \in Passes, Create(p) PROVE Inv'
<1> DEFINE k == Key(Item(p))
           slot == FreeSlot(k)
<1>1. /\ pc[p] = "create" /\ pc' = [pc EXCEPT ![p] = "mail"]
      /\ UNCHANGED items
      /\ rows' = [rows EXCEPT ![slot] = [status |-> "pending", recent |-> TRUE]]
      /\ mailed' = [mailed EXCEPT ![p] = slot]
      /\ Release(p)
  BY DEF Create, passvars
<1>2. rows[slot] = NoRow /\ slot[1] = k
  BY DEF Create, FreeSlot
<1>3. Shape'
  <2>1. rows' \in [Slots -> Row \cup {NoRow}]
    BY <1>1 DEF Inv, Shape, Row, Statuses
  <2>2. lock' \in [Channels -> Passes \cup {Nobody}]
    BY <1>1 DEF Inv, Shape, Release
  <2> QED BY <1>1, <2>1, <2>2 DEF Inv, Shape
<1>4. Channel(p) \in Channels /\ lock[Channel(p)] = p
  BY <1>1 DEF Inv, Held
<1>5. Held'
  <2> SUFFICES ASSUME NEW q \in Passes, pc'[q] \in {"dedup", "create"}
               PROVE  Channel(q)' \in Channels /\ lock'[Channel(q)'] = q
    BY DEF Held
  <2>1. q # p /\ pc'[q] = pc[q]
    BY <1>1 DEF Inv, Shape
  <2>2. Channel(q) \in Channels /\ lock[Channel(q)] = q
    BY <2>1 DEF Inv, Held
  <2>3. Channel(q)' = Channel(q)
    BY <1>1 DEF Channel, Item
  <2> QED BY <1>1, <2>1, <2>2, <2>3 DEF Release
<1>6. \A i \in Slots : i # slot => rows'[i] = rows[i]
  BY <1>1 DEF Inv, Shape
<1>7. NoneYet'
  <2> SUFFICES ASSUME NEW q \in Passes, pc'[q] = "create",
                      NEW i \in Slots, i[1] = Key(Item(q))'
               PROVE  ~Pending(i)'
    BY DEF NoneYet
  <2>1. q # p /\ pc'[q] = pc[q] /\ i[1] = Key(Item(q))
    BY <1>1 DEF Inv, Shape, Key, Item
  <2>2. lock[Channel(q)] = q
    BY <2>1 DEF Inv, Held
  <2>3. Channel(q) # Channel(p)
    BY <1>4, <2>1, <2>2
  <2>4. i # slot
    BY <1>2, <2>1, <2>3 DEF Key, Channel
  <2>5. ~Pending(i)
    BY <2>1 DEF Inv, NoneYet
  <2> QED BY <1>6, <2>4, <2>5 DEF Pending
<1>8. Mailing'
  <2>1. slot \in Slots => \A q \in Passes : mailed[q] # slot
    BY <1>2 DEF Inv, Mailing
  <2>2. slot \in Slots => rows'[slot] # NoRow
    <3>1. [status |-> "pending", recent |-> TRUE] \in Row
      BY DEF Row, Statuses
    <3>2. slot \in Slots => rows'[slot] = [status |-> "pending", recent |-> TRUE]
      BY <1>1 DEF Inv, Shape
    <3> QED BY <3>1, <3>2, NoRowAssumption
  <2> QED BY <1>1, <1>6, <2>1, <2>2 DEF Inv, Shape, Mailing
<1>9. NoDuplicates'
  <2> SUFFICES ASSUME NEW c \in Keys, NEW m \in 1 .. Copies, NEW n \in 1 .. Copies,
                      Pending(<<c, m>>)', Pending(<<c, n>>)'
               PROVE  m = n
    BY DEF NoDuplicates
  <2>1. <<c, m>> \in Slots /\ <<c, n>> \in Slots
    BY DEF Slots
  <2>2. CASE c = k
    <3>1. ~Pending(<<c, m>>) /\ ~Pending(<<c, n>>)
      BY <1>1, <2>1, <2>2 DEF Inv, NoneYet
    <3>2. <<c, m>> = slot /\ <<c, n>> = slot
      BY <1>6, <2>1, <3>1 DEF Pending
    <3> QED BY <3>2
  <2>3. CASE c # k
    <3>1. <<c, m>> # slot /\ <<c, n>> # slot
      BY <1>2, <2>3
    <3>2. Pending(<<c, m>>) /\ Pending(<<c, n>>)
      BY <1>6, <2>1, <3>1 DEF Pending
    <3> QED BY <3>2 DEF Inv, NoDuplicates
  <2> QED BY <2>2, <2>3
<1> QED BY <1>3, <1>5, <1>7, <1>8, <1>9 DEF Inv

LEMMA DiesInv == ASSUME Inv, NEW p \in Passes, Dies(p) PROVE Inv'
<1>1. Aside(p)
  BY DEF Dies, Returns, Aside, Inv, Shape
<1>2. /\ Release(p)
      /\ mailed' = [mailed EXCEPT ![p] = Nobody]
      /\ rows' = [i \in Slots |->
           IF i = mailed[p] /\ ~rows[i].recent THEN NoRow ELSE rows[i]]
  BY DEF Dies
<1>3. Shape'
  BY <1>1, <1>2 DEF Inv, Shape, Aside, Release
<1>4. Fewer
  BY <1>2 DEF Fewer, Pending
<1>5. Mailing'
  BY <1>2, NobodyAssumption DEF Inv, Shape, Mailing
<1>6. \A c \in Channels : lock[c] # p => lock'[c] = lock[c]
  BY <1>2 DEF Release
<1> QED BY <1>1, <1>3, <1>4, <1>5, <1>6, StepsAside DEF Inv

\* The steps before the delivery and between two candidates.
LEMMA QuietSteps ==
  ASSUME Inv, NEW p \in Passes,
         \/ StartScan(p) \/ Alternate(p) \/ UnitDone(p) \/ NotCalledFor(p)
         \/ \E u \in Units, s \in Scopes : StartCheck(p, u, s)
         \/ PageAssignments(p) \/ PageRecipients(p)
         \/ OverBudget(p) \/ Unassigned(p) \/ Revalidate(p)
  PROVE  Inv'
<1>1. CASE StartScan(p)
  BY <1>1, Quiet DEF StartScan, Aside, Inv, Shape
<1>2. CASE Alternate(p)
  BY <1>2, Quiet DEF Alternate, Aside, Inv, Shape
<1>3. CASE UnitDone(p)
  BY <1>3, Quiet DEF UnitDone, Returns, NextUnit, Aside, Inv, Shape
<1>4. CASE NotCalledFor(p)
  BY <1>4, Quiet DEF NotCalledFor, Aside, Inv, Shape
<1>5. CASE \E u \in Units, s \in Scopes : StartCheck(p, u, s)
  BY <1>5, Quiet DEF StartCheck, Aside, Inv, Shape
<1>6. CASE PageAssignments(p)
  <2>1. pc' = [pc EXCEPT ![p] = "recipients"] /\ UNCHANGED <<items, rows, lock, mailed>>
    BY <1>6 DEF PageAssignments
  <2> QED BY <2>1, Quiet DEF Aside, Inv, Shape
<1>7. CASE PageRecipients(p)
  <2>1. UNCHANGED <<rows, lock, mailed>> /\ \E left : Deliver(p, left)
    BY <1>7 DEF PageRecipients
  <2> QED BY <2>1, Quiet DEF Deliver, Aside, Inv, Shape
<1>8. CASE OverBudget(p)
  BY <1>8, Quiet DEF OverBudget, NextItem, Deliver, Aside, Inv, Shape
<1>9. CASE Unassigned(p)
  BY <1>9, Quiet DEF Unassigned, NextItem, Deliver, Aside, Inv, Shape
<1>10. CASE Revalidate(p)
  BY <1>10, Quiet DEF Revalidate, passvars, Aside, Inv, Shape
<1> QED BY <1>1, <1>2, <1>3, <1>4, <1>5, <1>6, <1>7, <1>8, <1>9, <1>10

LEMMA NextInv == ASSUME Inv, [Next]_avars PROVE Inv'
<1>1. CASE Reassign
  <2>1. UNCHANGED <<pc, items, rows, lock, mailed>>
    BY <1>1 DEF Reassign, passvars
  <2>2. Fewer /\ Mailing' /\ rows' \in [Slots -> Row \cup {NoRow}]
    BY <2>1 DEF Fewer, Pending, Inv, Mailing, Shape
  <2> QED BY <2>1, <2>2, Beside
<1>2. ASSUME NEW i \in Slots, Acknowledge(i) \/ Resolve(i) PROVE Inv'
  BY <1>2, SettleInv DEF Acknowledge, Resolve, Statuses
<1>3. ASSUME NEW i \in Slots, Age(i) PROVE Inv'
  BY <1>3, AgeInv
<1>4. ASSUME NEW p \in Passes, MailEnds(p) PROVE Inv'
  <2>1. Mailed(p, rows[mailed[p]].status) /\ Aside(p) /\ UNCHANGED lock
    BY <1>4 DEF MailEnds, NextItem, Deliver, Aside, Inv, Shape
  <2>2. ASSUME mailed[p] \in Slots
        PROVE  /\ rows[mailed[p]].status \in Statuses
               /\ rows[mailed[p]].status = "pending" =>
                    Pending(mailed[p]) \/ ~rows[mailed[p]].recent
    BY <2>2 DEF Inv, Shape, Mailing, Pending, Row
  <2> QED BY <2>1, <2>2, MailedInv
<1>5. ASSUME NEW p \in Passes, MailFails(p) PROVE Inv'
  <2>1. Mailed(p, "failed") /\ Aside(p) /\ UNCHANGED lock
    BY <1>5 DEF MailFails, NextItem, Deliver, Aside, Inv, Shape
  <2> QED BY <2>1, MailedInv DEF Statuses
<1>6. ASSUME NEW p \in Passes, UnitFails(p) PROVE Inv'
  <2>1. Aside(p) /\ Release(p) /\ UNCHANGED <<rows, mailed>>
    BY <1>6 DEF UnitFails, Aside, Inv, Shape
  <2> QED BY <2>1, Releases
<1>7. CASE UNCHANGED avars
  <2>1. UNCHANGED <<pc, items, rows, lock, mailed>>
    BY <1>7 DEF avars, passvars
  <2>2. Fewer /\ Mailing' /\ rows' \in [Slots -> Row \cup {NoRow}]
    BY <2>1 DEF Fewer, Pending, Inv, Mailing, Shape
  <2> QED BY <2>1, <2>2, Beside
<1> QED
  BY <1>1, <1>2, <1>3, <1>4, <1>5, <1>6, <1>7,
     QuietSteps, LockInv, DedupInv, CreateInv, DiesInv DEF Next, Pass

(* AlertDeliveryService._create_scoped_alert locks the channel before it     *)
(* looks for a recent alert: nobody has two recent pending alerts about one   *)
(* condition, however many scans and polls overlap and die.                   *)
THEOREM AlertsAreUnique == Spec => []NoDuplicates
<1>1. Inv => NoDuplicates
  BY DEF Inv
<1> QED BY <1>1, InitInv, NextInv, PTL DEF Spec

(* acknowledge_alert and resolve_alert decide by the locked row: only the     *)
(* failing mail of the delivery that made the alert takes a settled status.   *)
THEOREM SettlementLasts == Spec => SettledStays
<1> DEFINE Step ==
      \A i \in Slots :
        Settled(i) /\ rows'[i] # rows[i]
          => \/ rows'[i] = NoRow
             \/ rows'[i].status = rows[i].status
             \/ rows[i].status = "acknowledged" /\ rows'[i].status = "resolved"
             \/ rows'[i].status = "failed" /\ \E p \in Passes : mailed[p] = i
<1>1. ASSUME Inv, [Next]_avars PROVE Step \/ UNCHANGED avars
  <2> SUFFICES ASSUME Next, NEW i \in Slots, Settled(i), rows'[i] # rows[i]
               PROVE  \/ rows'[i] = NoRow
                      \/ rows'[i].status = rows[i].status
                      \/ rows[i].status = "acknowledged" /\ rows'[i].status = "resolved"
                      \/ rows'[i].status = "failed" /\ \E p \in Passes : mailed[p] = i
    BY <1>1
  <2>1. rows[i] \in Row
    BY <1>1 DEF Inv, Shape, Settled
  <2>2. ASSUME NEW j \in Slots, Acknowledge(j) \/ Resolve(j) \/ Age(j) PROVE Step
    <3>1. CASE Acknowledge(j)
      BY <1>1, <2>1, <3>1 DEF Acknowledge, Settle, Settled, Inv, Shape, Row
    <3>2. CASE Resolve(j)
      BY <1>1, <2>1, <3>2 DEF Resolve, Settle, Settled, Inv, Shape, Row
    <3>3. CASE Age(j)
      BY <1>1, <2>1, <3>3 DEF Age, Settled, Inv, Shape, Row
    <3> QED BY <2>2, <3>1, <3>2, <3>3
  <2>3. ASSUME NEW p \in Passes, NEW status, Mailed(p, status),
               status = rows[mailed[p]].status \/ status = "failed"
        PROVE  Step
    BY <1>1, <2>1, <2>3 DEF Mailed, Settled, Inv, Shape, Row
  <2>4. ASSUME NEW p \in Passes, Create(p) PROVE Step
    <3>1. rows[FreeSlot(Key(Item(p)))] = NoRow
      BY <2>4 DEF Create, FreeSlot
    <3> QED BY <1>1, <2>4, <3>1 DEF Create, Settled, Inv, Shape
  <2>5. ASSUME NEW p \in Passes, Dies(p) PROVE Step
    BY <2>5 DEF Dies
  <2> QED
    BY <2>2, <2>3, <2>4, <2>5 DEF Next, Pass, MailEnds, MailFails, Reassign, StartScan,
       Alternate, StartCheck, UnitDone, NotCalledFor, PageAssignments, PageRecipients, OverBudget,
       Unassigned, Lock, Dedup, Revalidate, UnitFails
<1> QED BY <1>1, InitInv, NextInv, PTL DEF Spec, SettledStays

-----------------------------------------------------------------------------
(* The types, the budgets, and whom an alert is for. *)

Delivering == {"deliver", "dedup", "create", "mail", "sending"}

\* A pass that is under way has a unit, a check and a candidate when its steps need one,
\* and it keeps a page and candidates no longer than it needs them.
Underway(p) ==
  /\ pc[p] # "idle" => units[p] # <<>>
  /\ pc[p] \in Delivering \cup {"recipients"} => checks[p] # <<>>
  /\ pc[p] # "recipients" => page[p] = <<>>
  /\ pc[p] \in Delivering <=> items[p] # <<>>

Concerns(u, m) ==
  /\ <<m[1], m[2]>> \in Groups
  /\ UnitOf[m[1]] = u
  /\ m[3] \in Readings[u] \cap Wants[m[1]]

\* A pass looks at assignments of its unit and delivers what concerns it.
Pertinent(p) ==
  /\ \A k \in DOMAIN page[p] : UnitOf[page[p][k]] = Unit(p)
  /\ \A k \in DOMAIN items[p] : Concerns(Unit(p), items[p][k])

\* Alerts are for members of a group, about a condition that lasts on the unit of an
\* assignment of this group that wants them.
Warranted ==
  \A i \in Slots : rows[i] # NoRow =>
    \E m \in Groups :
      LET item == <<m[1], m[2], i[1][3]>>
      IN i[1] = Key(item) /\ Concerns(UnitOf[m[1]], item)

TInv ==
  /\ AlertsTypeOK
  /\ \A p \in Passes : Underway(p) /\ Pertinent(p)
  /\ Warranted

LEMMA InitTInv == Init => TInv
<1> SUFFICES ASSUME Init PROVE TInv
  OBVIOUS
<1>1. /\ units \in [Passes -> Seq(Units)]
      /\ order \in [Passes -> Seq(Scopes)]
      /\ checks \in [Passes -> Seq(Scopes)]
      /\ page \in [Passes -> Seq(Assignments)]
      /\ items \in [Passes -> Seq(Assignments \X Users \X Types)]
  BY DEF Init
<1>3. spent \in [Passes -> [assignments : 0 .. AssignmentLimit,
                           recipients : 0 .. RecipientLimit,
                           deliveries : 0 .. DeliveryLimit]]
  BY LimitsAssumption DEF Init, Unspent
<1>5. /\ assignmentCursor \in [Scopes \X Units -> Assignments \cup {0}]
      /\ pairCursor \in [Scopes \X Units -> (Assignments \cup {0}) \X (Users \cup {0})]
  BY DEF Init
<1>6. /\ rows \in [Slots -> Row \cup {NoRow}]
      /\ lock \in [Channels -> Passes \cup {Nobody}]
      /\ mailed \in [Passes -> Slots \cup {Nobody}]
      /\ pc \in [Passes -> {"idle"}]
      /\ cut \in [Passes -> BOOLEAN]
  BY DEF Init
<1>7. trouble \in 0 .. MaxTrouble
  <2>1. MaxTrouble \in Nat
    BY LimitsAssumption
  <2> QED BY <2>1 DEF Init
<1>8. unitCursor \in Units \cup {0} /\ transmitterFirst \in BOOLEAN
  BY DEF Init
<1>9. enabled \subseteq Assignments /\ members \subseteq Groups
  BY DEF Init
<1>4. AlertsTypeOK
  BY <1>1, <1>3, <1>5, <1>6, <1>7, <1>8, <1>9 DEF AlertsTypeOK
<1>2. \A p \in Passes : Underway(p) /\ Pertinent(p)
  <2> SUFFICES ASSUME NEW p \in Passes PROVE Underway(p) /\ Pertinent(p)
    OBVIOUS
  <2>1. pc[p] = "idle" /\ page[p] = <<>> /\ items[p] = <<>>
    BY DEF Init
  <2> QED BY <2>1 DEF Underway, Pertinent, Delivering
<1>10. Warranted
  BY DEF Init, Warranted
<1> QED BY <1>2, <1>4, <1>10 DEF TInv

LEMMA SomeUnits ==
  AlertsTypeOK => /\ Candidates \in SUBSET Nat
                  /\ Candidates \in SUBSET Units
                  /\ IsFiniteSet(Candidates)
<1>1. Candidates \in SUBSET Units
  BY InventoryAssumption DEF Candidates
<1> QED BY <1>1, FS_Subset, KeysAssumption, TablesAssumption

LEMMA UnitsPage ==
  ASSUME AlertsTypeOK, Candidates # {}, NEW from
  PROVE  /\ Turn(Candidates, from, KeyOrder, UnitLimit) \in Seq(Units)
         /\ Turn(Candidates, from, KeyOrder, UnitLimit) # <<>>
<1> DEFINE turn == Turn(Candidates, from, KeyOrder, UnitLimit)
<1>1. /\ turn \in Seq(Candidates)
      /\ Len(turn) = IF UnitLimit < Cardinality(Candidates)
                       THEN UnitLimit ELSE Cardinality(Candidates)
  BY SomeUnits, KeysOrdered, Page, LimitsAssumption
<1>2. Cardinality(Candidates) \in Nat /\ Cardinality(Candidates) # 0
  BY SomeUnits, FS_CardinalityType, FS_EmptySet
<1> HIDE DEF turn
<1>3. turn \in Seq(Units)
  BY <1>1, SomeUnits
<1>4. turn # <<>>
  BY <1>1, <1>2, LimitsAssumption
<1> QED BY <1>3, <1>4 DEF turn

\* What a step of one pass has to keep.
LEMMA OnePass ==
  ASSUME TInv, NEW p \in Passes, AlertsTypeOK', Underway(p)', Pertinent(p)', Warranted',
         \A q \in Passes \ {p} :
           /\ pc'[q] = pc[q] /\ units'[q] = units[q] /\ checks'[q] = checks[q]
           /\ page'[q] = page[q] /\ items'[q] = items[q]
  PROVE  TInv'
<1> SUFFICES ASSUME NEW q \in Passes PROVE Underway(q)' /\ Pertinent(q)'
  BY DEF TInv
<1>1. CASE q = p
  BY <1>1
<1>2. CASE q # p
  <2>1. Underway(q) /\ Pertinent(q)
    BY DEF TInv
  <2> QED BY <1>2, <2>1 DEF Underway, Pertinent, Unit
<1> QED BY <1>1, <1>2

\* Steps that leave the alerts.
LEMMA SameRows == ASSUME TInv, UNCHANGED rows PROVE Warranted'
BY DEF TInv, Warranted

LEMMA TroubleType ==
  ASSUME TInv, Troubled \/ UNCHANGED trouble PROVE trouble' \in 0 .. MaxTrouble
BY LimitsAssumption DEF Troubled, TInv, AlertsTypeOK

LEMMA StartScanType == ASSUME TInv, NEW p \in Passes, StartScan(p) PROVE TInv'
<1>1. units'[p] \in Seq(Units) /\ units'[p] # <<>>
  <2>1. PICK from : units' = [units EXCEPT ![p] = Turn(Candidates, from, KeyOrder, UnitLimit)]
    BY DEF StartScan
  <2>2. units'[p] = Turn(Candidates, from, KeyOrder, UnitLimit)
    BY <2>1 DEF TInv, AlertsTypeOK
  <2> QED BY <2>2, UnitsPage DEF StartScan, TInv
<1>2. trouble' \in 0 .. MaxTrouble
  BY TroubleType DEF StartScan, Cache
<1>3. order' \in [Passes -> Seq(Scopes)]
  <2>1. <<"transmitter", "offline">> \in Seq(Scopes) /\ <<"offline", "transmitter">> \in Seq(Scopes)
    BY DEF Scopes
  <2>2. PICK o \in Seq(Scopes) : order' = [order EXCEPT ![p] = o]
    BY <2>1 DEF StartScan
  <2> QED BY <2>2 DEF TInv, AlertsTypeOK
<1>4. /\ units' = [units EXCEPT ![p] = units'[p]]
      /\ pc' = [pc EXCEPT ![p] = "alternate"]
      /\ pc[p] = "idle"
      /\ UNCHANGED <<unitCursor, transmitterFirst, assignmentCursor, pairCursor, enabled, members,
                     rows, lock, checks, page, items, spent, cut, mailed>>
  BY DEF StartScan, cachevars, TInv, AlertsTypeOK
<1>5. AlertsTypeOK'
  BY <1>1, <1>2, <1>3, <1>4 DEF TInv, AlertsTypeOK
<1>6. pc'[p] = "alternate" /\ page'[p] = <<>> /\ items'[p] = <<>> /\ units'[p] # <<>>
  BY <1>1, <1>4 DEF TInv, AlertsTypeOK, Underway, Delivering
<1>7. Underway(p)' /\ Pertinent(p)'
  BY <1>6 DEF Underway, Pertinent, Delivering
<1> QED BY <1>4, <1>5, <1>7, OnePass, SameRows DEF TInv, AlertsTypeOK

LEMMA AlternateType == ASSUME TInv, NEW p \in Passes, Alternate(p) PROVE TInv'
<1>1. /\ pc[p] = "alternate"
      /\ pc' = [pc EXCEPT ![p] = "check"]
      /\ checks' = [checks EXCEPT ![p] = order[p]]
      /\ transmitterFirst' \in BOOLEAN
      /\ UNCHANGED <<unitCursor, assignmentCursor, pairCursor, enabled, members, rows, lock,
                 units, order, page, items, spent, cut, mailed>>
  BY DEF Alternate, TInv, AlertsTypeOK
<1>2. trouble' \in 0 .. MaxTrouble
  BY TroubleType DEF Alternate, Cache
<1>3. AlertsTypeOK'
  BY <1>1, <1>2 DEF TInv, AlertsTypeOK
<1>4. pc'[p] = "check" /\ page'[p] = <<>> /\ items'[p] = <<>> /\ units'[p] # <<>>
  BY <1>1 DEF TInv, AlertsTypeOK, Underway, Delivering
<1>5. Underway(p)' /\ Pertinent(p)'
  BY <1>4 DEF Underway, Pertinent, Delivering
<1> QED BY <1>1, <1>3, <1>5, OnePass, SameRows DEF TInv, AlertsTypeOK

LEMMA StartCheckType ==
  ASSUME TInv, NEW p \in Passes, NEW u \in Units, NEW s \in Scopes, StartCheck(p, u, s)
  PROVE  TInv'
<1>1. /\ pc[p] = "idle"
      /\ units' = [units EXCEPT ![p] = <<u>>]
      /\ order' = [order EXCEPT ![p] = <<s>>]
      /\ checks' = [checks EXCEPT ![p] = <<s>>]
      /\ pc' = [pc EXCEPT ![p] = "check"]
      /\ UNCHANGED <<unitCursor, transmitterFirst, assignmentCursor, pairCursor, enabled, members,
                     rows, lock, page, items, spent, cut, mailed, trouble>>
  BY DEF StartCheck, cachevars
<1>2. <<u>> \in Seq(Units) /\ <<s>> \in Seq(Scopes) /\ <<u>> # <<>>
  OBVIOUS
<1>3. AlertsTypeOK'
  BY <1>1, <1>2 DEF TInv, AlertsTypeOK
<1>4. pc'[p] = "check" /\ page'[p] = <<>> /\ items'[p] = <<>> /\ units'[p] # <<>>
  BY <1>1, <1>2 DEF TInv, AlertsTypeOK, Underway, Delivering
<1>5. Underway(p)' /\ Pertinent(p)'
  BY <1>4 DEF Underway, Pertinent, Delivering
<1> QED BY <1>1, <1>3, <1>5, OnePass, SameRows DEF TInv, AlertsTypeOK

LEMMA UnitDoneType == ASSUME TInv, NEW p \in Passes, UnitDone(p) PROVE TInv'
<1>1. pc[p] = "check" /\ units[p] # <<>> /\ units[p] \in Seq(Units)
      /\ page[p] = <<>> /\ items[p] = <<>>
  BY DEF UnitDone, TInv, AlertsTypeOK, Underway, Delivering
<1>2. Head(units[p]) \in Units /\ Tail(units[p]) \in Seq(Units)
  BY <1>1
<1>3. unitCursor' \in Units \cup {0}
  BY <1>2 DEF UnitDone, Unit, TInv, AlertsTypeOK
<1>4. trouble' \in 0 .. MaxTrouble
  BY TroubleType DEF UnitDone, Cache
<1>5. UNCHANGED <<transmitterFirst, assignmentCursor, pairCursor, enabled, members, rows, lock,
                 page, items, mailed>>
  BY DEF UnitDone
<1>6. CASE Returns(p)
  <2>1. <<>> \in Seq(Units) /\ <<>> \in Seq(Scopes)
    OBVIOUS
  <2>2. Unspent \in [assignments : 0 .. AssignmentLimit, recipients : 0 .. RecipientLimit,
                     deliveries : 0 .. DeliveryLimit]
    BY LimitsAssumption DEF Unspent
  <2>3. AlertsTypeOK'
    BY <1>3, <1>4, <1>5, <1>6, <2>1, <2>2 DEF TInv, AlertsTypeOK, Returns
  <2>4. pc'[p] = "idle" /\ page'[p] = <<>> /\ items'[p] = <<>>
    BY <1>1, <1>5, <1>6 DEF Returns, TInv, AlertsTypeOK
  <2>5. Underway(p)' /\ Pertinent(p)'
    BY <2>4 DEF Underway, Pertinent, Delivering
  <2> QED BY <1>5, <1>6, <2>3, <2>5, OnePass, SameRows DEF TInv, AlertsTypeOK, Returns
<1>7. CASE NextUnit(p) /\ Len(units[p]) # 1
  <2>1. AlertsTypeOK'
    BY <1>2, <1>3, <1>4, <1>5, <1>7 DEF TInv, AlertsTypeOK, NextUnit
  <2>2. Tail(units[p]) # <<>>
    <3>1. Len(units[p]) \in Nat /\ Len(units[p]) # 0
      BY <1>1
    <3>2. Len(Tail(units[p])) = Len(units[p]) - 1
      BY <1>1
    <3>3. Len(Tail(units[p])) # 0
      BY <1>7, <3>1, <3>2
    <3>4. Len(<<>>) = 0
      OBVIOUS
    <3> QED BY <3>3, <3>4
  <2>3. pc'[p] = "check" /\ page'[p] = <<>> /\ items'[p] = <<>> /\ units'[p] # <<>>
    BY <1>1, <1>5, <1>7, <2>2 DEF NextUnit, TInv, AlertsTypeOK
  <2>4. Underway(p)' /\ Pertinent(p)'
    BY <2>3 DEF Underway, Pertinent, Delivering
  <2> QED BY <1>5, <1>7, <2>1, <2>4, OnePass, SameRows DEF TInv, AlertsTypeOK, NextUnit
<1> QED BY <1>6, <1>7 DEF UnitDone

LEMMA NotCalledForType == ASSUME TInv, NEW p \in Passes, NotCalledFor(p) PROVE TInv'
<1>1. /\ pc[p] = "check" /\ checks[p] # <<>>
      /\ checks' = [checks EXCEPT ![p] = Tail(checks[p])]
      /\ UNCHANGED <<unitCursor, transmitterFirst, assignmentCursor, pairCursor, enabled, members,
                     rows, lock, pc, units, order, page, items, spent, cut, mailed, trouble>>
  BY DEF NotCalledFor, cachevars
<1>2. Tail(checks[p]) \in Seq(Scopes)
  BY <1>1 DEF TInv, AlertsTypeOK
<1>3. AlertsTypeOK'
  BY <1>1, <1>2 DEF TInv, AlertsTypeOK
<1>4. pc'[p] = "check" /\ page'[p] = <<>> /\ items'[p] = <<>> /\ units'[p] # <<>>
  BY <1>1 DEF TInv, AlertsTypeOK, Underway, Delivering
<1>5. Underway(p)' /\ Pertinent(p)'
  BY <1>4 DEF Underway, Pertinent, Delivering
<1> QED BY <1>1, <1>3, <1>5, OnePass, SameRows DEF TInv, AlertsTypeOK

LEMMA TripleFinite ==
  ASSUME NEW A, NEW B, NEW C, IsFiniteSet(A), IsFiniteSet(B), IsFiniteSet(C)
  PROVE  IsFiniteSet(A \X B \X C)
<1> DEFINE f == [x \in (A \X B) \X C |-> <<x[1][1], x[1][2], x[2]>>]
<1>1. IsFiniteSet((A \X B) \X C)
  BY FS_Product
<1>2. f \in [(A \X B) \X C -> A \X B \X C]
  OBVIOUS
<1>3. ASSUME NEW t \in A \X B \X C PROVE \E x \in (A \X B) \X C : f[x] = t
  <2> DEFINE x == <<<<t[1], t[2]>>, t[3]>>
  <2>1. x \in (A \X B) \X C
    OBVIOUS
  <2>2. f[x] = t
    BY <2>1
  <2> QED BY <2>1, <2>2
<1>4. f \in Surjection((A \X B) \X C, A \X B \X C)
  BY <1>2, <1>3 DEF Surjection
<1> QED BY <1>1, <1>4, FS_Surjection

\* What a check is about to deliver: each for an assignment and a recipient of its pages,
\* and for a condition that lasts and that the assignment alerts on.
LEMMA CandidateType ==
  ASSUME NEW u \in Units, NEW s \in Scopes, NEW assigned \in Seq(Assignments),
         NEW pairs \in Seq(Assignments \X Users)
  PROVE  LET all == Candidate(u, s, assigned, pairs) IN
         /\ all \in Seq(Assignments \X Users \X Types)
         /\ \A k \in DOMAIN all :
              /\ \E i \in DOMAIN assigned : assigned[i] = all[k][1]
              /\ \E j \in DOMAIN pairs : pairs[j] = <<all[k][1], all[k][2]>>
              /\ all[k][3] \in Readings[u] \cap Wants[all[k][1]]
              /\ all[k][3] \in Range(TypesOf[s])
<1> DEFINE D == (DOMAIN assigned) \X (DOMAIN pairs) \X (DOMAIN TypesOf[s])
           W == {c \in D :
                   /\ pairs[c[2]][1] = assigned[c[1]]
                   /\ TypesOf[s][c[3]] \in Readings[u] \cap Wants[assigned[c[1]]]}
           all == InOrder(W, ItemOrder)
           item == [k \in DOMAIN all |->
                      <<assigned[all[k][1]], pairs[all[k][2]][2], TypesOf[s][all[k][3]]>>]
<1>1. \E n \in Nat : DOMAIN TypesOf[s] = 1 .. n
  <2>1. DOMAIN TypesOf["offline"] = 1 .. 1
    BY DEF TypesOf
  <2>2. DOMAIN TypesOf["transmitter"] = 1 .. 3
    BY DEF TypesOf
  <2> QED BY <2>1, <2>2 DEF Scopes
<1>2. \A t \in DOMAIN TypesOf[s] : TypesOf[s][t] \in Range(TypesOf[s]) /\ TypesOf[s][t] \in Types
  <2>1. \A t \in DOMAIN TypesOf[s] : TypesOf[s][t] \in Range(TypesOf[s])
    BY DEF Range
  <2> QED BY <2>1 DEF Types
<1>3. DOMAIN assigned = 1 .. Len(assigned) /\ DOMAIN pairs = 1 .. Len(pairs)
      /\ Len(assigned) \in Nat /\ Len(pairs) \in Nat
  OBVIOUS
<1> HIDE DEF D
<1>4. IsFiniteSet(D)
  <2>1. IsFiniteSet(DOMAIN assigned) /\ IsFiniteSet(DOMAIN pairs) /\ IsFiniteSet(DOMAIN TypesOf[s])
    <3>1. \A n \in Nat : IsFiniteSet(1 .. n)
      BY FS_Interval
    <3> QED BY <1>1, <1>3, <3>1
  <2> QED BY <2>1, TripleFinite DEF D
<1>5. D \in SUBSET (Nat \X Nat \X Nat)
  BY <1>1, <1>3 DEF D
<1>6. IsFiniteSet(W) /\ W \in SUBSET (Nat \X Nat \X Nat)
  BY <1>4, <1>5, FS_Subset
<1>7. all \in Seq(W)
  BY <1>6, ItemsOrdered, RowsInOrder
<1> HIDE DEF all, W
<1>8. \A k \in DOMAIN all : all[k] \in W
  BY <1>7
<1>9. Candidate(u, s, assigned, pairs) = item
  BY DEF Candidate, D, W, all
<1>10. ASSUME NEW k \in DOMAIN all
       PROVE  /\ item[k] = <<assigned[all[k][1]], pairs[all[k][2]][2], TypesOf[s][all[k][3]]>>
              /\ item[k] \in Assignments \X Users \X Types
              /\ \E i \in DOMAIN assigned : assigned[i] = item[k][1]
              /\ \E j \in DOMAIN pairs : pairs[j] = <<item[k][1], item[k][2]>>
              /\ item[k][3] \in Readings[u] \cap Wants[item[k][1]]
              /\ item[k][3] \in Range(TypesOf[s])
  <2>1. PICK i \in DOMAIN assigned, j \in DOMAIN pairs, t \in DOMAIN TypesOf[s] :
          /\ all[k] = <<i, j, t>>
          /\ pairs[j][1] = assigned[i]
          /\ TypesOf[s][t] \in Readings[u] \cap Wants[assigned[i]]
    BY <1>8 DEF D, W
  <2>2. item[k] = <<assigned[i], pairs[j][2], TypesOf[s][t]>>
    BY <2>1
  <2>3. assigned[i] \in Assignments /\ pairs[j] \in Assignments \X Users
    BY <1>3
  <2>4. TypesOf[s][t] \in Types /\ TypesOf[s][t] \in Range(TypesOf[s])
    BY <1>2
  <2> HIDE DEF item
  <2> QED BY <2>1, <2>2, <2>3, <2>4
<1>11. DOMAIN item = DOMAIN all /\ DOMAIN all = 1 .. Len(all) /\ Len(all) \in Nat
  BY <1>7
<1>12. item \in Seq(Assignments \X Users \X Types)
  <2>1. item \in [1 .. Len(all) -> Assignments \X Users \X Types]
    BY <1>10, <1>11
  <2> QED BY <1>11, <2>1
<1> QED BY <1>9, <1>10, <1>11, <1>12

Items == Seq(Assignments \X Users \X Types)

\* Going on with what is left to deliver.
LEMMA DeliverType ==
  ASSUME TInv, NEW p \in Passes, pc[p] # "idle", checks[p] # <<>>, NEW left \in Items,
         \A k \in DOMAIN left : Concerns(Unit(p), left[k]),
         Deliver(p, left), page' = [page EXCEPT ![p] = <<>>], units' = units
  PROVE  /\ items' \in [Passes -> Items]
         /\ checks' \in [Passes -> Seq(Scopes)]
         /\ pc' \in [Passes -> {"idle", "alternate", "check", "recipients", "deliver",
                                "dedup", "create", "mail", "sending"}]
         /\ page' \in [Passes -> Seq(Assignments)]
         /\ Underway(p)' /\ Pertinent(p)'
         /\ \A q \in Passes \ {p} :
              /\ pc'[q] = pc[q] /\ units'[q] = units[q] /\ checks'[q] = checks[q]
              /\ page'[q] = page[q] /\ items'[q] = items[q]
<1>1. checks[p] \in Seq(Scopes) /\ Tail(checks[p]) \in Seq(Scopes)
  BY DEF TInv, AlertsTypeOK
<1>2. /\ items' = [items EXCEPT ![p] = left]
      /\ pc' = [pc EXCEPT ![p] = IF left = <<>> THEN "check" ELSE "deliver"]
      /\ checks' = [checks EXCEPT ![p] = IF left = <<>> THEN Tail(checks[p]) ELSE checks[p]]
  BY DEF Deliver
<1>3. /\ items' \in [Passes -> Items] /\ checks' \in [Passes -> Seq(Scopes)]
      /\ page' \in [Passes -> Seq(Assignments)]
  <2>1. <<>> \in Seq(Assignments)
    OBVIOUS
  <2> QED BY <1>1, <1>2, <2>1 DEF TInv, AlertsTypeOK, Items
<1>4. pc' \in [Passes -> {"idle", "alternate", "check", "recipients", "deliver",
                          "dedup", "create", "mail", "sending"}]
  BY <1>2 DEF TInv, AlertsTypeOK
<1>5. /\ items'[p] = left /\ page'[p] = <<>> /\ units'[p] = units[p] /\ units[p] # <<>>
      /\ pc'[p] = IF left = <<>> THEN "check" ELSE "deliver"
      /\ checks'[p] = IF left = <<>> THEN Tail(checks[p]) ELSE checks[p]
  BY <1>2 DEF TInv, AlertsTypeOK, Underway
<1>6. Underway(p)'
  BY <1>5 DEF Underway, Delivering
<1>7. Pertinent(p)'
  BY <1>5 DEF Pertinent, Unit
<1> QED BY <1>2, <1>3, <1>4, <1>6, <1>7 DEF TInv, AlertsTypeOK

LEMMA KeysOfCursor == ASSUME TInv, NEW p \in Passes, checks[p] # <<>>, pc[p] # "idle"
  PROVE  /\ Scope(p) \in Scopes /\ Unit(p) \in Units
         /\ units[p] \in Seq(Units) /\ checks[p] \in Seq(Scopes)
<1>1. units[p] # <<>> /\ units[p] \in Seq(Units) /\ checks[p] \in Seq(Scopes)
  BY DEF TInv, AlertsTypeOK, Underway
<1> QED BY <1>1 DEF Scope, Unit

LEMMA PageAssignmentsType == ASSUME TInv, NEW p \in Passes, PageAssignments(p) PROVE TInv'
<1> DEFINE s == Scope(p)
           k == <<s, Unit(p)>>
           limit == AssignmentLimit - spent[p].assignments
           found == Assigned(Unit(p), s)
<1>1. /\ pc[p] = "check" /\ checks[p] # <<>>
      /\ pc' = [pc EXCEPT ![p] = "recipients"]
      /\ UNCHANGED <<unitCursor, transmitterFirst, pairCursor, enabled, members, rows, lock, units,
                     order, checks, items, mailed>>
  BY DEF PageAssignments
<1>2. s \in Scopes /\ Unit(p) \in Units
  BY <1>1, KeysOfCursor
<1>3. /\ AssignmentLimit \in Nat
      /\ spent[p] \in [assignments : 0 .. AssignmentLimit, recipients : 0 .. RecipientLimit,
                       deliveries : 0 .. DeliveryLimit]
      /\ limit \in Nat
  BY LimitsAssumption DEF TInv, AlertsTypeOK
<1>4. found \in SUBSET Nat /\ IsFiniteSet(found) /\ found \in SUBSET Assignments
  <2>1. found \in SUBSET Assignments
    BY DEF TInv, AlertsTypeOK, Assigned
  <2> QED BY <2>1, KeysAssumption, TablesAssumption, FS_Subset
<1>5. \A a \in found : UnitOf[a] = Unit(p)
  BY DEF Assigned
<1> HIDE DEF s, found, limit
<1>6. PICK turn \in Seq(found) :
        /\ page' = [page EXCEPT ![p] = turn]
        /\ \/ assignmentCursor' = assignmentCursor
           \/ turn # <<>> /\ assignmentCursor' = [assignmentCursor EXCEPT ![k] = Last(turn)]
        /\ spent' = [spent EXCEPT ![p].assignments = @ + Len(turn)]
        /\ Len(turn) <= limit
  <2>1. CASE limit = 0
    <3>1. /\ page' = [page EXCEPT ![p] = <<>>]
          /\ UNCHANGED <<assignmentCursor, spent>>
      BY <2>1 DEF PageAssignments, limit
    <3>2. <<>> \in Seq(found) /\ Len(<<>>) = 0
      OBVIOUS
    <3>3. spent' = [spent EXCEPT ![p].assignments = @ + Len(<<>>)]
      BY <1>3, <3>1, <3>2 DEF TInv, AlertsTypeOK
    <3>4. Len(<<>>) <= limit
      BY <1>3, <3>2
    <3> WITNESS <<>> \in Seq(found)
    <3> QED BY <3>1, <3>3, <3>4
  <2>2. CASE limit # 0
    <3>1. PICK from : LET turn == Turn(found, from, KeyOrder, limit) IN
            /\ page' = [page EXCEPT ![p] = turn]
            /\ \/ assignmentCursor' = assignmentCursor
               \/ turn # <<>> /\ assignmentCursor' = [assignmentCursor EXCEPT ![k] = Last(turn)]
            /\ spent' = [spent EXCEPT ![p].assignments = @ + Len(turn)]
      BY <2>2 DEF PageAssignments, limit, found, s
    <3> DEFINE turn == Turn(found, from, KeyOrder, limit)
    <3>2. /\ turn \in Seq(found)
          /\ Len(turn) = IF limit < Cardinality(found) THEN limit ELSE Cardinality(found)
      <4>1. TotalOrder(KeyOrder, found)
        BY <1>4, KeysOrdered
      <4> QED BY <1>3, <1>4, <4>1, Page
    <3>3. Len(turn) <= limit
      BY <1>3, <1>4, <3>2, FS_CardinalityType
    <3> QED BY <3>1, <3>2, <3>3
  <2> QED BY <2>1, <2>2
<1>7. trouble' \in 0 .. MaxTrouble
  BY TroubleType DEF PageAssignments, Cache
<1>8. cut' \in [Passes -> BOOLEAN]
  <2>1. PICK b \in BOOLEAN : cut' = [cut EXCEPT ![p] = b]
    BY DEF PageAssignments, TInv, AlertsTypeOK
  <2> QED BY <2>1 DEF TInv, AlertsTypeOK
<1>9. turn \in Seq(Assignments) /\ (turn # <<>> => Last(turn) \in Assignments)
  BY <1>4, <1>6 DEF Last
<1>10. assignmentCursor' \in [Scopes \X Units -> Assignments \cup {0}]
  BY <1>2, <1>6, <1>9 DEF TInv, AlertsTypeOK
<1>11. spent' \in [Passes -> [assignments : 0 .. AssignmentLimit,
                              recipients : 0 .. RecipientLimit,
                              deliveries : 0 .. DeliveryLimit]]
  <2>1. spent[p].assignments + Len(turn) \in 0 .. AssignmentLimit
    BY <1>3, <1>6 DEF limit
  <2> QED BY <1>3, <1>6, <2>1 DEF TInv, AlertsTypeOK
<1>12. AlertsTypeOK'
  BY <1>1, <1>6, <1>7, <1>8, <1>9, <1>10, <1>11 DEF TInv, AlertsTypeOK
<1>13. /\ pc'[p] = "recipients" /\ page'[p] = turn /\ items'[p] = <<>> /\ units'[p] = units[p]
       /\ units[p] # <<>> /\ checks'[p] # <<>>
  BY <1>1, <1>6 DEF TInv, AlertsTypeOK, Underway, Delivering
<1>14. \A i \in DOMAIN turn : turn[i] \in found
  BY <1>6
<1>15. Underway(p)' /\ Pertinent(p)'
  BY <1>5, <1>13, <1>14 DEF Underway, Pertinent, Delivering, Unit
<1> QED BY <1>1, <1>6, <1>12, <1>15, OnePass, SameRows DEF TInv, AlertsTypeOK

LEMMA PageRecipientsType == ASSUME TInv, NEW p \in Passes, PageRecipients(p) PROVE TInv'
<1> DEFINE s == Scope(p)
           k == <<s, Unit(p)>>
           limit == RecipientLimit - spent[p].recipients
           found == {m \in members : m[1] \in Range(page[p])}
<1>1. /\ pc[p] = "recipients" /\ checks[p] # <<>>
      /\ page' = [page EXCEPT ![p] = <<>>]
      /\ UNCHANGED <<unitCursor, transmitterFirst, assignmentCursor, enabled, members, rows, lock,
                     units, order, mailed>>
  BY DEF PageRecipients, TInv, Underway
<1>2. s \in Scopes /\ Unit(p) \in Units
  BY <1>1, KeysOfCursor
<1>3. /\ RecipientLimit \in Nat
      /\ spent[p] \in [assignments : 0 .. AssignmentLimit, recipients : 0 .. RecipientLimit,
                       deliveries : 0 .. DeliveryLimit]
      /\ limit \in Nat
  BY LimitsAssumption DEF TInv, AlertsTypeOK
<1>4. /\ found \in SUBSET (Nat \X Nat) /\ IsFiniteSet(found)
      /\ found \in SUBSET Groups /\ Groups \subseteq Assignments \X Users
  <2>1. found \in SUBSET Groups /\ Groups \subseteq Assignments \X Users
    BY InventoryAssumption DEF TInv, AlertsTypeOK
  <2>2. IsFiniteSet(Assignments \X Users)
    BY TablesAssumption, FS_Product
  <2>3. Assignments \X Users \in SUBSET (Nat \X Nat)
    BY KeysAssumption
  <2> QED BY <2>1, <2>2, <2>3, FS_Subset
<1>5. page[p] \in Seq(Assignments) /\ \A i \in DOMAIN page[p] : UnitOf[page[p][i]] = Unit(p)
  BY DEF TInv, AlertsTypeOK, Pertinent
<1> HIDE DEF s, found, limit
<1>6. PICK turn \in Seq(found), left \in Items :
        /\ Deliver(p, left)
        /\ \A i \in DOMAIN left : Concerns(Unit(p), left[i])
        /\ \/ pairCursor' = pairCursor
           \/ turn # <<>> /\ pairCursor' = [pairCursor EXCEPT ![k] = Last(turn)]
        /\ spent' = [spent EXCEPT ![p].recipients = @ + Len(turn)]
        /\ Len(turn) <= limit
  <2>1. CASE limit = 0 \/ page[p] = <<>>
    <3>1. Deliver(p, <<>>) /\ UNCHANGED <<pairCursor, spent>>
      BY <2>1 DEF PageRecipients, limit
    <3>2. <<>> \in Seq(found) /\ Len(<<>>) = 0 /\ <<>> \in Items
      BY DEF Items
    <3>3. spent' = [spent EXCEPT ![p].recipients = @ + Len(<<>>)]
      BY <1>3, <3>1, <3>2 DEF TInv, AlertsTypeOK
    <3>4. Len(<<>>) <= limit
      BY <1>3, <3>2
    <3>5. \A i \in DOMAIN <<>> : Concerns(Unit(p), <<>>[i])
      OBVIOUS
    <3> USE <3>2
    <3> WITNESS <<>> \in Seq(found), <<>> \in Items
    <3> QED BY <3>1, <3>3, <3>4, <3>5
  <2>2. CASE ~(limit = 0 \/ page[p] = <<>>)
    <3>1. PICK from : LET turn == Turn(found, from, PairOrder, limit) IN
            /\ Deliver(p, Candidate(Unit(p), s, page[p], turn))
            /\ \/ pairCursor' = pairCursor
               \/ turn # <<>> /\ pairCursor' = [pairCursor EXCEPT ![k] = Last(turn)]
            /\ spent' = [spent EXCEPT ![p].recipients = @ + Len(turn)]
      BY <2>2 DEF PageRecipients, limit, found, s
    <3> DEFINE turn == Turn(found, from, PairOrder, limit)
               left == Candidate(Unit(p), s, page[p], turn)
    <3>2. /\ turn \in Seq(found)
          /\ Len(turn) = IF limit < Cardinality(found) THEN limit ELSE Cardinality(found)
      BY <1>3, <1>4, PairsOrdered, Page
    <3>3. Len(turn) <= limit
      BY <1>3, <1>4, <3>2, FS_CardinalityType
    <3>4. turn \in Seq(Assignments \X Users)
      BY <1>4, <3>2
    <3>5. /\ left \in Items
          /\ \A i \in DOMAIN left :
               /\ \E j \in DOMAIN page[p] : page[p][j] = left[i][1]
               /\ \E j \in DOMAIN turn : turn[j] = <<left[i][1], left[i][2]>>
               /\ left[i][3] \in Readings[Unit(p)] \cap Wants[left[i][1]]
      BY <1>2, <1>5, <3>4, CandidateType DEF Items
    <3>6. \A j \in DOMAIN turn : turn[j] \in Groups
      BY <1>4, <3>2
    <3>7. \A i \in DOMAIN left : Concerns(Unit(p), left[i])
      BY <1>5, <3>5, <3>6 DEF Concerns
    <3> HIDE DEF left, turn
    <3> QED BY <3>1, <3>2, <3>3, <3>5, <3>7 DEF left, turn
  <2> QED BY <2>1, <2>2
<1>7. trouble' \in 0 .. MaxTrouble
  BY TroubleType DEF PageRecipients, Cache
<1>8. cut' \in [Passes -> BOOLEAN]
  <2>1. PICK b \in BOOLEAN : cut' = [cut EXCEPT ![p] = b]
    BY DEF PageRecipients, TInv, AlertsTypeOK
  <2> QED BY <2>1 DEF TInv, AlertsTypeOK
<1>9. turn # <<>> => Last(turn) \in Assignments \X Users
  BY <1>4, <1>6 DEF Last
<1>10. pairCursor' \in [Scopes \X Units -> (Assignments \cup {0}) \X (Users \cup {0})]
  BY <1>2, <1>6, <1>9 DEF TInv, AlertsTypeOK
<1>11. spent' \in [Passes -> [assignments : 0 .. AssignmentLimit,
                              recipients : 0 .. RecipientLimit,
                              deliveries : 0 .. DeliveryLimit]]
  <2>1. spent[p].recipients + Len(turn) \in 0 .. RecipientLimit
    BY <1>3, <1>6 DEF limit
  <2> QED BY <1>3, <1>6, <2>1 DEF TInv, AlertsTypeOK
<1>12. /\ items' \in [Passes -> Items]
       /\ checks' \in [Passes -> Seq(Scopes)]
       /\ pc' \in [Passes -> {"idle", "alternate", "check", "recipients", "deliver",
                              "dedup", "create", "mail", "sending"}]
       /\ page' \in [Passes -> Seq(Assignments)]
       /\ Underway(p)' /\ Pertinent(p)'
       /\ \A q \in Passes \ {p} :
            /\ pc'[q] = pc[q] /\ units'[q] = units[q] /\ checks'[q] = checks[q]
            /\ page'[q] = page[q] /\ items'[q] = items[q]
  BY <1>1, <1>6, DeliverType
<1>13. AlertsTypeOK'
  BY <1>1, <1>7, <1>8, <1>10, <1>11, <1>12 DEF TInv, AlertsTypeOK, Items
<1> QED BY <1>1, <1>12, <1>13, OnePass, SameRows

\* Steps of a delivery that go on to the next candidate.
LEMMA NextItemType ==
  ASSUME TInv, NEW p \in Passes, pc[p] \in Delivering, NextItem(p), UNCHANGED <<page, units>>
  PROVE  /\ items' \in [Passes -> Items]
         /\ checks' \in [Passes -> Seq(Scopes)]
         /\ pc' \in [Passes -> {"idle", "alternate", "check", "recipients", "deliver",
                                "dedup", "create", "mail", "sending"}]
         /\ Underway(p)' /\ Pertinent(p)'
         /\ \A q \in Passes \ {p} :
              /\ pc'[q] = pc[q] /\ units'[q] = units[q] /\ checks'[q] = checks[q]
              /\ page'[q] = page[q] /\ items'[q] = items[q]
<1>1. items[p] \in Items /\ items[p] # <<>> /\ checks[p] # <<>> /\ pc[p] # "idle"
      /\ page[p] = <<>>
  BY DEF TInv, AlertsTypeOK, Underway, Delivering, Items
<1>2. /\ Tail(items[p]) \in Items
      /\ \A k \in DOMAIN Tail(items[p]) :
           k + 1 \in DOMAIN items[p] /\ Tail(items[p])[k] = items[p][k + 1]
  BY <1>1 DEF Items
<1>3. \A k \in DOMAIN Tail(items[p]) : Concerns(Unit(p), Tail(items[p])[k])
  BY <1>2 DEF TInv, Pertinent
<1>4. page' = [page EXCEPT ![p] = <<>>]
  BY <1>1 DEF TInv, AlertsTypeOK
<1>5. Deliver(p, Tail(items[p]))
  BY DEF NextItem
<1> QED BY <1>1, <1>2, <1>3, <1>4, <1>5, DeliverType

\* A delivery keeps its candidate while it works on it.
LEMMA SameItem ==
  ASSUME TInv, NEW p \in Passes, pc[p] \in Delivering, NEW to \in Delivering,
         pc' = [pc EXCEPT ![p] = to], UNCHANGED <<units, checks, page, items>>
  PROVE  /\ pc' \in [Passes -> {"idle", "alternate", "check", "recipients", "deliver",
                                "dedup", "create", "mail", "sending"}]
         /\ Underway(p)' /\ Pertinent(p)'
         /\ \A q \in Passes \ {p} :
              /\ pc'[q] = pc[q] /\ units'[q] = units[q] /\ checks'[q] = checks[q]
              /\ page'[q] = page[q] /\ items'[q] = items[q]
<1>1. pc' \in [Passes -> {"idle", "alternate", "check", "recipients", "deliver",
                          "dedup", "create", "mail", "sending"}]
  BY DEF TInv, AlertsTypeOK, Delivering
<1>2. Underway(p) /\ Pertinent(p) /\ pc'[p] = to
  BY DEF TInv, AlertsTypeOK
<1>3. to # "idle" /\ to # "recipients" /\ pc[p] # "idle" /\ pc[p] # "recipients"
  BY DEF Delivering
<1>4. Underway(p)'
  BY <1>2, <1>3 DEF Underway
<1>5. Pertinent(p)'
  BY <1>2 DEF Pertinent, Unit
<1> QED BY <1>1, <1>4, <1>5 DEF TInv, AlertsTypeOK

LEMMA ItemType == ASSUME TInv, NEW p \in Passes, pc[p] \in Delivering
  PROVE  /\ Item(p) \in Assignments \X Users \X Types
         /\ Concerns(Unit(p), Item(p))
         /\ Unit(p) \in Units
<1>1. items[p] \in Seq(Assignments \X Users \X Types) /\ items[p] # <<>>
  BY DEF TInv, AlertsTypeOK, Underway
<1>2. 1 \in DOMAIN items[p] /\ Item(p) = items[p][1]
  BY <1>1 DEF Item
<1>3. Unit(p) \in Units
  BY DEF TInv, AlertsTypeOK, Underway, Unit, Delivering
<1> QED BY <1>1, <1>2, <1>3 DEF TInv, Pertinent

Budgets == [assignments : 0 .. AssignmentLimit, recipients : 0 .. RecipientLimit,
            deliveries : 0 .. DeliveryLimit]

LEMMA DeliveryStepsType ==
  ASSUME TInv, NEW p \in Passes,
         OverBudget(p) \/ Unassigned(p) \/ Lock(p) \/ Dedup(p) \/ Revalidate(p)
  PROVE  TInv'
<1>1. CASE OverBudget(p)
  <2>1. pc[p] \in Delivering /\ NextItem(p) /\ UNCHANGED <<page, units, rows>>
    BY <1>1 DEF OverBudget, Delivering
  <2>2. AlertsTypeOK'
    BY <1>1, <2>1, NextItemType DEF OverBudget, cachevars, TInv, AlertsTypeOK, Items
  <2> QED BY <2>1, <2>2, NextItemType, OnePass, SameRows
<1>2. CASE Unassigned(p)
  <2>1. pc[p] \in Delivering /\ NextItem(p) /\ UNCHANGED <<page, units, rows>>
    BY <1>2 DEF Unassigned, Delivering
  <2>2. AlertsTypeOK'
    BY <1>2, <2>1, NextItemType DEF Unassigned, cachevars, TInv, AlertsTypeOK, Items
  <2> QED BY <2>1, <2>2, NextItemType, OnePass, SameRows
<1>3. CASE Lock(p)
  <2>1. /\ pc[p] \in Delivering /\ Channel(p) \in Channels /\ spent[p].deliveries < DeliveryLimit
        /\ UNCHANGED <<unitCursor, transmitterFirst, assignmentCursor, pairCursor, enabled, members,
                       rows, units, order, page, cut, mailed, trouble>>
    BY <1>3 DEF Lock, Delivering, cachevars
  <2>2. CASE Eligible(Item(p)[1], Item(p)[2])
    <3>1. /\ lock' = [lock EXCEPT ![Channel(p)] = p]
          /\ spent' = [spent EXCEPT ![p].deliveries = @ + 1]
          /\ pc' = [pc EXCEPT ![p] = "dedup"]
          /\ UNCHANGED <<items, checks>>
      BY <1>3, <2>2 DEF Lock
    <3>2. spent[p] \in Budgets /\ DeliveryLimit \in Nat
      BY LimitsAssumption DEF TInv, AlertsTypeOK, Budgets
    <3>3. spent[p].deliveries + 1 \in 0 .. DeliveryLimit
      BY <2>1, <3>2 DEF Budgets
    <3>4. spent' \in [Passes -> Budgets]
      BY <3>1, <3>2, <3>3 DEF TInv, AlertsTypeOK, Budgets
    <3>5. "dedup" \in Delivering
      BY DEF Delivering
    <3>6. AlertsTypeOK'
      BY <2>1, <3>1, <3>4, <3>5, SameItem DEF TInv, AlertsTypeOK, Budgets
    <3> QED BY <2>1, <3>1, <3>5, <3>6, SameItem, OnePass, SameRows
  <2>3. CASE ~Eligible(Item(p)[1], Item(p)[2])
    <3>1. NextItem(p) /\ UNCHANGED <<lock, spent>>
      BY <1>3, <2>3 DEF Lock
    <3>2. AlertsTypeOK'
      BY <2>1, <3>1, NextItemType DEF TInv, AlertsTypeOK, Items
    <3> QED BY <2>1, <3>1, <3>2, NextItemType, OnePass, SameRows
  <2> QED BY <2>2, <2>3
<1>4. CASE Dedup(p)
  <2>1. /\ pc[p] \in Delivering
        /\ UNCHANGED <<unitCursor, transmitterFirst, assignmentCursor, pairCursor, enabled, members,
                       rows, units, order, page, spent, cut, mailed, trouble>>
    BY <1>4 DEF Dedup, Delivering, cachevars
  <2>2. CASE Similar(p)
    <3>1. NextItem(p) /\ Release(p)
      BY <1>4, <2>2 DEF Dedup
    <3>2. lock' \in [Channels -> Passes \cup {Nobody}]
      BY <3>1 DEF Release, TInv, AlertsTypeOK
    <3>3. AlertsTypeOK'
      BY <2>1, <3>1, <3>2, NextItemType DEF TInv, AlertsTypeOK, Items
    <3> QED BY <2>1, <3>1, <3>3, NextItemType, OnePass, SameRows
  <2>3. CASE ~Similar(p)
    <3>1. pc' = [pc EXCEPT ![p] = "create"] /\ UNCHANGED <<lock, items, checks>>
      BY <1>4, <2>3 DEF Dedup
    <3>2. "create" \in Delivering
      BY DEF Delivering
    <3>3. AlertsTypeOK'
      BY <2>1, <3>1, <3>2, SameItem DEF TInv, AlertsTypeOK
    <3> QED BY <2>1, <3>1, <3>2, <3>3, SameItem, OnePass, SameRows
  <2> QED BY <2>2, <2>3
<1>5. CASE Revalidate(p)
  <2>1. /\ pc[p] \in Delivering /\ pc' = [pc EXCEPT ![p] = "sending"] /\ "sending" \in Delivering
        /\ UNCHANGED <<unitCursor, transmitterFirst, assignmentCursor, pairCursor, enabled, members,
                       rows, lock, units, order, checks, page, items, spent, cut, mailed, trouble>>
    BY <1>5 DEF Revalidate, Delivering, cachevars, passvars
  <2>2. AlertsTypeOK'
    BY <2>1, SameItem DEF TInv, AlertsTypeOK
  <2> QED BY <2>1, <2>2, SameItem, OnePass, SameRows
<1> QED BY <1>1, <1>2, <1>3, <1>4, <1>5

LEMMA CreateType == ASSUME TInv, Inv, NEW p \in Passes, Create(p) PROVE TInv'
<1> DEFINE k == Key(Item(p))
           slot == FreeSlot(k)
           row == [status |-> "pending", recent |-> TRUE]
<1>1. /\ pc[p] = "create" /\ pc' = [pc EXCEPT ![p] = "mail"]
      /\ rows' = [rows EXCEPT ![slot] = row]
      /\ mailed' = [mailed EXCEPT ![p] = slot]
      /\ Release(p)
      /\ UNCHANGED <<unitCursor, transmitterFirst, assignmentCursor, pairCursor, enabled, members,
                     units, order, checks, page, items, spent, cut, trouble>>
  BY DEF Create, cachevars, passvars
<1>2. pc[p] \in Delivering /\ "mail" \in Delivering
  BY <1>1 DEF Delivering
<1>3. /\ Item(p) \in Assignments \X Users \X Types
      /\ Concerns(Unit(p), Item(p))
  BY <1>2, ItemType
<1>4. Channel(p) \in Channels
  BY <1>1 DEF Inv, Held
<1>5. k \in Keys
  BY <1>3, <1>4 DEF Key, Keys, Channel
<1>6. \E n \in 1 .. Copies : rows[<<k, n>>] = NoRow
  BY DEF Create
<1>7. slot \in Slots /\ slot[1] = k
  BY <1>5, <1>6 DEF FreeSlot, Slots
<1>8. row \in Row
  BY DEF Row, Statuses
<1>9. lock' \in [Channels -> Passes \cup {Nobody}]
  BY <1>1 DEF Release, TInv, AlertsTypeOK
<1>10. /\ pc' \in [Passes -> {"idle", "alternate", "check", "recipients", "deliver",
                              "dedup", "create", "mail", "sending"}]
       /\ Underway(p)' /\ Pertinent(p)'
       /\ \A q \in Passes \ {p} :
            /\ pc'[q] = pc[q] /\ units'[q] = units[q] /\ checks'[q] = checks[q]
            /\ page'[q] = page[q] /\ items'[q] = items[q]
  BY <1>1, <1>2, SameItem
<1>11. rows' \in [Slots -> Row \cup {NoRow}] /\ mailed' \in [Passes -> Slots \cup {Nobody}]
  BY <1>1, <1>7, <1>8 DEF TInv, AlertsTypeOK
<1>12. AlertsTypeOK'
  BY <1>1, <1>9, <1>10, <1>11 DEF TInv, AlertsTypeOK
<1>13. Warranted'
  <2> SUFFICES ASSUME NEW i \in Slots, rows'[i] # NoRow
               PROVE  \E m \in Groups :
                        LET item == <<m[1], m[2], i[1][3]>>
                        IN i[1] = Key(item) /\ Concerns(UnitOf[m[1]], item)
    BY DEF Warranted
  <2>1. CASE i = slot
    <3> DEFINE m == <<Item(p)[1], Item(p)[2]>>
    <3>1. m \in Groups /\ UnitOf[m[1]] = Unit(p)
      BY <1>3 DEF Concerns
    <3>2. i[1] = k /\ i[1][3] = Item(p)[3]
      BY <1>7, <2>1 DEF Key
    <3>3. <<m[1], m[2], i[1][3]>> = Item(p)
      BY <1>3, <3>2
    <3> QED BY <1>3, <3>1, <3>2, <3>3
  <2>2. CASE i # slot
    <3>1. rows[i] # NoRow
      BY <1>1, <2>2 DEF TInv, AlertsTypeOK
    <3> QED BY <3>1 DEF TInv, Warranted
  <2> QED BY <2>1, <2>2
<1> QED BY <1>10, <1>12, <1>13, OnePass

\* Steps that make no alert.
LEMMA NoNewRows ==
  ASSUME TInv, \A i \in Slots : rows'[i] # NoRow => rows[i] # NoRow PROVE Warranted'
BY DEF TInv, Warranted

\* Steps beside the passes.
LEMMA PassesStay ==
  ASSUME TInv, AlertsTypeOK', Warranted', UNCHANGED <<pc, units, checks, page, items>>
  PROVE  TInv'
<1> SUFFICES ASSUME NEW p \in Passes PROVE Underway(p)' /\ Pertinent(p)'
  BY DEF TInv
<1>1. Underway(p) /\ Pertinent(p)
  BY DEF TInv
<1> QED BY <1>1 DEF Underway, Pertinent, Unit

LEMMA MailedType ==
  ASSUME TInv, Inv, NEW p \in Passes, pc[p] \in {"mail", "sending"}, NEW status,
         mailed[p] \in Slots => status \in Statuses,
         Mailed(p, status), NextItem(p), trouble' \in 0 .. MaxTrouble,
         UNCHANGED <<cachevars, enabled, members, lock, units, order, page, spent, cut>>
  PROVE  TInv'
<1>1. pc[p] \in Delivering
  BY DEF Delivering
<1>2. \A i \in Slots : i # mailed[p] => rows'[i] = rows[i]
  BY DEF Mailed, TInv, AlertsTypeOK
<1>3. mailed[p] \in Slots =>
        /\ rows[mailed[p]] \in Row
        /\ rows[mailed[p]] # NoRow
        /\ rows'[mailed[p]] = IF rows[mailed[p]].recent
                                THEN [rows[mailed[p]] EXCEPT !.status = status] ELSE NoRow
  BY DEF Mailed, TInv, AlertsTypeOK, Inv, Mailing
<1>4. \A i \in Slots : rows'[i] \in Row \cup {NoRow}
  <2> SUFFICES ASSUME NEW i \in Slots PROVE rows'[i] \in Row \cup {NoRow}
    OBVIOUS
  <2>1. CASE i = mailed[p]
    <3>1. status \in Statuses /\ rows[i] \in Row
      BY <1>3, <2>1
    <3>2. [rows[i] EXCEPT !.status = status] \in Row
      BY <3>1 DEF Row
    <3> QED BY <1>3, <2>1, <3>2
  <2>2. CASE i # mailed[p]
    BY <1>2, <2>2 DEF TInv, AlertsTypeOK
  <2> QED BY <2>1, <2>2
<1>5. rows' = [i \in Slots |-> rows'[i]]
  BY DEF Mailed, TInv, AlertsTypeOK
<1>6. rows' \in [Slots -> Row \cup {NoRow}]
  BY <1>4, <1>5
<1>7. mailed' \in [Passes -> Slots \cup {Nobody}]
  BY DEF Mailed, TInv, AlertsTypeOK
<1>8. AlertsTypeOK'
  BY <1>1, <1>6, <1>7, NextItemType DEF cachevars, TInv, AlertsTypeOK, Items
<1>9. Warranted'
  BY <1>2, <1>3, NoNewRows
<1> QED BY <1>1, <1>8, <1>9, NextItemType, OnePass

LEMMA UnitFailsType == ASSUME TInv, NEW p \in Passes, UnitFails(p) PROVE TInv'
<1>1. /\ pc[p] # "idle"
      /\ checks' = [checks EXCEPT ![p] = <<>>]
      /\ page' = [page EXCEPT ![p] = <<>>]
      /\ items' = [items EXCEPT ![p] = <<>>]
      /\ pc' = [pc EXCEPT ![p] = "check"]
      /\ UNCHANGED <<unitCursor, transmitterFirst, assignmentCursor, pairCursor, enabled, members,
                     rows, units, order, spent, cut, mailed>>
  BY DEF UnitFails, cachevars
<1>2. lock' \in [Channels -> Passes \cup {Nobody}]
  BY DEF UnitFails, Release, TInv, AlertsTypeOK
<1>3. trouble' \in 0 .. MaxTrouble
  BY TroubleType DEF UnitFails
<1>4. /\ <<>> \in Seq(Scopes) /\ <<>> \in Seq(Assignments)
      /\ <<>> \in Seq(Assignments \X Users \X Types)
  OBVIOUS
<1>5. AlertsTypeOK'
  BY <1>1, <1>2, <1>3, <1>4 DEF TInv, AlertsTypeOK
<1>6. pc'[p] = "check" /\ page'[p] = <<>> /\ items'[p] = <<>> /\ units'[p] # <<>>
  BY <1>1 DEF TInv, AlertsTypeOK, Underway
<1>7. Underway(p)' /\ Pertinent(p)'
  BY <1>6 DEF Underway, Pertinent, Delivering
<1> QED BY <1>1, <1>5, <1>7, OnePass, SameRows DEF TInv, AlertsTypeOK

LEMMA DiesType == ASSUME TInv, NEW p \in Passes, Dies(p) PROVE TInv'
<1>1. /\ page' = [page EXCEPT ![p] = <<>>]
      /\ items' = [items EXCEPT ![p] = <<>>]
      /\ mailed' = [mailed EXCEPT ![p] = Nobody]
      /\ rows' = [i \in Slots |->
           IF i = mailed[p] /\ ~rows[i].recent THEN NoRow ELSE rows[i]]
      /\ UNCHANGED <<unitCursor, transmitterFirst, assignmentCursor, pairCursor, enabled, members>>
  BY DEF Dies, cachevars
<1>2. lock' \in [Channels -> Passes \cup {Nobody}]
  BY DEF Dies, Release, TInv, AlertsTypeOK
<1>3. trouble' \in 0 .. MaxTrouble
  BY TroubleType DEF Dies
<1>4. /\ pc' = [pc EXCEPT ![p] = "idle"]
      /\ units' = [units EXCEPT ![p] = <<>>]
      /\ order' = [order EXCEPT ![p] = <<>>]
      /\ checks' = [checks EXCEPT ![p] = <<>>]
      /\ spent' = [spent EXCEPT ![p] = Unspent]
      /\ cut' = [cut EXCEPT ![p] = FALSE]
  BY DEF Dies, Returns
<1>5. /\ <<>> \in Seq(Scopes) /\ <<>> \in Seq(Assignments) /\ <<>> \in Seq(Units)
      /\ <<>> \in Seq(Assignments \X Users \X Types)
  OBVIOUS
<1>6. Unspent \in Budgets
  BY LimitsAssumption DEF Unspent, Budgets
<1>7. rows' \in [Slots -> Row \cup {NoRow}]
  BY <1>1 DEF TInv, AlertsTypeOK
<1>8. AlertsTypeOK'
  BY <1>1, <1>2, <1>3, <1>4, <1>5, <1>6, <1>7 DEF TInv, AlertsTypeOK, Budgets
<1>9. pc'[p] = "idle" /\ page'[p] = <<>> /\ items'[p] = <<>>
  BY <1>1, <1>4 DEF TInv, AlertsTypeOK
<1>10. Underway(p)' /\ Pertinent(p)'
  BY <1>9 DEF Underway, Pertinent, Delivering
<1>11. Warranted'
  BY <1>1, NoNewRows
<1> QED BY <1>1, <1>4, <1>8, <1>10, <1>11, OnePass DEF TInv, AlertsTypeOK

LEMMA SettleType ==
  ASSUME TInv, NEW i \in Slots, rows[i] # NoRow, NEW status \in Statuses, Settle(i, status),
         trouble' \in 0 .. MaxTrouble
  PROVE  TInv'
<1>1. rows[i] \in Row /\ rows' = [rows EXCEPT ![i] = [rows[i] EXCEPT !.status = status]]
  BY DEF Settle, TInv, AlertsTypeOK
<1>2. rows' \in [Slots -> Row \cup {NoRow}]
  BY <1>1 DEF TInv, AlertsTypeOK, Row
<1>3. AlertsTypeOK'
  BY <1>2 DEF Settle, cachevars, passvars, TInv, AlertsTypeOK
<1>4. Warranted'
  <2>1. \A j \in Slots : j # i => rows'[j] = rows[j]
    BY <1>1 DEF TInv, AlertsTypeOK
  <2> QED BY <2>1, NoNewRows
<1> QED BY <1>3, <1>4, PassesStay DEF Settle, passvars

LEMMA AgeType == ASSUME TInv, NEW i \in Slots, Age(i) PROVE TInv'
<1>1. rows[i] \in Row /\ rows[i] # NoRow
  BY DEF Age, TInv, AlertsTypeOK
<1>2. PICK row \in Row \cup {NoRow} : rows' = [rows EXCEPT ![i] = row]
  <2>1. [rows[i] EXCEPT !.recent = FALSE] \in Row
    BY <1>1 DEF Row
  <2>2. rows' = [rows EXCEPT ![i] =
                   IF \E p \in Passes : mailed[p] = i
                     THEN [rows[i] EXCEPT !.recent = FALSE] ELSE NoRow]
    BY DEF Age, TInv, AlertsTypeOK
  <2> QED BY <2>1, <2>2
<1>3. rows' \in [Slots -> Row \cup {NoRow}]
  BY <1>2 DEF TInv, AlertsTypeOK
<1>4. AlertsTypeOK'
  BY <1>3 DEF Age, cachevars, passvars, TInv, AlertsTypeOK
<1>5. Warranted'
  <2>1. \A j \in Slots : j # i => rows'[j] = rows[j]
    BY <1>2 DEF TInv, AlertsTypeOK
  <2> QED BY <1>1, <2>1, NoNewRows
<1> QED BY <1>4, <1>5, PassesStay DEF Age, passvars

LEMMA ReassignType == ASSUME TInv, Reassign PROVE TInv'
<1>1. enabled' \subseteq Assignments /\ members' \subseteq Groups
  BY DEF Reassign, TInv, AlertsTypeOK
<1>2. trouble' \in 0 .. MaxTrouble
  BY TroubleType DEF Reassign
<1>3. AlertsTypeOK'
  BY <1>1, <1>2 DEF Reassign, cachevars, passvars, TInv, AlertsTypeOK
<1> QED BY <1>3, PassesStay, SameRows DEF Reassign, passvars

LEMMA NextTInv == ASSUME Inv, TInv, [Next]_avars PROVE TInv'
<1>1. CASE Reassign
  BY <1>1, ReassignType
<1>2. ASSUME NEW i \in Slots, Acknowledge(i) PROVE TInv'
  BY <1>2, SettleType, TroubleType DEF Acknowledge, Statuses
<1>3. ASSUME NEW i \in Slots, Resolve(i) PROVE TInv'
  BY <1>3, SettleType, TroubleType DEF Resolve, Statuses
<1>4. ASSUME NEW i \in Slots, Age(i) PROVE TInv'
  BY <1>4, AgeType
<1>5. ASSUME NEW p \in Passes, MailEnds(p) PROVE TInv'
  <2>1. mailed[p] \in Slots => rows[mailed[p]].status \in Statuses
    BY DEF Inv, Mailing, TInv, AlertsTypeOK, Row
  <2>2. trouble' \in 0 .. MaxTrouble
    BY <1>5 DEF MailEnds, TInv, AlertsTypeOK
  <2> QED BY <1>5, <2>1, <2>2, MailedType DEF MailEnds
<1>6. ASSUME NEW p \in Passes, MailFails(p) PROVE TInv'
  <2>1. "failed" \in Statuses
    BY DEF Statuses
  <2> QED BY <1>6, <2>1, MailedType, TroubleType DEF MailFails
<1>7. CASE UNCHANGED avars
  <2>1. AlertsTypeOK'
    BY <1>7 DEF avars, cachevars, passvars, TInv, AlertsTypeOK
  <2> QED BY <1>7, <2>1, PassesStay, SameRows DEF avars, passvars
<1> QED
  BY <1>1, <1>2, <1>3, <1>4, <1>5, <1>6, <1>7, StartScanType, AlternateType, StartCheckType,
     UnitDoneType, NotCalledForType, PageAssignmentsType, PageRecipientsType, DeliveryStepsType,
     CreateType, UnitFailsType, DiesType DEF Next, Pass

(* The types of the alerts, which include AlertFanoutBudget: whatever a pass    *)
(* pages and delivers, fails or dies at, it never spends more than its budget.   *)
THEOREM AlertTypes == Spec => []AlertsTypeOK
<1>1. TInv => AlertsTypeOK
  BY DEF TInv
<1> QED BY <1>1, InitInv, NextInv, InitTInv, NextTInv, PTL DEF Spec

(* AlertFanoutService and AlertDeliveryService: from the page of assignments to   *)
(* the insertion, through every rotation, cut and error, an alert stays one for   *)
(* a member of the group of an assignment of the unit, about a condition that     *)
(* lasts on this unit and that this assignment alerts on.                         *)
THEOREM AlertsAreWarranted == Spec => []Warranted
<1>1. TInv => Warranted
  BY DEF TInv
<1> QED BY <1>1, InitInv, NextInv, InitTInv, NextTInv, PTL DEF Spec
=============================================================================
