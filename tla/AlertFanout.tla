----------------------------- MODULE AlertFanout -----------------------------
(***************************************************************************)
(* The alerts about the wireless units of one manufacturer.  After a poll, *)
(* a scan takes a page of units behind a shared cursor and runs two checks *)
(* on each: offline and transmitter.  A check takes a page of the unit's   *)
(* assignments and a page of their recipients, each behind a cursor of its *)
(* own, and delivers one alert for each condition: it locks the channel,   *)
(* looks for a recent alert, inserts one, and mails it after the commit.   *)
(* All checks of a scan share one budget.  The poll itself runs single     *)
(* checks with a budget of their own.  Users settle alerts meanwhile.      *)
(***************************************************************************)
EXTENDS Integers, SequencesExt

CONSTANTS
  Scans,            \* workers that scan after a poll
  Checks,           \* workers that check single units during a poll
  Units,            \* primary keys, ...
  Assignments,
  Users,            \* ... positive numbers all of them
  Channels,
  UnitOf,           \* the unit of an assignment
  ChannelOf,        \* the channel of a unit, if it has one
  Groups,           \* assignments and the users of their groups
  Wants,            \* the conditions an assignment alerts on
  Readings,         \* the conditions that last on a unit
  Measured,         \* units that report a battery level
  UnitLimit, AssignmentLimit, RecipientLimit, DeliveryLimit,
  Copies,           \* room for the alerts about one condition that still matter
  MaxTrouble,       \* bounds errors, settled alerts and reassignments
  AlertFaults,      \* a subset of {"cache", "error", "crash"}
  Nobody, NoRow

Passes == Scans \cup Checks

Scopes == {"offline", "transmitter"}

\* The conditions of a check in the order of its candidates.
TypesOf ==
  [offline |-> <<"hardware_offline">>,
   transmitter |-> <<"battery", "signal_loss", "audio_low">>]

Types == UNION {Range(TypesOf[s]) : s \in Scopes}

ASSUME KeysAssumption ==
  /\ Units \subseteq Nat \ {0}
  /\ Assignments \subseteq Nat \ {0}
  /\ Users \subseteq Nat \ {0}
ASSUME TablesAssumption ==
  IsFiniteSet(Units) /\ IsFiniteSet(Assignments) /\ IsFiniteSet(Users)
ASSUME InventoryAssumption ==
  /\ UnitOf \in [Assignments -> Units]
  /\ ChannelOf \in [Units -> Channels \cup {Nobody}]
  /\ Groups \subseteq Assignments \X Users
  /\ Wants \in [Assignments -> SUBSET Types]
  /\ Readings \in [Units -> SUBSET Types]
  /\ Measured \subseteq Units
ASSUME LimitsAssumption ==
  /\ {UnitLimit, AssignmentLimit, RecipientLimit, DeliveryLimit} \subseteq Nat \ {0}
  /\ Copies \in Nat \ {0}
  /\ MaxTrouble \in Nat
ASSUME AlertFaultsAssumption == AlertFaults \subseteq {"cache", "error", "crash"}
ASSUME ScansAssumption == Scans \cap Checks = {}

VARIABLES
  unitCursor,        \* cache: the last unit scanned
  transmitterFirst,  \* cache: the order of the next scan's checks
  assignmentCursor,  \* cache: the last assignment of each unit and scope
  pairCursor,        \* cache: the last assignment and recipient
  enabled,           \* assignments that are active
  members,           \* assignments and their recipients, if all goes on
  rows,              \* the alerts
  lock,              \* who holds the row lock of each channel
  pc, units, order, checks, page, items, spent, cut,  \* the state of each pass
  mailed,            \* the alert it mails
  trouble

cachevars == <<unitCursor, transmitterFirst, assignmentCursor, pairCursor>>
passvars == <<units, order, checks, page, items, spent, cut>>
avars == <<cachevars, enabled, members, rows, lock, pc, passvars, mailed, trouble>>

Statuses == {"pending", "acknowledged", "resolved", "failed"}

\* An alert is about a channel and a condition, and for a user.
Keys == Channels \X Users \X Types

Slots == Keys \X (1 .. Copies)

Row == [status : Statuses, recent : BOOLEAN]

ASSUME NobodyAssumption == Nobody \notin Passes \cup Channels \cup Slots
ASSUME NoRowAssumption == NoRow \notin Row

Unspent == [assignments |-> 0, recipients |-> 0, deliveries |-> 0]

AlertsTypeOK ==
  /\ unitCursor \in Units \cup {0}
  /\ transmitterFirst \in BOOLEAN
  /\ assignmentCursor \in [Scopes \X Units -> Assignments \cup {0}]
  /\ pairCursor \in [Scopes \X Units -> (Assignments \cup {0}) \X (Users \cup {0})]
  /\ enabled \subseteq Assignments
  /\ members \subseteq Groups
  /\ rows \in [Slots -> Row \cup {NoRow}]
  /\ lock \in [Channels -> Passes \cup {Nobody}]
  /\ pc \in [Passes -> {"idle", "alternate", "check", "recipients", "deliver",
                        "dedup", "create", "mail", "sending"}]
  /\ units \in [Passes -> Seq(Units)]
  /\ order \in [Passes -> Seq(Scopes)]
  /\ checks \in [Passes -> Seq(Scopes)]
  /\ page \in [Passes -> Seq(Assignments)]
  /\ items \in [Passes -> Seq(Assignments \X Users \X Types)]
  /\ spent \in [Passes -> [assignments : 0 .. AssignmentLimit,
                           recipients : 0 .. RecipientLimit,
                           deliveries : 0 .. DeliveryLimit]]
  /\ cut \in [Passes -> BOOLEAN]
  /\ mailed \in [Passes -> Slots \cup {Nobody}]
  /\ trouble \in 0 .. MaxTrouble

Init ==
  /\ unitCursor = 0
  /\ transmitterFirst = FALSE
  /\ assignmentCursor = [k \in Scopes \X Units |-> 0]
  /\ pairCursor = [k \in Scopes \X Units |-> <<0, 0>>]
  /\ enabled = Assignments
  /\ members = Groups
  /\ rows = [i \in Slots |-> NoRow]
  /\ lock = [c \in Channels |-> Nobody]
  /\ pc = [p \in Passes |-> "idle"]
  /\ units = [p \in Passes |-> <<>>]
  /\ order = [p \in Passes |-> <<>>]
  /\ checks = [p \in Passes |-> <<>>]
  /\ page = [p \in Passes |-> <<>>]
  /\ items = [p \in Passes |-> <<>>]
  /\ spent = [p \in Passes |-> Unspent]
  /\ cut = [p \in Passes |-> FALSE]
  /\ mailed = [p \in Passes |-> Nobody]
  /\ trouble = 0

Troubled ==
  /\ trouble < MaxTrouble
  /\ trouble' = trouble + 1

\* A read or write of a cursor; an outage of the cache is logged and ignored.
Cache(up) ==
  \/ up /\ UNCHANGED trouble
  \/ ~up /\ "cache" \in AlertFaults /\ Troubled

Eligible(a, w) == a \in enabled /\ <<a, w>> \in members

Unit(p) == Head(units[p])
Scope(p) == Head(checks[p])
Item(p) == Head(items[p])
Channel(p) == ChannelOf[UnitOf[Item(p)[1]]]

-----------------------------------------------------------------------------
(* What changes around the passes. *)

Reassign ==
  /\ Troubled
  /\ \/ \E a \in Assignments :
          /\ enabled' = IF a \in enabled THEN enabled \ {a} ELSE enabled \cup {a}
          /\ UNCHANGED members
     \/ \E m \in Groups :
          /\ members' = IF m \in members THEN members \ {m} ELSE members \cup {m}
          /\ UNCHANGED enabled
  /\ UNCHANGED <<cachevars, rows, lock, pc, passvars, mailed>>

Settle(i, status) ==
  /\ rows' = [rows EXCEPT ![i].status = status]
  /\ UNCHANGED <<cachevars, enabled, members, lock, pc, passvars, mailed>>

\* The view locks the row, reads its status and writes in one transaction.
Acknowledge(i) ==
  /\ rows[i] # NoRow
  /\ Troubled
  /\ rows[i].status = "pending"
  /\ Settle(i, "acknowledged")

Resolve(i) ==
  /\ rows[i] # NoRow
  /\ Troubled
  /\ rows[i].status \in {"pending", "acknowledged"}
  /\ Settle(i, "resolved")

\* The interval is over.  No step looks at an older alert except the mail about it.
Age(i) ==
  /\ rows[i] # NoRow
  /\ rows[i].recent
  /\ rows' = [rows EXCEPT ![i] =
       IF \E p \in Passes : mailed[p] = i THEN [@ EXCEPT !.recent = FALSE] ELSE NoRow]
  /\ UNCHANGED <<cachevars, enabled, members, lock, pc, passvars, mailed, trouble>>

-----------------------------------------------------------------------------
(* Pages behind a cursor: the keys after it, then those up to it. *)

KeyOrder == {p \in Nat \X Nat : p[1] < p[2]}

PairOrder ==
  {p \in (Nat \X Nat) \X (Nat \X Nat) :
     p[1][1] < p[2][1] \/ (p[1][1] = p[2][1] /\ p[1][2] < p[2][2])}

\* What comes after the cursor comes first.
Behind(from, sooner, S) ==
  {p \in S \X S :
     LET After(x) == <<from, x>> \in sooner
     IN IF After(p[1]) = After(p[2]) THEN p \in sooner ELSE After(p[1])}

\* The rows of a query in their order.
InOrder(S, sooner) ==
  [k \in 1 .. Cardinality(S) |->
     CHOOSE x \in S : Cardinality({y \in S : <<y, x>> \in sooner}) = k - 1]

Turn(S, from, sooner, n) ==
  LET all == InOrder(S, Behind(from, sooner, S))
  IN SubSeq(all, 1, IF n < Len(all) THEN n ELSE Len(all))

-----------------------------------------------------------------------------
(* The scan. *)

Candidates == {UnitOf[a] : a \in {b \in Assignments : \E w \in Users : Eligible(b, w)}}

\* Read the unit cursor, the units behind it and the scope cursor.
StartScan(p) ==
  /\ p \in Scans
  /\ pc[p] = "idle"
  /\ Candidates # {}
  /\ \E up \in BOOLEAN :
       /\ Cache(up)
       /\ units' = [units EXCEPT ![p] =
            Turn(Candidates, IF up THEN unitCursor ELSE 0, KeyOrder, UnitLimit)]
       /\ order' = [order EXCEPT ![p] =
            IF up /\ transmitterFirst THEN <<"transmitter", "offline">>
                                      ELSE <<"offline", "transmitter">>]
  /\ pc' = [pc EXCEPT ![p] = "alternate"]
  /\ UNCHANGED <<cachevars, enabled, members, rows, lock, checks, page, items, spent, cut, mailed>>

\* Let the other check go first in the next scan.
Alternate(p) ==
  /\ pc[p] = "alternate"
  /\ \E up \in BOOLEAN :
       /\ Cache(up)
       /\ transmitterFirst' =
            IF up THEN Head(order[p]) = "offline" ELSE transmitterFirst
  /\ checks' = [checks EXCEPT ![p] = order[p]]
  /\ pc' = [pc EXCEPT ![p] = "check"]
  /\ UNCHANGED <<unitCursor, assignmentCursor, pairCursor, enabled, members, rows, lock,
                 units, order, page, items, spent, cut, mailed>>

\* A check of a unit that gives no reason for it returns at once.
CalledFor(u, s) ==
  \/ \E t \in Range(TypesOf[s]) : t \in Readings[u]
  \/ s = "transmitter" /\ u \in Measured

\* A poll checks one unit with a budget of its own.
StartCheck(p, u, s) ==
  /\ p \in Checks
  /\ pc[p] = "idle"
  /\ CalledFor(u, s)
  /\ units' = [units EXCEPT ![p] = <<u>>]
  /\ order' = [order EXCEPT ![p] = <<s>>]
  /\ checks' = [checks EXCEPT ![p] = <<s>>]
  /\ pc' = [pc EXCEPT ![p] = "check"]
  /\ UNCHANGED <<cachevars, enabled, members, rows, lock, page, items, spent, cut, mailed, trouble>>

Exhausted(p) ==
  \/ spent[p].assignments = AssignmentLimit
  \/ spent[p].recipients = RecipientLimit
  \/ spent[p].deliveries = DeliveryLimit

\* A pass that is over has no state.
Returns(p) ==
  /\ pc' = [pc EXCEPT ![p] = "idle"]
  /\ units' = [units EXCEPT ![p] = <<>>]
  /\ order' = [order EXCEPT ![p] = <<>>]
  /\ checks' = [checks EXCEPT ![p] = <<>>]
  /\ spent' = [spent EXCEPT ![p] = Unspent]
  /\ cut' = [cut EXCEPT ![p] = FALSE]

NextUnit(p) ==
  /\ units' = [units EXCEPT ![p] = Tail(@)]
  /\ checks' = [checks EXCEPT ![p] = order[p]]
  /\ UNCHANGED <<pc, order, spent, cut>>

\* The cursor moves after every unit; a budget that was cut or used up ends the scan.
UnitDone(p) ==
  /\ pc[p] = "check"
  /\ checks[p] = <<>>
  /\ \E up \in BOOLEAN :
       /\ Cache(up)
       /\ unitCursor' = IF up /\ p \in Scans THEN Unit(p) ELSE unitCursor
  /\ IF p \in Checks \/ Len(units[p]) = 1 \/ cut[p] \/ Exhausted(p)
       THEN Returns(p)
       ELSE NextUnit(p)
  /\ UNCHANGED <<transmitterFirst, assignmentCursor, pairCursor, enabled, members, rows, lock,
                 page, items, mailed>>

-----------------------------------------------------------------------------
(* A check: the assignments, then the recipients. *)

NotCalledFor(p) ==
  /\ pc[p] = "check"
  /\ checks[p] # <<>>
  /\ ~CalledFor(Unit(p), Scope(p))
  /\ checks' = [checks EXCEPT ![p] = Tail(@)]
  /\ UNCHANGED <<cachevars, enabled, members, rows, lock, pc, units, order, page, items, spent,
                 cut, mailed, trouble>>

\* The offline check only asks for assignments that want its alerts.
Assigned(u, s) ==
  {a \in enabled : UnitOf[a] = u /\ (s = "offline" => "hardware_offline" \in Wants[a])}

PageAssignments(p) ==
  LET s == Scope(p)
      k == <<s, Unit(p)>>
      limit == AssignmentLimit - spent[p].assignments
      found == Assigned(Unit(p), s)
  IN
  /\ pc[p] = "check"
  /\ checks[p] # <<>>
  /\ CalledFor(Unit(p), s)
  /\ IF limit = 0
       THEN /\ page' = [page EXCEPT ![p] = <<>>]
            /\ cut' = [cut EXCEPT ![p] = TRUE]
            /\ UNCHANGED <<assignmentCursor, spent, trouble>>
       ELSE \E up \in BOOLEAN :
              LET turn == Turn(found, IF up THEN assignmentCursor[k] ELSE 0, KeyOrder, limit)
              IN /\ Cache(up)
                 /\ page' = [page EXCEPT ![p] = turn]
                 /\ assignmentCursor' = IF up /\ turn # <<>>
                      THEN [assignmentCursor EXCEPT ![k] = Last(turn)] ELSE assignmentCursor
                 /\ spent' = [spent EXCEPT ![p].assignments = @ + Len(turn)]
                 /\ cut' = [cut EXCEPT ![p] = @ \/ limit < Cardinality(found)]
  /\ pc' = [pc EXCEPT ![p] = "recipients"]
  /\ UNCHANGED <<unitCursor, transmitterFirst, pairCursor, enabled, members, rows, lock, units,
                 order, checks, items, mailed>>

ItemOrder ==
  {p \in (Nat \X Nat \X Nat) \X (Nat \X Nat \X Nat) :
     \/ p[1][1] < p[2][1]
     \/ /\ p[1][1] = p[2][1]
        /\ <<<<p[1][2], p[1][3]>>, <<p[2][2], p[2][3]>>>> \in PairOrder}

\* What to deliver: by assignment, recipient and condition.
Candidate(u, s, assigned, pairs) ==
  LET wanted ==
        {c \in (DOMAIN assigned) \X (DOMAIN pairs) \X (DOMAIN TypesOf[s]) :
           /\ pairs[c[2]][1] = assigned[c[1]]
           /\ TypesOf[s][c[3]] \in Readings[u] \cap Wants[assigned[c[1]]]}
      all == InOrder(wanted, ItemOrder)
  IN [k \in DOMAIN all |->
       <<assigned[all[k][1]], pairs[all[k][2]][2], TypesOf[s][all[k][3]]>>]

\* Deliver the candidates that are left, or go on to the next check.
Deliver(p, left) ==
  /\ items' = [items EXCEPT ![p] = left]
  /\ pc' = [pc EXCEPT ![p] = IF left = <<>> THEN "check" ELSE "deliver"]
  /\ checks' = [checks EXCEPT ![p] = IF left = <<>> THEN Tail(@) ELSE @]

PageRecipients(p) ==
  LET s == Scope(p)
      k == <<s, Unit(p)>>
      limit == RecipientLimit - spent[p].recipients
      found == {m \in members : m[1] \in Range(page[p])}
  IN
  /\ pc[p] = "recipients"
  /\ IF limit = 0 \/ page[p] = <<>>
       THEN /\ Deliver(p, <<>>)
            /\ cut' = [cut EXCEPT ![p] = @ \/ limit = 0]
            /\ UNCHANGED <<pairCursor, spent, trouble>>
       ELSE \E up \in BOOLEAN :
              LET turn == Turn(found, IF up THEN pairCursor[k] ELSE <<0, 0>>, PairOrder, limit)
              IN /\ Cache(up)
                 /\ Deliver(p, Candidate(Unit(p), s, page[p], turn))
                 /\ pairCursor' = IF up /\ turn # <<>>
                      THEN [pairCursor EXCEPT ![k] = Last(turn)] ELSE pairCursor
                 /\ spent' = [spent EXCEPT ![p].recipients = @ + Len(turn)]
                 /\ cut' = [cut EXCEPT ![p] = @ \/ limit < Cardinality(found)]
  /\ page' = [page EXCEPT ![p] = <<>>]
  /\ UNCHANGED <<unitCursor, transmitterFirst, assignmentCursor, enabled, members, rows, lock,
                 units, order, mailed>>

-----------------------------------------------------------------------------
(* A delivery. *)

NextItem(p) == Deliver(p, Tail(items[p]))

OverBudget(p) ==
  /\ pc[p] = "deliver"
  /\ spent[p].deliveries = DeliveryLimit
  /\ cut' = [cut EXCEPT ![p] = TRUE]
  /\ NextItem(p)
  /\ UNCHANGED <<cachevars, enabled, members, rows, lock, units, order, page, spent, mailed,
                 trouble>>

\* A unit without a channel has nowhere to put an alert.
Unassigned(p) ==
  /\ pc[p] = "deliver"
  /\ spent[p].deliveries < DeliveryLimit
  /\ Channel(p) \notin Channels
  /\ NextItem(p)
  /\ UNCHANGED <<cachevars, enabled, members, rows, lock, units, order, page, spent, cut, mailed,
                 trouble>>

\* A delivery that does not lock the channel.
BugLockNot(p) ==
  /\ pc[p] = "deliver"
  /\ spent[p].deliveries < DeliveryLimit
  /\ Channel(p) \in Channels
  /\ IF Eligible(Item(p)[1], Item(p)[2])
       THEN /\ spent' = [spent EXCEPT ![p].deliveries = @ + 1]
            /\ pc' = [pc EXCEPT ![p] = "dedup"]
            /\ UNCHANGED <<items, checks>>
       ELSE NextItem(p) /\ UNCHANGED spent
  /\ UNCHANGED <<cachevars, enabled, members, rows, lock, units, order, page, cut, mailed, trouble>>

\* Lock the channel and look at the recipient as the database has him now; he takes
\* one delivery of the budget.
Lock(p) ==
  /\ pc[p] = "deliver"
  /\ spent[p].deliveries < DeliveryLimit
  /\ Channel(p) \in Channels
  /\ lock[Channel(p)] = Nobody
  /\ IF Eligible(Item(p)[1], Item(p)[2])
       THEN /\ lock' = [lock EXCEPT ![Channel(p)] = p]
            /\ spent' = [spent EXCEPT ![p].deliveries = @ + 1]
            /\ pc' = [pc EXCEPT ![p] = "dedup"]
            /\ UNCHANGED <<items, checks>>
       ELSE NextItem(p) /\ UNCHANGED <<lock, spent>>
  /\ UNCHANGED <<cachevars, enabled, members, rows, units, order, page, cut, mailed, trouble>>

Release(p) == lock' = [c \in Channels |-> IF lock[c] = p THEN Nobody ELSE lock[c]]

Key(item) == <<ChannelOf[UnitOf[item[1]]], item[2], item[3]>>

Pending(i) == rows[i] # NoRow /\ rows[i].status = "pending" /\ rows[i].recent

Similar(p) == \E n \in 1 .. Copies : Pending(<<Key(Item(p)), n>>)

Dedup(p) ==
  /\ pc[p] = "dedup"
  /\ IF Similar(p)
       THEN NextItem(p) /\ Release(p)
       ELSE pc' = [pc EXCEPT ![p] = "create"] /\ UNCHANGED <<lock, items, checks>>
  /\ UNCHANGED <<cachevars, enabled, members, rows, units, order, page, spent, cut, mailed,
                 trouble>>

FreeSlot(k) == <<k, CHOOSE n \in 1 .. Copies : rows[<<k, n>>] = NoRow>>

\* Insert and commit; Copies leaves room for every alert.
Create(p) ==
  /\ pc[p] = "create"
  /\ \E n \in 1 .. Copies : rows[<<Key(Item(p)), n>>] = NoRow
  /\ rows' = [rows EXCEPT ![FreeSlot(Key(Item(p)))] = [status |-> "pending", recent |-> TRUE]]
  /\ mailed' = [mailed EXCEPT ![p] = FreeSlot(Key(Item(p)))]
  /\ Release(p)
  /\ pc' = [pc EXCEPT ![p] = "mail"]
  /\ UNCHANGED <<cachevars, enabled, members, passvars, trouble>>

\* The recipient once more, and whether he wants mail at this hour.
Revalidate(p) ==
  /\ pc[p] = "mail"
  /\ Eligible(Item(p)[1], Item(p)[2])
  /\ pc' = [pc EXCEPT ![p] = "sending"]
  /\ UNCHANGED <<cachevars, enabled, members, rows, lock, passvars, mailed, trouble>>

\* The pass is done with its alert, whose last status is the given one.
Mailed(p, status) ==
  /\ rows' = [rows EXCEPT ![mailed[p]] =
       IF @.recent THEN [@ EXCEPT !.status = status] ELSE NoRow]
  /\ mailed' = [mailed EXCEPT ![p] = Nobody]

\* A delivery that saves the alert as it remembers it.
BugMailEnds(p) ==
  /\ pc[p] \in {"mail", "sending"}
  /\ Mailed(p, "pending")
  /\ NextItem(p)
  /\ UNCHANGED <<cachevars, enabled, members, lock, units, order, page, spent, cut, trouble>>

\* Sent, or not wanted; the status says nothing about it.
MailEnds(p) ==
  /\ pc[p] \in {"mail", "sending"}
  /\ Mailed(p, rows[mailed[p]].status)
  /\ NextItem(p)
  /\ UNCHANGED <<cachevars, enabled, members, lock, units, order, page, spent, cut, trouble>>

\* The status is written whatever it is by now.
MailFails(p) ==
  /\ pc[p] \in {"mail", "sending"}
  /\ "error" \in AlertFaults
  /\ Troubled
  /\ Mailed(p, "failed")
  /\ NextItem(p)
  /\ UNCHANGED <<cachevars, enabled, members, lock, units, order, page, spent, cut>>

-----------------------------------------------------------------------------
(* Failures. *)

\* An error rolls the transaction back and ends the unit; the scan counts it and
\* goes on, a single check is given up by the poll.
UnitFails(p) ==
  /\ pc[p] \in {"check", "recipients", "deliver", "dedup", "create"}
  /\ checks[p] # <<>>
  /\ "error" \in AlertFaults
  /\ Troubled
  /\ Release(p)
  /\ checks' = [checks EXCEPT ![p] = <<>>]
  /\ page' = [page EXCEPT ![p] = <<>>]
  /\ items' = [items EXCEPT ![p] = <<>>]
  /\ pc' = [pc EXCEPT ![p] = "check"]
  /\ UNCHANGED <<cachevars, enabled, members, rows, units, order, spent, cut, mailed>>

\* The worker dies; the database drops its locks.
Dies(p) ==
  /\ pc[p] # "idle"
  /\ "crash" \in AlertFaults
  /\ Troubled
  /\ Release(p)
  /\ rows' = [i \in Slots |->
       IF i = mailed[p] /\ ~rows[i].recent THEN NoRow ELSE rows[i]]
  /\ mailed' = [mailed EXCEPT ![p] = Nobody]
  /\ Returns(p)
  /\ page' = [page EXCEPT ![p] = <<>>]
  /\ items' = [items EXCEPT ![p] = <<>>]
  /\ UNCHANGED <<cachevars, enabled, members>>

-----------------------------------------------------------------------------

Pass(p) ==
  \/ Alternate(p) \/ NotCalledFor(p) \/ PageAssignments(p) \/ PageRecipients(p)
  \/ OverBudget(p) \/ Unassigned(p) \/ Dedup(p) \/ Create(p) \/ Revalidate(p) \/ MailEnds(p)
  \/ UnitDone(p)

Next ==
  \/ Reassign
  \/ \E i \in Slots : Acknowledge(i) \/ Resolve(i) \/ Age(i)
  \/ \E p \in Passes :
       \/ StartScan(p)
       \/ \E u \in Units, s \in Scopes : StartCheck(p, u, s)
       \/ Pass(p) \/ Lock(p) \/ MailFails(p) \/ UnitFails(p) \/ Dies(p)

Spec == Init /\ [][Next]_avars

(* Polls come again and again, live workers go on, and the database grants a *)
(* row lock in the order of its requests.                                     *)
Fairness ==
  /\ \A p \in Scans : WF_avars(StartScan(p))
  /\ \A p \in Passes : WF_avars(Pass(p)) /\ SF_avars(Lock(p))

FairSpec == Spec /\ Fairness
-----------------------------------------------------------------------------
(* Properties. *)

(* The channel's lock covers the search and the insertion: however passes     *)
(* overlap, nobody has two recent pending alerts about one condition.         *)
NoDuplicates ==
  \A k \in Keys, m, n \in 1 .. Copies :
    Pending(<<k, m>>) /\ Pending(<<k, n>>) => m = n

Settled(i) == rows[i] # NoRow /\ rows[i].status \in {"acknowledged", "resolved"}

(* What a user settled stays settled, except for the one hole the code has:   *)
(* the mail about the alert was under way, and its failure writes "failed".   *)
SettledStays ==
  [][\A i \in Slots :
       Settled(i) /\ rows'[i] # rows[i]
         => \/ rows'[i] = NoRow
            \/ rows'[i].status = rows[i].status
            \/ rows[i].status = "acknowledged" /\ rows'[i].status = "resolved"
            \/ rows'[i].status = "failed" /\ \E p \in Passes : mailed[p] = i]_avars

(* A condition that lasts is alerted on again and again, to every recipient   *)
(* of every assignment that wants it, whatever the page and the budget.       *)
NobodyStarves ==
  \A m \in Groups :
    \A t \in Wants[m[1]] \cap Readings[UnitOf[m[1]]] :
      <>[]Eligible(m[1], m[2])
        => []<>(\E n \in 1 .. Copies : rows[<<Key(<<m[1], m[2], t>>), n>>] # NoRow)
=============================================================================
