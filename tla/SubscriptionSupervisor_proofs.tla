-------------------- MODULE SubscriptionSupervisor_proofs --------------------
(***************************************************************************)
(* Proofs about SubscriptionSupervisor: its types, that the token          *)
(* excludes, that it is an expiring lease, that the windows rotate and     *)
(* that runs stay within their bounds, for any number of runs, devices and *)
(* workers.                                                                *)
(***************************************************************************)
EXTENDS SubscriptionSupervisor, FiniteSetTheorems, WellFoundedInduction, TLAPS

Fresh(r) == stage[r] \in {"new", "refused"}

\* A run that owns subscriptions has the token or outlived it; a token belongs to
\* a run that acquired it; only a running run has a heartbeat.
TokenInv ==
  /\ lease \in Runs \cup {NoRun}
  /\ stage \in [Runs -> {"new", "refused", "select", "advance", "round", "reload", "over"}]
  /\ beat \in [Runs -> {"off", "asleep", "touch", "verify"}]
  /\ \A r \in Runs : Running(r) => lease = r \/ r \in lapsed
  /\ \A r \in Runs : lease = r => ~Fresh(r)
  /\ \A r \in Runs : beat[r] # "off" => Running(r)

LEMMA InitToken == Init => TokenInv
  BY NoRunAssumption DEF Init, TokenInv, Running, Fresh

\* What a run does between its acquisition and its end leaves the token alone: it
\* goes on from one running stage to another, or it is over.
GoesOn(r) ==
  /\ UNCHANGED <<lease, lapsed>>
  /\ \/ UNCHANGED stage
     \/ /\ Running(r)
        /\ \E s \in {"select", "advance", "round", "reload", "over"} :
             stage' = [stage EXCEPT ![r] = s]
  /\ \/ UNCHANGED beat
     \/ /\ stage'[r] = "over"
        /\ beat' = [beat EXCEPT ![r] = "off"]
     \/ /\ Running(r)
        /\ stage'[r] # "over"
        /\ \E b \in {"off", "asleep", "touch", "verify"} : beat' = [beat EXCEPT ![r] = b]
  /\ stage'[r] = "over" => beat'[r] = "off"

LEMMA StopsGoesOn ==
  ASSUME TokenInv, NEW r \in Runs, Running(r), Stops(r), UNCHANGED <<lease, lapsed>>
  PROVE  GoesOn(r)
  BY DEF TokenInv, Stops, GoesOn

LEMMA GroupGoesOn ==
  ASSUME TokenInv, NEW r \in Runs, Group(r)
  PROVE  GoesOn(r)
<1>0. /\ stage \in [Runs -> {"new", "refused", "select", "advance", "round", "reload", "over"}]
      /\ beat \in [Runs -> {"off", "asleep", "touch", "verify"}]
      /\ beat[r] # "off" => Running(r)
  BY DEF TokenInv
<1>1. CASE Select(r)
  <2>1. Running(r) /\ UNCHANGED <<lease, lapsed>>
    BY <1>1 DEF Select, Running
  <2>2. Stops(r) \/ (stage' = [stage EXCEPT ![r] = "advance"] /\ UNCHANGED beat)
    BY <1>1 DEF Select
  <2> QED
    BY <1>0, <2>1, <2>2, StopsGoesOn DEF GoesOn
<1>2. CASE Advance(r)
  <2>1. Running(r) /\ UNCHANGED <<lease, lapsed>> /\ stage' = [stage EXCEPT ![r] = "round"]
    BY <1>2 DEF Advance, Running
  <2>2. PICK b \in {"off", "asleep", "touch", "verify"} : beat' = [beat EXCEPT ![r] = b]
    BY <1>0, <1>2 DEF Advance
  <2> QED
    BY <1>0, <2>1, <2>2 DEF GoesOn
<1>3. CASE RoundEnds(r)
  BY <1>0, <1>3 DEF RoundEnds, Running, GoesOn
<1>4. ASSUME NEW d \in Devices, Take(r, d) \/ Open(r, d) \/ Close(r, d)
      PROVE  GoesOn(r)
  <2>1. UNCHANGED <<lease, lapsed, stage, beat>>
    BY <1>4 DEF Take, Open, Close
  <2> QED
    BY <1>0, <2>1 DEF GoesOn, Running
<1> QED
  BY <1>1, <1>2, <1>3, <1>4 DEF Group

LEMMA HeartbeatGoesOn ==
  ASSUME TokenInv, NEW r \in Runs, Heartbeat(r)
  PROVE  GoesOn(r)
<1>1. ASSUME NEW from \in {"asleep", "touch", "verify"},
             NEW to \in {"asleep", "touch", "verify"}, NEW owned, Beats(r, from, owned, to)
      PROVE  GoesOn(r)
  <2>1. Running(r) /\ UNCHANGED <<lease, lapsed>>
    BY <1>1 DEF TokenInv, Beats
  <2>2. Stops(r) \/ (beat' = [beat EXCEPT ![r] = to] /\ UNCHANGED stage)
    BY <1>1 DEF Beats
  <2> QED
    BY <2>1, <2>2, StopsGoesOn DEF GoesOn, Running
<1> QED
  BY <1>1 DEF Heartbeat, ReadToken, Touch, Verify

LEMMA GoingOnKeepsToken ==
  ASSUME TokenInv, NEW r \in Runs, GoesOn(r)
  PROVE  /\ TokenInv'
         /\ \A q \in Runs : Fresh(q)' <=> Fresh(q)
  BY DEF TokenInv, GoesOn, Running, Fresh

LEMMA StepToken ==
  ASSUME TokenInv, [Next]_svars
  PROVE  TokenInv'
<1>1. CASE UNCHANGED svars
  BY <1>1 DEF svars, TokenInv, Running, Fresh
<1>2. CASE ChangeEligible \/ ToggleActive
  BY <1>2 DEF ChangeEligible, ToggleActive, TokenInv, Running, Fresh
<1>3. CASE Expire
  BY <1>3, NoRunAssumption DEF Expire, TokenInv, Running, Fresh
<1>4. CASE ExpireEarly
  BY <1>4, NoRunAssumption DEF ExpireEarly, TokenInv, Running, Fresh
<1>5. ASSUME NEW r \in Runs, Acquire(r)
      PROVE  TokenInv'
  BY <1>5, NoRunAssumption DEF Acquire, TokenInv, Running, Fresh
<1>6. ASSUME NEW r \in Runs, Refused(r)
      PROVE  TokenInv'
  BY <1>6 DEF Refused, TokenInv, Running, Fresh
<1>7. ASSUME NEW r \in Runs, Dies(r)
      PROVE  TokenInv'
  BY <1>7, StopsGoesOn, GoingOnKeepsToken DEF Dies
<1> QED
  BY <1>1, <1>2, <1>3, <1>4, <1>5, <1>6, <1>7, GroupGoesOn, HeartbeatGoesOn,
     GoingOnKeepsToken DEF Next

LEMMA TokenHolds == Spec => []TokenInv
  BY InitToken, StepToken, PTL DEF Spec

(* Two runs own subscriptions at once only if the token of one of them went *)
(* before it ended.                                                          *)
THEOREM GroupsExclude == Spec => []ExclusiveGroups
<1>1. TokenInv => ExclusiveGroups
  BY DEF TokenInv, ExclusiveGroups
<1> QED
  BY <1>1, TokenHolds, PTL

-----------------------------------------------------------------------------
(* The token implements ExpiringLease.                                      *)

LEMMA LeaseInit == Init => Lease!Init
  BY NoRunAssumption DEF Init, Lease!Init

LEMMA LeaseStep ==
  ASSUME TokenInv, [Next]_svars
  PROVE  [Lease!Next]_(Lease!vars)
<1> DEFINE used == {r \in Runs : stage[r] \notin {"new", "refused"}}
           valid == lease # NoRun
<1> USE DEF Lease!Next, Lease!vars
<1>0. ASSUME UNCHANGED lease, \A r \in Runs : Fresh(r)' <=> Fresh(r)
      PROVE  UNCHANGED Lease!vars
  <2>1. used' = used
    BY <1>0 DEF Fresh
  <2>2. valid' = valid
    BY <1>0
  <2> QED
    BY <1>0, <2>1, <2>2
<1>1. CASE UNCHANGED svars
  BY <1>0, <1>1 DEF svars, Fresh
<1>2. CASE ChangeEligible \/ ToggleActive
  BY <1>0, <1>2 DEF ChangeEligible, ToggleActive, Fresh
<1>3. CASE Expire \/ ExpireEarly
  <2>1. valid /\ lease' = NoRun /\ used' = used
    BY <1>3 DEF Expire, ExpireEarly
  <2>2. valid' = FALSE
    BY <2>1
  <2> QED
    BY <2>1, <2>2 DEF Lease!Expire
<1>4. ASSUME NEW r \in Runs, Acquire(r)
      PROVE  Lease!Acquire(r)
  <2>1. r \notin used /\ ~valid /\ lease' = r
    BY <1>4 DEF Acquire
  <2>2. valid' = TRUE
    BY <2>1, NoRunAssumption
  <2>3. used' = used \cup {r}
    BY <1>4 DEF Acquire, TokenInv
  <2> QED
    BY <2>1, <2>2, <2>3 DEF Lease!Acquire
<1>5. ASSUME NEW r \in Runs, Refused(r)
      PROVE  UNCHANGED Lease!vars
  BY <1>0, <1>5 DEF Refused, TokenInv, Fresh
<1>6. ASSUME NEW r \in Runs, Group(r) \/ Heartbeat(r) \/ Dies(r)
      PROVE  UNCHANGED Lease!vars
  <2>1. GoesOn(r)
    BY <1>6, GroupGoesOn, HeartbeatGoesOn, StopsGoesOn DEF Dies
  <2>2. lease' = lease /\ \A q \in Runs : Fresh(q)' <=> Fresh(q)
    BY <2>1, GoingOnKeepsToken DEF GoesOn
  <2> QED
    BY <1>0, <2>2
<1> QED
  BY <1>1, <1>2, <1>3, <1>4, <1>5, <1>6 DEF Next

(* The token is an exclusive expiring lease: no renewal brings back a token  *)
(* that has gone, and a successor waits until it has.                       *)
THEOREM TokensAreLeases == Spec => TokenIsLease
  BY LeaseInit, LeaseStep, TokenHolds, PTL DEF Spec, TokenIsLease, Lease!Spec

-----------------------------------------------------------------------------
(* A window has a last device, which the cursor can name.                   *)

Above(x, S) == {m \in S : m > x}

LEMMA Smallest ==
  ASSUME NEW T, T \subseteq Nat, T # {}
  PROVE  \E n \in T : \A m \in T : n <= m
<1>1. PICK n \in T : \A m \in T : ~(<<m, n>> \in OpToRel(<, Nat))
  BY NatLessThanWellFounded, WFMin
<1>2. ASSUME NEW m \in T, m < n
      PROVE  FALSE
  <2>1. <<m, n>> \in OpToRel(<, Nat)
    BY <1>2 DEF OpToRel
  <2> QED
    BY <1>1, <2>1
<1>3. \A m \in T : n <= m
  BY <1>2
<1> QED
  BY <1>3

\* The largest member is the one with the fewest members above it.
LEMMA Largest ==
  ASSUME NEW S, S \subseteq Nat, IsFiniteSet(S), S # {}
  PROVE  \E x \in S : \A y \in S : y <= x
<1> DEFINE Count(x) == Cardinality(Above(x, S))
<1>1. \A x \in S : IsFiniteSet(Above(x, S)) /\ Count(x) \in Nat
  <2>1. \A x \in S : Above(x, S) \subseteq S
    BY DEF Above
  <2> QED
    BY <2>1, FS_Subset, FS_CardinalityType
<1>2. PICK x \in S : \A y \in S : Count(x) <= Count(y)
  <2> DEFINE T == {Count(x) : x \in S}
  <2>1. T \subseteq Nat /\ T # {}
    BY <1>1
  <2> HIDE DEF Count
  <2>2. PICK n \in T : \A m \in T : n <= m
    BY <2>1, Smallest
  <2> QED
    BY <2>2
<1>3. ASSUME NEW y \in S, y > x
      PROVE  FALSE
  <2>1. Above(y, S) \subseteq Above(x, S) /\ y \in Above(x, S) /\ y \notin Above(y, S)
    <3>1. ASSUME NEW m \in S, m > y
          PROVE  m > x
      BY <1>3, <3>1
    <3>2. ~(y > y)
      OBVIOUS
    <3> QED
      BY <1>3, <3>1, <3>2 DEF Above
  <2>2. Count(y) <= Count(x) /\ Count(y) # Count(x)
    BY <1>1, <2>1, FS_Subset
  <2> QED
    BY <1>1, <1>2, <2>2
<1> QED
  BY <1>3

LEMMA LastIsDevice ==
  ASSUME eligible \subseteq Devices, NEW from, Ahead(from) \cup Around(from) # {}
  PROVE  Last(from) \in Devices
<1> DEFINE part == IF Around(from) = {} THEN Ahead(from) ELSE Around(from)
<1>1. part \subseteq Devices /\ part # {}
  BY DEF Ahead, Around, FirstOf
<1>2. part \subseteq Nat /\ IsFiniteSet(part)
  BY <1>1, DevicesAssumption, FS_Subset
<1> HIDE DEF part
<1>3. \E d \in part : \A e \in part : e <= d
  BY <1>1, <1>2, Largest
<1>4. (CHOOSE d \in part : \A e \in part : e <= d) \in part
  BY <1>3
<1> QED
  BY <1>1, <1>4 DEF Last, part

-----------------------------------------------------------------------------
(* Types.                                                                    *)

LEMMA StopsTypes ==
  ASSUME TypeOK, NEW r \in Runs, Stops(r)
  PROVE  /\ stage' \in [Runs -> {"new", "refused", "select", "advance", "round", "reload", "over"}]
         /\ beat' \in [Runs -> {"off", "asleep", "touch", "verify"}]
         /\ turn' \in [Runs -> [Devices -> {"none", "waiting", "opening", "open"}]]
         /\ upto' \in [Runs -> Devices \cup {0}]
<1>1. NoTurns \in [Devices -> {"none", "waiting", "opening", "open"}]
  BY DEF NoTurns
<1> QED
  BY <1>1 DEF Stops, TypeOK

LEMMA RaisesTypes ==
  ASSUME TypeOK, CacheRaises \/ UNCHANGED trouble
  PROVE  trouble' \in 0 .. MaxTrouble
  BY LimitsAssumption DEF CacheRaises, TypeOK

LEMMA InitTypes == Init => TypeOK
  BY LimitsAssumption, NoRunAssumption DEF Init, TypeOK, NoTurns

LEMMA SelectTypes ==
  ASSUME TypeOK, NEW r \in Runs, Select(r)
  PROVE  TypeOK'
<1>1. PICK from \in {cursor, 0} :
        /\ CacheRaises \/ UNCHANGED trouble
        /\ IF Window(r, from) = {}
             THEN Stops(r)
             ELSE /\ turn' = [turn EXCEPT ![r] = [d \in Devices |->
                        IF d \in Window(r, from) THEN "waiting" ELSE "none"]]
                  /\ upto' = [upto EXCEPT ![r] = IF Only[r] = 0 THEN Last(from) ELSE 0]
                  /\ stage' = [stage EXCEPT ![r] = "advance"]
                  /\ UNCHANGED beat
  BY DEF Select
<1>2. UNCHANGED <<lease, cursor, eligible, active, lapsed>>
  BY DEF Select
<1>3. trouble' \in 0 .. MaxTrouble
  BY <1>1, RaisesTypes
<1>4. CASE Stops(r)
  BY <1>2, <1>3, <1>4, StopsTypes DEF TypeOK
<1>5. CASE Window(r, from) # {}
  <2>1. Only[r] = 0 => Last(from) \in Devices
    BY <1>5, LastIsDevice DEF Window, TypeOK
  <2>2. upto' \in [Runs -> Devices \cup {0}]
    BY <1>1, <1>5, <2>1 DEF TypeOK
  <2>3. turn' \in [Runs -> [Devices -> {"none", "waiting", "opening", "open"}]]
    BY <1>1, <1>5 DEF TypeOK
  <2> QED
    BY <1>1, <1>2, <1>3, <1>5, <2>2, <2>3 DEF TypeOK
<1> QED
  BY <1>1, <1>4, <1>5

LEMMA GroupTypes ==
  ASSUME TypeOK, NEW r \in Runs, Group(r)
  PROVE  TypeOK'
<1>1. CASE Advance(r)
  <2>1. trouble' \in 0 .. MaxTrouble
    BY <1>1, RaisesTypes DEF Advance
  <2>2. cursor' \in Devices \cup {0} /\ upto' \in [Runs -> Devices \cup {0}]
    BY <1>1 DEF Advance, TypeOK
  <2> QED
    BY <1>1, <2>1, <2>2 DEF Advance, TypeOK
<1>2. CASE RoundEnds(r)
  BY <1>2 DEF RoundEnds, TypeOK
<1>3. ASSUME NEW d \in Devices, Take(r, d) \/ Open(r, d) \/ Close(r, d)
      PROVE  TypeOK'
  <2>1. /\ \E to \in {"none", "opening", "open"} : turn' = [turn EXCEPT ![r][d] = to]
        /\ UNCHANGED <<lease, cursor, eligible, active, stage, beat, upto, lapsed, trouble>>
    BY <1>3 DEF Take, Open, Close
  <2> QED
    BY <2>1 DEF TypeOK
<1> QED
  BY <1>1, <1>2, <1>3, SelectTypes DEF Group

LEMMA HeartbeatTypes ==
  ASSUME TypeOK, NEW r \in Runs, Heartbeat(r)
  PROVE  TypeOK'
<1>1. PICK from, owned, to :
        to \in {"asleep", "touch", "verify"} /\ Beats(r, from, owned, to)
  BY DEF Heartbeat, ReadToken, Touch, Verify
<1>2. trouble' \in 0 .. MaxTrouble
  BY <1>1, RaisesTypes DEF Beats
<1>3. CASE Stops(r)
  BY <1>1, <1>2, <1>3, StopsTypes DEF Beats, TypeOK
<1>4. CASE beat' = [beat EXCEPT ![r] = to] /\ UNCHANGED <<stage, turn, upto>>
  BY <1>1, <1>2, <1>4 DEF Beats, TypeOK
<1> QED
  BY <1>1, <1>3, <1>4 DEF Beats

LEMMA NextTypes == TypeOK /\ [Next]_svars => TypeOK'
<1> SUFFICES ASSUME TypeOK, [Next]_svars
             PROVE  TypeOK'
  OBVIOUS
<1>1. CASE ChangeEligible \/ ToggleActive \/ Expire \/ ExpireEarly
  BY <1>1 DEF ChangeEligible, ToggleActive, Expire, ExpireEarly, TypeOK
<1>2. ASSUME NEW r \in Runs, Acquire(r)
      PROVE  TypeOK'
  BY <1>2 DEF Acquire, TypeOK
<1>3. ASSUME NEW r \in Runs, Refused(r)
      PROVE  TypeOK'
  <2>1. trouble' \in 0 .. MaxTrouble
    BY <1>3, RaisesTypes DEF Refused
  <2> QED
    BY <1>3, <2>1 DEF Refused, TypeOK
<1>4. ASSUME NEW r \in Runs, Dies(r)
      PROVE  TypeOK'
  BY <1>4, StopsTypes DEF Dies, TypeOK
<1>5. CASE UNCHANGED svars
  BY <1>5 DEF svars, TypeOK
<1> QED
  BY <1>1, <1>2, <1>3, <1>4, <1>5, GroupTypes, HeartbeatTypes DEF Next

(* Every variable keeps its type: whatever devices come and go, a window   *)
(* that is not empty has a last device for the cursor to go on after.      *)
THEOREM TypeCorrect == Spec => []TypeOK
  BY InitTypes, NextTypes, PTL DEF Spec

-----------------------------------------------------------------------------
(* The windows rotate.                                                       *)

\* F are k members of S that come before the others, or all of S.
Leads(F, S, k) ==
  /\ F \subseteq S
  /\ IsFiniteSet(F)
  /\ Cardinality(F) \in Nat /\ Cardinality(F) <= k
  /\ \A x \in F, y \in S \ F : x < y
  /\ F # S => Cardinality(F) = k

LEMMA FirstOnes ==
  ASSUME NEW S, S \subseteq Nat, IsFiniteSet(S), NEW k \in Nat
  PROVE  Leads(FirstOf(S, k), S, k)
<1> DEFINE F == FirstOf(S, k)
           Below(x) == {e \in S : e < x}
           Count(x) == Cardinality(Below(x))
<1>1. \A x \in S : IsFiniteSet(Below(x)) /\ Count(x) \in Nat
  <2>1. \A x \in S : Below(x) \subseteq S
    OBVIOUS
  <2> QED
    BY <2>1, FS_Subset, FS_CardinalityType
<1>2. F \subseteq S /\ \A x \in S : x \in F <=> Count(x) < k
  BY DEF FirstOf
<1>3. IsFiniteSet(F) /\ Cardinality(F) \in Nat
  BY <1>2, FS_Subset, FS_CardinalityType
<1>4. ASSUME NEW x \in S, NEW y \in S, y < x
      PROVE  Count(y) <= Count(x)
  <2>1. \A e \in S : e < y => e < x
    BY <1>4
  <2>2. Below(y) \in SUBSET Below(x)
    BY <2>1
  <2> QED
    BY <1>1, <2>2, FS_Subset
<1>5. ASSUME NEW x \in F, NEW y \in S \ F
      PROVE  x < y
  <2>1. x \in S /\ Count(x) < k /\ ~(Count(y) < k)
    BY <1>2
  <2>2. ~(y < x)
    <3> SUFFICES ASSUME y < x PROVE FALSE
      OBVIOUS
    <3>1. Count(y) <= Count(x) /\ Count(x) \in Nat /\ Count(y) \in Nat
      BY <1>1, <1>4, <2>1
    <3> HIDE DEF Count
    <3> QED
      BY <2>1, <3>1
  <2>3. x # y /\ x \in Nat /\ y \in Nat
    BY <2>1
  <2> QED
    BY <2>2, <2>3
<1>6. Cardinality(F) <= k
  <2>1. CASE F = {}
    BY <2>1, FS_EmptySet
  <2>2. CASE F # {}
    <3>1. PICK m \in F : \A y \in F : y <= m
      BY <1>2, <1>3, <2>2, Largest
    <3>2. m \in S /\ Count(m) < k
      BY <1>2
    <3>3. F \subseteq Below(m) \cup {m}
      <4> SUFFICES ASSUME NEW y \in F, y # m PROVE y \in Below(m)
        OBVIOUS
      <4>1. y \in S /\ y <= m /\ y \in Nat /\ m \in Nat
        BY <1>2, <3>1, <3>2
      <4> QED
        BY <4>1
    <3>4. m \notin Below(m)
      BY <3>2
    <3>5. IsFiniteSet(Below(m) \cup {m}) /\ Cardinality(Below(m) \cup {m}) = Count(m) + 1
      BY <1>1, <3>2, <3>4, FS_AddElement
    <3>6. Cardinality(F) <= Count(m) + 1
      BY <3>3, <3>5, FS_Subset
    <3>7. Count(m) \in Nat
      BY <1>1, <3>2
    <3> HIDE DEF Count, F
    <3> QED
      BY <1>3, <3>2, <3>6, <3>7
  <2> QED
    BY <2>1, <2>2
<1>7. ASSUME F # S
      PROVE  Cardinality(F) = k
  <2>1. S \ F # {} /\ S \ F \subseteq Nat
    BY <1>2, <1>7
  <2>2. PICK d \in S \ F : \A y \in S \ F : d <= y
    BY <2>1, Smallest
  <2>3. Below(d) = F
    <3>1. \A e \in S : e < d => e \in F
      BY <2>2
    <3> QED
      BY <1>2, <1>5, <3>1
  <2>4. ~(Count(d) < k) /\ Count(d) = Cardinality(F)
    BY <1>2, <2>3
  <2> HIDE DEF F, Count
  <2> QED
    BY <1>3, <1>6, <2>4
<1> QED
  BY <1>2, <1>3, <1>5, <1>6, <1>7 DEF Leads

\* The eligible devices whose turn comes before that of d, for a cursor.
Sooner(from, d) ==
  IF d > from THEN {e \in eligible : from < e /\ e < d}
              ELSE {e \in eligible : from < e \/ e < d}

LEMMA WindowFacts ==
  ASSUME eligible \subseteq Devices, NEW from \in Nat
  PROVE  /\ eligible \subseteq Nat
         /\ IsFiniteSet(eligible)
         /\ LET above == {d \in eligible : d > from}
                rest == {d \in eligible : d <= from}
                left == MaxDevices - Cardinality(Ahead(from))
            IN /\ above \subseteq Nat /\ IsFiniteSet(above)
               /\ rest \subseteq Nat /\ IsFiniteSet(rest)
               /\ left \in Nat
               /\ Ahead(from) = FirstOf(above, MaxDevices)
               /\ Around(from) = FirstOf(rest, left)
               /\ IsFiniteSet(Ahead(from) \cup Around(from))
               /\ Cardinality(Ahead(from) \cup Around(from))
                    = Cardinality(Ahead(from)) + Cardinality(Around(from))
               /\ Cardinality(Ahead(from)) \in Nat /\ Cardinality(Around(from)) \in Nat
<1> DEFINE above == {d \in eligible : d > from}
           rest == {d \in eligible : d <= from}
           left == MaxDevices - Cardinality(Ahead(from))
<1>1. eligible \subseteq Nat /\ IsFiniteSet(eligible)
  BY DevicesAssumption, FS_Subset
<1>2. above \in SUBSET eligible /\ rest \in SUBSET eligible
  OBVIOUS
<1>3. IsFiniteSet(above) /\ IsFiniteSet(rest) /\ above \subseteq Nat /\ rest \subseteq Nat
  BY <1>1, <1>2, FS_Subset
<1>4. MaxDevices \in Nat
  BY LimitsAssumption
<1>5. Ahead(from) = FirstOf(above, MaxDevices) /\ Around(from) = FirstOf(rest, left)
  BY DEF Ahead, Around
<1>6. /\ Ahead(from) \subseteq above /\ IsFiniteSet(Ahead(from))
      /\ Cardinality(Ahead(from)) <= MaxDevices /\ Cardinality(Ahead(from)) \in Nat
  <2> HIDE DEF above
  <2>1. Leads(FirstOf(above, MaxDevices), above, MaxDevices)
    BY <1>3, <1>4, FirstOnes, Zenon
  <2> QED
    BY <1>5, <2>1 DEF Leads
<1>7. left \in Nat
  BY <1>4, <1>6
<1>8. Around(from) \subseteq rest /\ IsFiniteSet(Around(from)) /\ Cardinality(Around(from)) \in Nat
  <2> HIDE DEF rest, left
  <2>1. Leads(FirstOf(rest, left), rest, left)
    BY <1>3, <1>7, FirstOnes, Zenon
  <2> QED
    BY <1>5, <2>1 DEF Leads
<1>9. Ahead(from) \cap Around(from) = {}
  <2>1. \A e \in eligible : ~(e > from /\ e <= from)
    BY <1>1
  <2> QED
    BY <1>6, <1>8, <2>1
<1>10. /\ IsFiniteSet(Ahead(from) \cup Around(from))
       /\ Cardinality(Ahead(from) \cup Around(from))
            = Cardinality(Ahead(from)) + Cardinality(Around(from))
  <2>1. Cardinality(Ahead(from) \cap Around(from)) = 0
    BY <1>9, FS_EmptySet
  <2>2. Cardinality(Ahead(from) \cup Around(from))
          = Cardinality(Ahead(from)) + Cardinality(Around(from))
              - Cardinality(Ahead(from) \cap Around(from))
    BY <1>6, <1>8, FS_Union
  <2> QED
    BY <1>6, <1>8, <2>1, <2>2, FS_Union
<1> QED
  BY <1>1, <1>3, <1>5, <1>6, <1>7, <1>8, <1>10

\* A window has at most MaxDevices devices, all of them if there are no more.
LEMMA WindowSize ==
  ASSUME eligible \subseteq Devices, NEW from \in Nat
  PROVE  Cardinality(Ahead(from) \cup Around(from)) <= MaxDevices
<1> DEFINE rest == {d \in eligible : d <= from}
           left == MaxDevices - Cardinality(Ahead(from))
<1>1. MaxDevices \in Nat
  BY LimitsAssumption
<1>2. /\ rest \subseteq Nat /\ IsFiniteSet(rest) /\ left \in Nat
      /\ Around(from) = FirstOf(rest, left)
      /\ Cardinality(Ahead(from) \cup Around(from))
           = Cardinality(Ahead(from)) + Cardinality(Around(from))
      /\ Cardinality(Ahead(from)) \in Nat /\ Cardinality(Around(from)) \in Nat
  BY WindowFacts
<1>3. Cardinality(Around(from)) <= left
  <2> HIDE DEF rest, left
  <2> QED
    BY <1>2, FirstOnes DEF Leads
<1> QED
  BY <1>1, <1>2, <1>3

\* The last device of a set is its largest.
LEMMA LargestChosen ==
  ASSUME NEW S, S \subseteq Nat, IsFiniteSet(S), S # {}
  PROVE  LET last == CHOOSE d \in S : \A e \in S : e <= d
         IN last \in S /\ \A e \in S : e <= last
BY Largest

(* A device that a window leaves out comes sooner by the whole window in the   *)
(* next one: nobody who was not behind the window is put before it.            *)
LEMMA LeftOutMovesUp ==
  ASSUME eligible \subseteq Devices, NEW from \in Nat,
         NEW d \in eligible \ (Ahead(from) \cup Around(from))
  PROVE  /\ Ahead(from) \cup Around(from) \subseteq Sooner(from, d)
         /\ Cardinality(Ahead(from) \cup Around(from)) = MaxDevices
         /\ Sooner(Last(from), d) = Sooner(from, d) \ (Ahead(from) \cup Around(from))
<1> DEFINE above == {e \in eligible : e > from}
           rest == {e \in eligible : e <= from}
           left == MaxDevices - Cardinality(Ahead(from))
           last == Last(from)
<1>0. MaxDevices \in Nat \ {0} /\ MaxDevices \in Nat /\ eligible \subseteq Nat /\ d \in Nat
  BY WindowFacts, LimitsAssumption
<1>1. /\ above \subseteq Nat /\ IsFiniteSet(above) /\ rest \subseteq Nat /\ IsFiniteSet(rest)
      /\ left \in Nat
      /\ Ahead(from) = FirstOf(above, MaxDevices) /\ Around(from) = FirstOf(rest, left)
      /\ Cardinality(Ahead(from) \cup Around(from))
           = Cardinality(Ahead(from)) + Cardinality(Around(from))
      /\ Cardinality(Ahead(from)) \in Nat /\ Cardinality(Around(from)) \in Nat
  BY WindowFacts
<1> HIDE DEF above, rest, left
<1>2. /\ Ahead(from) \subseteq above /\ IsFiniteSet(Ahead(from))
      /\ \A x \in Ahead(from), y \in above \ Ahead(from) : x < y
      /\ Ahead(from) # above => Cardinality(Ahead(from)) = MaxDevices
  <2>1. Leads(FirstOf(above, MaxDevices), above, MaxDevices)
    BY <1>0, <1>1, FirstOnes, Zenon
  <2> QED
    BY <1>1, <2>1 DEF Leads
<1>3. /\ Around(from) \subseteq rest /\ IsFiniteSet(Around(from))
      /\ \A x \in Around(from), y \in rest \ Around(from) : x < y
      /\ Around(from) # rest => Cardinality(Around(from)) = left
  <2>1. Leads(FirstOf(rest, left), rest, left)
    BY <1>1, FirstOnes, Zenon
  <2> QED
    BY <1>1, <2>1 DEF Leads
<1>4. CASE d > from
  <2>1. d \in above \ Ahead(from)
    BY <1>4 DEF above
  <2>2. Cardinality(Ahead(from)) = MaxDevices
    BY <1>2, <2>1
  <2>3. Around(from) = {}
    <3>0. Cardinality(Around(from)) <= left
      BY <1>1, FirstOnes DEF Leads
    <3>1. left = 0 /\ Cardinality(Around(from)) <= left
      BY <1>0, <2>2, <3>0 DEF left
    <3>2. Cardinality(Around(from)) = 0
      BY <1>1, <3>1
    <3> QED
      BY <1>3, <3>2, FS_EmptySet
  <2>4. Ahead(from) # {}
    BY <1>0, <2>2, FS_EmptySet
  <2>5. last = CHOOSE m \in Ahead(from) : \A e \in Ahead(from) : e <= m
    BY <2>3 DEF Last
  <2>6. last \in Ahead(from) /\ \A e \in Ahead(from) : e <= last
    BY <1>1, <1>2, <2>4, <2>5, LargestChosen
  <2> HIDE DEF last
  <2>7. last < d /\ last > from /\ last \in Nat
    BY <1>0, <1>2, <2>1, <2>6 DEF above
  <2>8. \A e \in eligible : e \in Ahead(from) <=> from < e /\ e <= last
    <3>1. ASSUME NEW e \in eligible, from < e, e <= last
          PROVE  e \in Ahead(from)
      <4>1. e \in above /\ e \in Nat
        BY <1>0, <3>1 DEF above
      <4>2. ~(last < e)
        BY <2>7, <3>1, <4>1
      <4> QED
        BY <1>2, <2>6, <4>1, <4>2
    <3> QED
      BY <1>2, <2>6, <3>1 DEF above
  <2>9. \A e \in eligible : /\ e \in Ahead(from) => from < e /\ e < d
                            /\ last < e /\ e < d <=> (from < e /\ e < d) /\ e \notin Ahead(from)
    BY <1>0, <2>7, <2>8
  <2>10. Sooner(from, d) = {e \in eligible : from < e /\ e < d}
         /\ Sooner(last, d) = {e \in eligible : last < e /\ e < d}
    BY <1>4, <2>7 DEF Sooner
  <2>11. Ahead(from) \subseteq eligible
    BY <1>2 DEF above
  <2> QED
    BY <1>1, <2>2, <2>3, <2>9, <2>10, <2>11 DEF last
<1>5. CASE ~(d > from)
  <2>1. d \in rest \ Around(from) /\ d <= from
    BY <1>0, <1>5 DEF rest
  <2>2. Cardinality(Around(from)) = left
    BY <1>3, <2>1
  <2>3. Cardinality(Ahead(from) \cup Around(from)) = MaxDevices
    BY <1>0, <1>1, <2>2 DEF left
  <2>4. \A e \in Around(from) : e < d
    BY <1>3, <2>1
  <2>5. Sooner(from, d) = {e \in eligible : from < e \/ e < d}
    BY <1>5 DEF Sooner
  <2>6. Ahead(from) \subseteq eligible /\ Around(from) \subseteq eligible
    BY <1>2, <1>3 DEF above, rest
  <2>7. Ahead(from) \cup Around(from) \subseteq Sooner(from, d)
    BY <1>2, <2>4, <2>5, <2>6 DEF above
  <2>8. CASE Around(from) = {}
    <3>1. Ahead(from) # {}
      BY <1>0, <2>3, <2>8, FS_EmptySet
    <3>2. last = CHOOSE m \in Ahead(from) : \A e \in Ahead(from) : e <= m
      BY <2>8 DEF Last
    <3>3. last \in Ahead(from) /\ \A e \in Ahead(from) : e <= last
      <4>1. Ahead(from) \subseteq Nat
        BY <1>1, <1>2
      <4>2. LET greatest == CHOOSE m \in Ahead(from) : \A e \in Ahead(from) : e <= m
            IN greatest \in Ahead(from) /\ \A e \in Ahead(from) : e <= greatest
        BY <1>2, <3>1, <4>1, LargestChosen, Zenon
      <4> QED
        BY <3>2, <4>2
    <3> HIDE DEF last
    <3>4. last > from /\ last \in Nat /\ ~(d > last)
      <4>1. last > from /\ last \in Nat
        BY <1>0, <1>2, <3>3 DEF above
      <4> QED
        BY <1>0, <2>1, <4>1
    <3>5. Sooner(last, d) = {e \in eligible : last < e \/ e < d}
      BY <3>4 DEF Sooner
    <3>6. \A e \in eligible : last < e <=> from < e /\ e \notin Ahead(from)
      <4>1. ASSUME NEW e \in eligible, from < e, e \notin Ahead(from)
            PROVE  last < e
        BY <1>2, <3>3, <4>1 DEF above
      <4>2. ASSUME NEW e \in eligible, last < e
            PROVE  from < e /\ e \notin Ahead(from)
        <5>1. e \in Nat /\ ~(e <= last)
          BY <1>0, <3>4, <4>2
        <5> QED
          BY <3>3, <3>4, <4>2, <5>1
      <4> QED
        BY <4>1, <4>2
    <3>7. \A e \in Ahead(from) : ~(e < d)
      <4> SUFFICES ASSUME NEW e \in Ahead(from), e < d PROVE FALSE
        OBVIOUS
      <4>1. e > from /\ e \in Nat
        BY <1>0, <1>2 DEF above
      <4> QED
        BY <1>0, <2>1, <4>1
    <3> QED
      BY <2>3, <2>5, <2>7, <2>8, <3>5, <3>6, <3>7 DEF last
  <2>9. CASE Around(from) # {}
    <3>1. Ahead(from) = above
      <4>1. Cardinality(Around(from)) # 0
        BY <1>3, <2>9, FS_EmptySet
      <4>2. Cardinality(Ahead(from)) # MaxDevices
        BY <1>0, <1>1, <2>2, <4>1 DEF left
      <4> QED
        BY <1>2, <4>2
    <3>2. last = CHOOSE m \in Around(from) : \A e \in Around(from) : e <= m
      BY <2>9 DEF Last
    <3>3. last \in Around(from) /\ \A e \in Around(from) : e <= last
      BY <1>1, <1>3, <2>9, <3>2, LargestChosen
    <3> HIDE DEF last
    <3>4. last <= from /\ last \in Nat /\ d > last
      BY <1>0, <1>3, <2>4, <3>3 DEF rest
    <3>5. Sooner(last, d) = {e \in eligible : last < e /\ e < d}
      BY <3>4 DEF Sooner
    <3>6. \A e \in eligible : e <= from => (last < e <=> e \notin Around(from))
      <4>1. ASSUME NEW e \in eligible, e <= from, e \notin Around(from)
            PROVE  last < e
        BY <1>3, <3>3, <4>1 DEF rest
      <4>2. ASSUME NEW e \in Around(from)
            PROVE  ~(last < e)
        BY <1>0, <2>6, <3>3, <3>4
      <4> QED
        BY <4>1, <4>2
    <3>7. \A e \in eligible : e < d => e <= from /\ ~(from < e) /\ e \notin above
      BY <1>0, <2>1 DEF above
    <3>8. \A e \in eligible : from < e <=> e \in above
      BY DEF above
    <3> QED
      BY <2>3, <2>5, <2>7, <3>1, <3>5, <3>6, <3>7, <3>8 DEF last
  <2> QED
    BY <2>8, <2>9
<1> QED
  BY <1>4, <1>5

(* A run of the whole inventory that reads the shared cursor selects a device  *)
(* or brings it nearer by a whole window, whoever moved the cursor before and  *)
(* whatever devices come and go between two windows: the measure behind        *)
(* EveryDeviceServed.                                                          *)
WindowsRotate ==
  [][\A r \in Runs, d \in eligible :
       /\ Only[r] = 0
       /\ stage[r] # "advance" /\ stage'[r] = "advance"
       /\ UNCHANGED trouble
       => \/ turn'[r][d] = "waiting"
          \/ Cardinality(Sooner(upto'[r], d)) = Cardinality(Sooner(cursor, d)) - MaxDevices]_svars

\* Only a selection makes a run write the cursor, and it changes nothing but its own run.
LEMMA SelectsOnly ==
  ASSUME TypeOK, [Next]_svars, NEW r \in Runs, stage[r] # "advance", stage'[r] = "advance"
  PROVE  Select(r)
<1>1. ASSUME NEW q \in Runs, Group(q), q # r
      PROVE  FALSE
  <2>1. stage' = stage \/ \E s : stage' = [stage EXCEPT ![q] = s]
    BY <1>1 DEF Group, Select, Advance, RoundEnds, Take, Open, Close, Stops
  <2> QED
    BY <1>1, <2>1 DEF TypeOK
<1>2. CASE Group(r) /\ ~Select(r)
  <2>1. \/ stage' = stage
        \/ \E s \in {"round", "reload"} : stage' = [stage EXCEPT ![r] = s]
    BY <1>2 DEF Group, Advance, RoundEnds, Take, Open, Close
  <2> QED
    BY <2>1 DEF TypeOK
<1>3. ASSUME NEW q \in Runs, Acquire(q) \/ Refused(q) \/ Heartbeat(q) \/ Dies(q)
      PROVE  FALSE
  <2>1. \/ stage' = stage
        \/ \E s \in {"select", "refused", "over"} : stage' = [stage EXCEPT ![q] = s]
    BY <1>3 DEF Acquire, Refused, Heartbeat, ReadToken, Touch, Verify, Beats, Dies, Stops
  <2> QED
    BY <2>1 DEF TypeOK
<1>4. CASE ChangeEligible \/ ToggleActive \/ Expire \/ ExpireEarly \/ UNCHANGED svars
  BY <1>4 DEF ChangeEligible, ToggleActive, Expire, ExpireEarly, svars
<1> QED
  BY <1>1, <1>2, <1>3, <1>4 DEF Next

LEMMA SelectionRotates ==
  ASSUME TypeOK, NEW r \in Runs, NEW d \in eligible, Select(r), Only[r] = 0,
         stage[r] # "advance", stage'[r] = "advance", UNCHANGED trouble
  PROVE  \/ turn'[r][d] = "waiting"
         \/ Cardinality(Sooner(upto'[r], d)) = Cardinality(Sooner(cursor, d)) - MaxDevices
<1>1. cursor \in Nat /\ eligible \subseteq Devices /\ trouble \in Nat /\ UNCHANGED eligible
  BY DevicesAssumption, LimitsAssumption DEF TypeOK, Select
<1>2. ~CacheRaises
  BY <1>1 DEF CacheRaises
<1>3. ~Stops(r)
  BY DEF Stops, TypeOK
<1>4. /\ Window(r, cursor) # {}
      /\ turn' = [turn EXCEPT ![r] = [e \in Devices |->
                    IF e \in Window(r, cursor) THEN "waiting" ELSE "none"]]
      /\ upto' = [upto EXCEPT ![r] = IF Only[r] = 0 THEN Last(cursor) ELSE 0]
  BY <1>2, <1>3 DEF Select
<1>5. /\ Window(r, cursor) = Ahead(cursor) \cup Around(cursor)
      /\ upto'[r] = Last(cursor)
  BY <1>4 DEF Window, TypeOK
<1>6. CASE d \in Window(r, cursor)
  BY <1>1, <1>4, <1>6 DEF TypeOK
<1>7. CASE d \notin Window(r, cursor)
  <2> DEFINE W == Ahead(cursor) \cup Around(cursor)
  <2>1. /\ W \subseteq Sooner(cursor, d) /\ Cardinality(W) = MaxDevices
        /\ Sooner(Last(cursor), d) = Sooner(cursor, d) \ W
    BY <1>1, <1>5, <1>7, LeftOutMovesUp
  <2>2. IsFiniteSet(Sooner(cursor, d))
    <3>1. Sooner(cursor, d) \in SUBSET eligible
      BY DEF Sooner
    <3>2. IsFiniteSet(eligible)
      BY <1>1, WindowFacts
    <3> QED
      BY <3>1, <3>2, FS_Subset
  <2> HIDE DEF W
  <2>3. Cardinality(Sooner(cursor, d) \ W)
          = Cardinality(Sooner(cursor, d)) - Cardinality(Sooner(cursor, d) \cap W)
    BY <2>2, FS_Difference
  <2>4. Sooner(cursor, d) \cap W = W
    BY <2>1
  <2>5. Sooner(upto'[r], d) = Sooner(cursor, d) \ W
    BY <1>5, <2>1
  <2> QED
    BY <2>1, <2>3, <2>4, <2>5
<1> QED
  BY <1>6, <1>7

(* No window leaves a device of the rotation further back than it was.         *)
THEOREM RotationNears == Spec => WindowsRotate
<1> DEFINE Nears == \A r \in Runs, d \in eligible :
               /\ Only[r] = 0
               /\ stage[r] # "advance" /\ stage'[r] = "advance"
               /\ UNCHANGED trouble
               => \/ turn'[r][d] = "waiting"
                  \/ Cardinality(Sooner(upto'[r], d)) = Cardinality(Sooner(cursor, d)) - MaxDevices
<1>1. TypeOK /\ [Next]_svars => [Nears]_svars
  BY SelectsOnly, SelectionRotates
<1> QED
  BY <1>1, TypeCorrect, PTL DEF Spec, WindowsRotate

-----------------------------------------------------------------------------
(* The bounds of a run: it has a turn for no more devices than a window has,   *)
(* and as many workers as it may.                                              *)

Turns(r) == {d \in Devices : turn[r][d] # "none"}

WithinBounds ==
  \A r \in Runs : /\ Cardinality(Turns(r)) <= MaxDevices
                  /\ Cardinality(Busy(r)) <= Concurrency

\* While a window is selected or its cursor written nobody works on it yet.
BoundsInv ==
  /\ WithinBounds
  /\ \A r \in Runs : stage[r] # "round" => Busy(r) = {}
  /\ \A r \in Runs : stage[r] \notin {"advance", "round"} => turn[r] = NoTurns

LEMMA SetsFinite ==
  ASSUME NEW r \in Runs
  PROVE  /\ IsFiniteSet(Turns(r)) /\ Cardinality(Turns(r)) \in Nat
         /\ IsFiniteSet(Busy(r)) /\ Cardinality(Busy(r)) \in Nat
<1>1. Turns(r) \in SUBSET Devices /\ Busy(r) \in SUBSET Devices
  BY DEF Turns, Busy
<1> QED
  BY <1>1, DevicesAssumption, FS_Subset, FS_CardinalityType

\* A run that ended, or has not begun, has neither.
LEMMA NoTurnsBounded ==
  ASSUME NEW r \in Runs, turn[r] = NoTurns
  PROVE  Busy(r) = {} /\ Cardinality(Turns(r)) <= MaxDevices /\ Cardinality(Busy(r)) <= Concurrency
<1>1. Busy(r) = {} /\ Turns(r) = {}
  BY DEF Busy, Turns, NoTurns
<1> QED
  BY <1>1, FS_EmptySet, LimitsAssumption

LEMMA InitBounds == Init => BoundsInv
<1> SUFFICES ASSUME Init PROVE BoundsInv
  OBVIOUS
<1>1. \A r \in Runs : turn[r] = NoTurns
  BY DEF Init
<1> QED
  BY <1>1, NoTurnsBounded DEF BoundsInv, WithinBounds

\* A step of one run leaves the others as they are.
LEMMA BoundsOfOne ==
  ASSUME TypeOK, BoundsInv, NEW r \in Runs,
         \A q \in Runs \ {r} : turn'[q] = turn[q] /\ stage'[q] = stage[q],
         Cardinality(Turns(r))' <= MaxDevices, Cardinality(Busy(r))' <= Concurrency,
         stage'[r] # "round" => Busy(r)' = {},
         stage'[r] \notin {"advance", "round"} => turn'[r] = NoTurns
  PROVE  BoundsInv'
<1>1. \A q \in Runs \ {r} : Turns(q)' = Turns(q) /\ Busy(q)' = Busy(q)
  BY DEF Turns, Busy
<1> QED
  BY <1>1 DEF BoundsInv, WithinBounds

LEMMA StopBounds ==
  ASSUME TypeOK, BoundsInv, NEW r \in Runs, Stops(r)
  PROVE  BoundsInv'
<1>1. /\ turn'[r] = NoTurns /\ stage'[r] = "over"
      /\ \A q \in Runs \ {r} : turn'[q] = turn[q] /\ stage'[q] = stage[q]
  BY DEF Stops, TypeOK
<1>2. Busy(r)' = {} /\ Turns(r)' = {}
  BY <1>1 DEF Busy, Turns, NoTurns
<1> QED
  BY <1>1, <1>2, BoundsOfOne, FS_EmptySet, LimitsAssumption

LEMMA SelectBounds ==
  ASSUME TypeOK, BoundsInv, NEW r \in Runs, Select(r)
  PROVE  BoundsInv'
<1>1. CASE Stops(r)
  BY <1>1, StopBounds
<1>2. CASE ~Stops(r)
  <2>1. PICK from \in {cursor, 0} :
          /\ turn' = [turn EXCEPT ![r] = [d \in Devices |->
                 IF d \in Window(r, from) THEN "waiting" ELSE "none"]]
          /\ stage' = [stage EXCEPT ![r] = "advance"]
    BY <1>2 DEF Select
  <2>2. /\ turn'[r] = [d \in Devices |-> IF d \in Window(r, from) THEN "waiting" ELSE "none"]
        /\ stage'[r] = "advance"
        /\ \A q \in Runs \ {r} : turn'[q] = turn[q] /\ stage'[q] = stage[q]
    BY <2>1 DEF TypeOK
  <2>3. Busy(r)' = {} /\ Turns(r)' = Devices \cap Window(r, from)
    BY <2>2 DEF Busy, Turns
  <2>4. from \in Nat /\ eligible \subseteq Devices
    BY DevicesAssumption DEF TypeOK
  <2>5. IsFiniteSet(Window(r, from)) /\ Cardinality(Window(r, from)) <= MaxDevices
    <3>1. CASE ~active
      BY <3>1, FS_EmptySet, LimitsAssumption DEF Window
    <3>2. CASE active /\ Only[r] # 0
      <4>1. Window(r, from) \in SUBSET {Only[r]}
        BY <3>2 DEF Window
      <4>2. IsFiniteSet({Only[r]}) /\ Cardinality({Only[r]}) = 1
        BY FS_Singleton
      <4>3. IsFiniteSet(Window(r, from)) /\ Cardinality(Window(r, from)) <= 1
        BY <4>1, <4>2, FS_Subset
      <4>4. Cardinality(Window(r, from)) \in Nat /\ MaxDevices \in Nat \ {0}
        BY <4>3, FS_CardinalityType, LimitsAssumption
      <4> QED
        BY <4>3, <4>4
    <3>3. CASE active /\ Only[r] = 0
      <4>1. Window(r, from) = Ahead(from) \cup Around(from)
        BY <3>3 DEF Window
      <4> QED
        BY <2>4, <4>1, WindowFacts, WindowSize
    <3> QED
      BY <3>1, <3>2, <3>3
  <2>6. Cardinality(Turns(r))' <= MaxDevices
    <3>1. Turns(r)' \in SUBSET Window(r, from)
      BY <2>3
    <3>2. /\ Cardinality(Turns(r)') <= Cardinality(Window(r, from))
          /\ Cardinality(Turns(r)') \in Nat /\ Cardinality(Window(r, from)) \in Nat
      BY <2>5, <3>1, FS_Subset, FS_CardinalityType
    <3> QED
      BY <2>5, <3>2, LimitsAssumption
  <2>7. Cardinality(Busy(r))' <= Concurrency
    BY <2>3, FS_EmptySet, LimitsAssumption
  <2> QED
    BY <2>2, <2>3, <2>6, <2>7, BoundsOfOne
<1> QED
  BY <1>1, <1>2

LEMMA TurnBounds ==
  ASSUME TypeOK, BoundsInv, NEW r \in Runs, NEW d \in Devices,
         Take(r, d) \/ Open(r, d) \/ Close(r, d)
  PROVE  BoundsInv'
<1>1. /\ turn[r][d] # "none" /\ UNCHANGED stage
      /\ \E to \in {"none", "opening", "open"} :
           /\ turn' = [turn EXCEPT ![r][d] = to]
           /\ to # "none" /\ d \notin Busy(r) => Take(r, d)
  BY DEF Take, Open, Close, Busy
<1>2. PICK to \in {"none", "opening", "open"} :
        /\ turn' = [turn EXCEPT ![r][d] = to]
        /\ to # "none" /\ d \notin Busy(r) => Take(r, d)
  BY <1>1
<1>3. /\ turn'[r] = [turn[r] EXCEPT ![d] = to]
      /\ \A q \in Runs \ {r} : turn'[q] = turn[q] /\ stage'[q] = stage[q]
      /\ stage'[r] = stage[r]
      /\ turn[r] \in [Devices -> {"none", "waiting", "opening", "open"}]
  BY <1>1, <1>2 DEF TypeOK
<1>4. Turns(r)' \in SUBSET Turns(r)
  BY <1>1, <1>3 DEF Turns
<1>5. Cardinality(Turns(r))' <= MaxDevices
  <2>1. /\ Cardinality(Turns(r)') <= Cardinality(Turns(r)) /\ Cardinality(Turns(r)) <= MaxDevices
        /\ Cardinality(Turns(r)) \in Nat /\ Cardinality(Turns(r)') \in Nat
    BY <1>4, SetsFinite, FS_Subset, FS_CardinalityType DEF BoundsInv, WithinBounds
  <2> QED
    BY <2>1, LimitsAssumption
<1>6. Cardinality(Busy(r))' <= Concurrency
  <2>0. /\ Concurrency \in Nat /\ IsFiniteSet(Busy(r)) /\ Cardinality(Busy(r)) \in Nat
        /\ Cardinality(Busy(r)) <= Concurrency
    BY SetsFinite, LimitsAssumption DEF BoundsInv, WithinBounds
  <2>1. CASE Take(r, d)
    <3>1. Busy(r)' \in SUBSET (Busy(r) \cup {d})
      BY <1>3 DEF Busy
    <3>2. /\ IsFiniteSet(Busy(r) \cup {d})
          /\ Cardinality(Busy(r) \cup {d}) = Cardinality(Busy(r)) + 1
      <4>1. d \notin Busy(r)
        BY <2>1 DEF Take, Busy
      <4> QED
        BY <2>0, <4>1, FS_AddElement
    <3>3. Cardinality(Busy(r)') <= Cardinality(Busy(r) \cup {d}) /\ Cardinality(Busy(r)') \in Nat
      BY <3>1, <3>2, FS_Subset, FS_CardinalityType
    <3>4. Cardinality(Busy(r)) < Concurrency
      BY <2>1 DEF Take
    <3> QED
      BY <2>0, <3>2, <3>3, <3>4
  <2>2. CASE ~Take(r, d)
    <3>1. Busy(r)' \in SUBSET Busy(r)
      BY <1>2, <1>3, <2>2 DEF Busy
    <3>2. Cardinality(Busy(r)') <= Cardinality(Busy(r)) /\ Cardinality(Busy(r)') \in Nat
      BY <2>0, <3>1, FS_Subset, FS_CardinalityType
    <3> QED
      BY <2>0, <3>2
  <2> QED
    BY <2>1, <2>2
<1>7. stage[r] = "round"
  <2>1. CASE Take(r, d)
    BY <2>1 DEF Take
  <2>2. CASE ~Take(r, d)
    BY <2>2 DEF Open, Close, BoundsInv, Busy
  <2> QED
    BY <2>1, <2>2
<1> QED
  BY <1>3, <1>5, <1>6, <1>7, BoundsOfOne

LEMMA NextBounds ==
  ASSUME TypeOK, BoundsInv, [Next]_svars
  PROVE  BoundsInv'
<1>1. ASSUME UNCHANGED <<stage, turn>>
      PROVE  BoundsInv'
  BY <1>1 DEF BoundsInv, WithinBounds, Turns, Busy
<1>2. CASE ChangeEligible \/ ToggleActive \/ Expire \/ ExpireEarly \/ UNCHANGED svars
  BY <1>1, <1>2 DEF ChangeEligible, ToggleActive, Expire, ExpireEarly, svars
<1>3. ASSUME NEW r \in Runs, Acquire(r) \/ Refused(r) \/ RoundEnds(r)
      PROVE  BoundsInv'
  <2>1. /\ turn[r] = NoTurns /\ UNCHANGED turn
        /\ \A q \in Runs \ {r} : stage'[q] = stage[q]
    BY <1>3 DEF Acquire, Refused, RoundEnds, BoundsInv, TypeOK
  <2>2. Busy(r)' = Busy(r) /\ Turns(r)' = Turns(r)
    BY <2>1 DEF Busy, Turns
  <2> QED
    BY <2>1, <2>2, NoTurnsBounded, BoundsOfOne
<1>4. ASSUME NEW r \in Runs, Advance(r)
      PROVE  BoundsInv'
  <2>1. /\ UNCHANGED turn /\ stage'[r] = "round"
        /\ \A q \in Runs \ {r} : stage'[q] = stage[q]
    BY <1>4 DEF Advance, TypeOK
  <2>2. Busy(r)' = Busy(r) /\ Turns(r)' = Turns(r)
    BY <2>1 DEF Busy, Turns
  <2> QED
    BY <2>1, <2>2, BoundsOfOne DEF BoundsInv, WithinBounds
<1>5. ASSUME NEW r \in Runs, Heartbeat(r) \/ Dies(r)
      PROVE  BoundsInv'
  <2>1. Stops(r) \/ UNCHANGED <<stage, turn>>
    BY <1>5 DEF Heartbeat, ReadToken, Touch, Verify, Beats, Dies
  <2> QED
    BY <1>1, <2>1, StopBounds
<1> QED
  BY <1>2, <1>3, <1>4, <1>5, SelectBounds, TurnBounds DEF Next, Group

(* However windows, turns, deactivations and lost tokens interleave, a run     *)
(* subscribes to no more devices at once than it has workers for, and holds no *)
(* more than a window.                                                         *)
THEOREM RunsWithinBounds == Spec => []WithinBounds
<1>1. BoundsInv => WithinBounds
  BY DEF BoundsInv
<1> QED
  BY <1>1, InitBounds, NextBounds, TypeCorrect, PTL DEF Spec
=============================================================================
