-------------------------- MODULE DiscoveryJobs_proofs --------------------------
(***************************************************************************)
(* Proofs about the discovery jobs, for any workers, jobs, addresses and   *)
(* number of requests.  First DiscoveryReconcile: type correctness, the    *)
(* exclusion the claims give, the finality of verdicts, the refinement of  *)
(* ExpiringLease, and what a successful reconciliation means.  Then        *)
(* DiscoveryPipeline: whatever the dispatch does, what it makes workers do *)
(* is a behaviour of DiscoveryReconcile, so the first part holds in the    *)
(* pipeline; no request is multiplied on its way; a retry key stands for a *)
(* retry; and in a calm behaviour no change is forgotten: until a run has  *)
(* read it, a callback, a dispatch, a task or a worker carries it.         *)
(***************************************************************************)
EXTENDS DiscoveryPipeline, TLAPS

(* What the vendor client answers is a part of the list; a part that is not *)
(* reported as one is the whole list, unless the client swallows errors.    *)
LEMMA ListingTypes ==
  ASSUME NEW listing \in Listings
  PROVE  /\ listing.ips \subseteq remote
         /\ listing.partial \in BOOLEAN
         /\ "list swallowed" \notin Faults /\ ~listing.partial => listing.ips = remote
<1>1. CASE listing = [ips |-> remote, partial |-> FALSE]
  BY <1>1
<1>2. CASE \E part \in SUBSET remote : listing = [ips |-> part, partial |-> TRUE]
  BY <1>2
<1>3. CASE "list swallowed" \in Faults /\ listing = [ips |-> {}, partial |-> FALSE]
  BY <1>3
<1>4. \/ listing = [ips |-> remote, partial |-> FALSE]
      \/ \E part \in SUBSET remote : listing = [ips |-> part, partial |-> TRUE]
      \/ "list swallowed" \in Faults /\ listing = [ips |-> {}, partial |-> FALSE]
  BY Zenon DEF Listings
<1> QED
  BY <1>1, <1>2, <1>3, <1>4

(* An action of a worker's workflow keeps types.                           *)
LEMMA WorkTypes ==
  ASSUME TypeOK, NEW w \in Workers, Work(w)
  PROVE  TypeOK'
<1> USE DEF TypeOK, Stages, Kinds, Shapes, sources, claims, work, Goes, Records
<1>1. CASE Check(w)
  <2>1. (failed[w] \/ ~active) \in BOOLEAN
    OBVIOUS
  <2> QED
    BY <1>1, <2>1 DEF Check
<1>2. CASE Read(w)
  <2>1. Local(w) \subseteq Addresses
    BY StagedAssumption DEF Local
  <2>2. PICK found \in Pages(Local(w)) :
          /\ wanted' = [wanted EXCEPT ![w] = found]
          /\ failed' = [failed EXCEPT ![w] = failed[w] \/ Incomplete(found, Local(w))]
    BY <1>2 DEF Read
  <2>3. found \subseteq Addresses
    BY <2>1 DEF Pages
  <2>4. Incomplete(found, Local(w)) \in BOOLEAN
    BY DEF Incomplete
  <2> QED
    BY <1>2, <2>2, <2>3, <2>4 DEF Read
<1>3. CASE Scan(w)
  <2>1. PICK asked \in BOOLEAN :
          LET source == IF asked THEN scans ELSE {}
          IN \E found \in Pages(source) :
               /\ wanted' = [wanted EXCEPT ![w] = @ \cup found]
               /\ failed' = [failed EXCEPT ![w] = failed[w] \/ Incomplete(found, source)]
    <3>1. (kind[w] = "scan") \in BOOLEAN
      OBVIOUS
    <3> QED
      BY <1>3, <3>1 DEF Scan
  <2> DEFINE source == IF asked THEN scans ELSE {}
  <2>2. PICK found \in Pages(source) :
          /\ wanted' = [wanted EXCEPT ![w] = @ \cup found]
          /\ failed' = [failed EXCEPT ![w] = failed[w] \/ Incomplete(found, source)]
    BY <2>1
  <2>3. found \subseteq Addresses
    BY DEF Pages
  <2>4. Incomplete(found, source) \in BOOLEAN
    BY DEF Incomplete
  <2>5. wanted' \in [Workers -> SUBSET Addresses]
    BY <2>2, <2>3
  <2>6. failed' \in [Workers -> BOOLEAN]
    BY <2>2, <2>4
  <2> QED
    BY <1>3, <2>5, <2>6 DEF Scan
<1>4. CASE Compare(w)
  <2>1. PICK listing \in Listings :
          LET seen == listing.ips
              eligible == wanted[w] \ foreign
              partial == failed[w] \/ listing.partial
          IN /\ wanted' = [wanted EXCEPT ![w] = eligible]
             /\ add' = [add EXCEPT ![w] = eligible \ seen]
             /\ drop' = [drop EXCEPT ![w] = IF partial THEN seen \cap foreign
                                                       ELSE seen \ eligible]
             /\ failed' = [failed EXCEPT ![w] = failed[w] \/ listing.partial]
             /\ at' = [at EXCEPT ![w] = IF eligible \subseteq seen THEN "prune" ELSE "get"]
    BY <1>4 DEF Compare
  <2>2. listing.ips \subseteq Addresses /\ listing.partial \in BOOLEAN
    BY ListingTypes
  <2>3. wanted' \in [Workers -> SUBSET Addresses] /\ add' \in [Workers -> SUBSET Addresses]
    BY <2>1, <2>2
  <2>4. drop' \in [Workers -> SUBSET Addresses]
    BY <2>1, <2>2
  <2>5. failed' \in [Workers -> BOOLEAN]
    BY <2>1, <2>2
  <2>6. at' \in [Workers -> Stages \cup {"idle"}]
    BY <2>1
  <2> QED
    BY <1>4, <2>3, <2>4, <2>5, <2>6 DEF Compare
<1>5. CASE Submit(w)
  <2>1. (wanted[w] \cap foreign # {}) \in BOOLEAN
    OBVIOUS
  <2> QED
    BY <1>5, <2>1 DEF Submit
<1>6. CASE Get(w)
  <2>1. PICK existing \in SUBSET Addresses : add' = [add EXCEPT ![w] = @ \cup existing]
    BY <1>6 DEF Get
  <2> QED
    BY <1>6, <2>1 DEF Get
<1>7. CASE Put(w)
  BY <1>7 DEF Put
<1>8. CASE Prune(w)
  BY <1>8 DEF Prune
<1>9. CASE Poll(w)
  <2>1. PICK error \in BOOLEAN : failed' = [failed EXCEPT ![w] = failed[w] \/ error]
    <3>1. ("poll" \in Faults) \in BOOLEAN
      OBVIOUS
    <3> QED
      BY <1>9, <3>1 DEF Poll
  <2> QED
    BY <1>9, <2>1 DEF Poll
<1>10. CASE Raise(w)
  BY <1>10 DEF Raise
<1> QED
  BY <1>1, <1>2, <1>3, <1>4, <1>5, <1>6, <1>7, <1>8, <1>9, <1>10 DEF Work

(* So does every step.                                                     *)
LEMMA StepTypes ==
  ASSUME TypeOK, [RNext]_rvars
  PROVE  TypeOK'
<1>1. CASE UNCHANGED rvars
  BY <1>1 DEF TypeOK, rvars, sources, claims, work
<1>2. CASE Environment
  BY <1>2 DEF TypeOK, Environment, ChangeInventory, ChangeForeign, ChangeScans,
              ToggleActive, claims, work
<1>3. ASSUME NEW j \in Jobs, Lapse(j)
      PROVE  TypeOK'
  BY <1>3 DEF TypeOK, Lapse, sources, work
<1>4. ASSUME NEW w \in Workers, NEW k \in Kinds, Claim(w, k)
      PROVE  TypeOK'
  <2>1. PICK j \in Jobs : jobs[j] = "unused" /\ jobs' = Claimed(j)
                          /\ job' = [job EXCEPT ![w] = j]
    BY <1>4 DEF Claim
  <2>2. jobs' \in [Jobs -> {"unused", "running", "success", "failed"}]
    BY <2>1 DEF TypeOK, Claimed
  <2> QED
    BY <1>4, <2>1, <2>2 DEF TypeOK, Claim, sources, Stages
<1>5. ASSUME NEW w \in Workers, Work(w)
      PROVE  TypeOK'
  BY <1>5, WorkTypes
<1>6. ASSUME NEW w \in Workers, Finalize(w)
      PROVE  TypeOK'
  BY <1>6 DEF TypeOK, Finalize, Leaves, sources, Kinds, Shapes
<1>7. ASSUME NEW w \in Workers, Die(w)
      PROVE  TypeOK'
  BY <1>7 DEF TypeOK, Die, Leaves, sources, claims, Kinds, Shapes
<1> QED
  BY <1>1, <1>2, <1>3, <1>4, <1>5, <1>6, <1>7 DEF RNext

LEMMA InitTypes == RInit => TypeOK
  BY DEF RInit, TypeOK, Kinds, Shapes

(* Every reachable state is well typed.                                    *)
THEOREM TypeCorrect == RSpec => []TypeOK
<1> QED
  BY InitTypes, StepTypes, PTL DEF RSpec

-----------------------------------------------------------------------------
(* What the claims rest on. *)

Inside(w) == at[w] # "idle"

\* A worker inside has an inserted job of its own, running unless it lapsed; at
\* most one job runs; only inserted jobs lapse.
JobsHeld ==
  \A w \in Workers :
    Inside(w) => /\ job[w] \in Jobs
                 /\ jobs[job[w]] # "unused"
                 /\ jobs[job[w]] = "running" \/ job[w] \in lapsed
JobsDistinct ==
  \A v, w \in Workers : v # w /\ Inside(v) /\ Inside(w) => job[v] # job[w]
OneRunning ==
  \A i, j \in Jobs : jobs[i] = "running" /\ jobs[j] = "running" => i = j
LapsedInserted ==
  \A j \in lapsed : jobs[j] # "unused"

ClaimInv == TypeOK /\ JobsHeld /\ JobsDistinct /\ OneRunning /\ LapsedInserted

(* A workflow action moves its worker between stages and leaves the claims. *)
LEMMA WorkKeepsClaims ==
  ASSUME TypeOK, NEW w \in Workers, Work(w)
  PROVE  /\ UNCHANGED <<jobs, lapsed, job>>
         /\ \E stage \in Stages : at' = [at EXCEPT ![w] = stage]
         /\ Inside(w)
<1> USE DEF TypeOK, Stages, claims, Goes, Inside
<1>1. CASE Check(w)
  BY <1>1 DEF Check
<1>2. CASE Read(w)
  BY <1>2 DEF Read
<1>3. CASE Scan(w)
  BY <1>3 DEF Scan
<1>4. CASE Compare(w)
  BY <1>4 DEF Compare
<1>5. CASE Submit(w)
  BY <1>5 DEF Submit
<1>6. CASE Get(w)
  BY <1>6 DEF Get
<1>7. CASE Put(w)
  BY <1>7 DEF Put
<1>8. CASE Prune(w)
  BY <1>8 DEF Prune
<1>9. CASE Poll(w)
  BY <1>9 DEF Poll
<1>10. CASE Raise(w)
  BY <1>10 DEF Raise
<1> QED
  BY <1>1, <1>2, <1>3, <1>4, <1>5, <1>6, <1>7, <1>8, <1>9, <1>10 DEF Work

LEMMA InitClaims == RInit => ClaimInv
<1> SUFFICES ASSUME RInit PROVE ClaimInv
  OBVIOUS
<1>1. TypeOK
  BY InitTypes
<1> QED
  BY <1>1 DEF RInit, ClaimInv, JobsHeld, JobsDistinct, OneRunning, LapsedInserted, Inside

LEMMA StepClaims ==
  ASSUME ClaimInv, [RNext]_rvars
  PROVE  ClaimInv'
<1>0. TypeOK /\ TypeOK'
  BY StepTypes DEF ClaimInv
<1> DEFINE Rest == JobsHeld /\ JobsDistinct /\ OneRunning /\ LapsedInserted
<1> SUFFICES Rest'
  BY <1>0 DEF ClaimInv
<1> USE DEF ClaimInv, JobsHeld, JobsDistinct, OneRunning, LapsedInserted, Inside
<1>1. CASE UNCHANGED rvars
  BY <1>1 DEF rvars, claims, work
<1>2. CASE Environment
  BY <1>2 DEF Environment, ChangeInventory, ChangeForeign, ChangeScans, ToggleActive,
              claims, work
<1>3. ASSUME NEW j \in Jobs, Lapse(j)
      PROVE  Rest'
  BY <1>3 DEF Lapse, work
<1>4. ASSUME NEW w \in Workers, NEW k \in Kinds, Claim(w, k)
      PROVE  Rest'
  <2>1. PICK j \in Jobs : jobs[j] = "unused" /\ jobs' = Claimed(j)
                          /\ job' = [job EXCEPT ![w] = j]
    BY <1>4 DEF Claim
  <2>2. \A i \in Jobs : /\ i = j => jobs'[i] = "running"
                        /\ i # j /\ jobs[i] = "running" => jobs'[i] = "failed"
                        /\ i # j /\ jobs[i] # "running" => jobs'[i] = jobs[i]
    BY <2>1 DEF Claimed
  <2>3. \A i \in Jobs : jobs[i] = "running" => i \in lapsed
    BY <1>4 DEF Claim, Busy
  <2>4. at' = [at EXCEPT ![w] = "check"] /\ lapsed' = lapsed /\ at[w] = "idle"
    BY <1>4 DEF Claim
  <2>5. JobsHeld'
    BY <1>0, <2>1, <2>2, <2>3, <2>4 DEF TypeOK
  <2>6. JobsDistinct'
    BY <1>0, <2>1, <2>4 DEF TypeOK
  <2>7. OneRunning' /\ LapsedInserted'
    BY <1>0, <2>1, <2>2, <2>4 DEF TypeOK
  <2> QED
    BY <2>5, <2>6, <2>7
<1>5. ASSUME NEW w \in Workers, Work(w)
      PROVE  Rest'
  <2>1. PICK stage \in Stages : at' = [at EXCEPT ![w] = stage]
    BY <1>0, <1>5, WorkKeepsClaims
  <2>2. UNCHANGED <<jobs, lapsed, job>> /\ at[w] # "idle"
    BY <1>0, <1>5, WorkKeepsClaims
  <2> QED
    BY <1>0, <2>1, <2>2 DEF TypeOK
<1>6. ASSUME NEW w \in Workers, Finalize(w)
      PROVE  Rest'
  <2>1. at' = [at EXCEPT ![w] = "idle"] /\ job' = [job EXCEPT ![w] = NoJob]
        /\ lapsed' = lapsed /\ at[w] # "idle"
    BY <1>6 DEF Finalize, Leaves
  <2>2. job[w] \in Jobs /\ jobs[job[w]] # "unused"
    BY <2>1
  <2>3. \A i \in Jobs : /\ i # job[w] => jobs'[i] = jobs[i]
                        /\ jobs'[i] = jobs[i] \/ jobs'[i] \in {"failed", "success"}
    BY <1>0, <1>6, <2>2 DEF Finalize, TypeOK
  <2>4. JobsHeld'
    BY <1>0, <2>1, <2>2, <2>3 DEF TypeOK
  <2>5. JobsDistinct'
    BY <1>0, <2>1 DEF TypeOK
  <2>6. OneRunning' /\ LapsedInserted'
    BY <1>0, <2>1, <2>3 DEF TypeOK
  <2> QED
    BY <2>4, <2>5, <2>6
<1>7. ASSUME NEW w \in Workers, Die(w)
      PROVE  Rest'
  BY <1>0, <1>7 DEF Die, Leaves, claims, TypeOK
<1> QED
  BY <1>1, <1>2, <1>3, <1>4, <1>5, <1>6, <1>7 DEF RNext

LEMMA ClaimsHold == RSpec => []ClaimInv
<1> QED
  BY InitClaims, StepClaims, PTL DEF RSpec

(* Two workers inside claimed jobs: one of the jobs has lapsed.            *)
THEOREM WorkIsExclusive == RSpec => []ExclusiveWork
<1>1. ClaimInv => ExclusiveWork
  BY DEF ClaimInv, JobsHeld, JobsDistinct, OneRunning, Inside, ExclusiveWork
<1> QED
  BY <1>1, ClaimsHold, PTL

(* A verdict, once written, stays.                                         *)
THEOREM VerdictsStay == RSpec => VerdictFinal
<1> DEFINE Stays == \A j \in Jobs : jobs[j] \in {"success", "failed"} => jobs'[j] = jobs[j]
<1>1. ASSUME ClaimInv, [RNext]_rvars
      PROVE  Stays
  <2>1. CASE UNCHANGED rvars
    BY <2>1 DEF rvars, claims
  <2>2. CASE Environment
    BY <2>2 DEF Environment, ChangeInventory, ChangeForeign, ChangeScans, ToggleActive, claims
  <2>3. ASSUME NEW j \in Jobs, Lapse(j)
        PROVE  Stays
    BY <2>3 DEF Lapse
  <2>4. ASSUME NEW w \in Workers, NEW k \in Kinds, Claim(w, k)
        PROVE  Stays
    <3>1. PICK j \in Jobs : jobs[j] = "unused" /\ jobs' = Claimed(j)
      BY <2>4 DEF Claim
    <3> QED
      BY <3>1 DEF Claimed
  <2>5. ASSUME NEW w \in Workers, Work(w)
        PROVE  Stays
    BY <1>1, <2>5, WorkKeepsClaims DEF ClaimInv
  <2>6. ASSUME NEW w \in Workers, Finalize(w)
        PROVE  Stays
    BY <1>1, <2>6 DEF Finalize, Owned, ClaimInv, TypeOK
  <2>7. ASSUME NEW w \in Workers, Die(w)
        PROVE  Stays
    BY <2>7 DEF Die, claims
  <2> QED
    BY <1>1, <2>1, <2>2, <2>3, <2>4, <2>5, <2>6, <2>7 DEF RNext
<1> QED
  BY <1>1, ClaimsHold, PTL DEF RSpec, VerdictFinal

-----------------------------------------------------------------------------
(* The claims implement ExpiringLease. *)

LEMMA OwnerRuns ==
  ASSUME OneRunning, NEW j \in Jobs, jobs[j] = "running"
  PROVE  Owner = j
<1>1. Running = {j}
  BY DEF Running, OneRunning
<1> QED
  BY <1>1 DEF Owner

LEMMA NoOwner ==
  ASSUME \A j \in Jobs : jobs[j] # "running"
  PROVE  Owner = NoJob /\ ~(Running \ lapsed # {})
  BY DEF Running, Owner

LEMMA LeaseInit == RInit => Lease!Init
<1> SUFFICES ASSUME RInit PROVE Lease!Init
  OBVIOUS
<1>1. \A j \in Jobs : jobs[j] = "unused"
  BY DEF RInit
<1>2. Owner = NoJob /\ ~(Running \ lapsed # {})
  BY <1>1, NoOwner
<1>3. {j \in Jobs : jobs[j] # "unused"} = {}
  BY <1>1
<1> QED
  BY <1>2, <1>3, Zenon DEF Lease!Init

LEMMA LeaseStutter ==
  ASSUME UNCHANGED <<jobs, lapsed>>
  PROVE  UNCHANGED Lease!vars
<1>1. Running' = Running
  BY DEF Running
<1>2. Owner' = Owner
  BY <1>1 DEF Owner
<1>3. (Running \ lapsed # {})' = (Running \ lapsed # {})
  BY <1>1
<1>4. {j \in Jobs : jobs[j] # "unused"}' = {j \in Jobs : jobs[j] # "unused"}
  OBVIOUS
<1> QED
  BY <1>2, <1>3, <1>4 DEF Lease!vars

LEMMA LeaseStep ==
  ASSUME ClaimInv, ClaimInv', [RNext]_rvars
  PROVE  [Lease!Next]_(Lease!vars)
<1> DEFINE used == {j \in Jobs : jobs[j] # "unused"}
           valid == Running \ lapsed # {}
<1>0. TypeOK /\ OneRunning /\ OneRunning' /\ LapsedInserted
  BY DEF ClaimInv
<1>1. CASE UNCHANGED rvars
  BY <1>1, LeaseStutter DEF rvars, claims
<1>2. CASE Environment
  BY <1>2, LeaseStutter DEF Environment, ChangeInventory, ChangeForeign, ChangeScans,
                            ToggleActive, claims
<1>3. ASSUME NEW j \in Jobs, Lapse(j)
      PROVE  Lease!Expire
  <2>1. Running' = Running /\ j \in Running
    BY <1>3 DEF Lapse, Running
  <2>2. Running = {j}
    BY <1>0, <2>1 DEF OneRunning, Running
  <2>3. valid
    BY <1>3, <2>2 DEF Lapse
  <2>4. ~valid'
    BY <1>3, <2>1, <2>2 DEF Lapse
  <2>5. Owner' = Owner
    BY <2>1 DEF Owner
  <2>6. used' = used
    BY <1>3 DEF Lapse
  <2> QED
    BY <2>3, <2>4, <2>5, <2>6 DEF Lease!Expire
<1>4. ASSUME NEW w \in Workers, NEW k \in Kinds, Claim(w, k)
      PROVE  \E j \in Jobs : Lease!Acquire(j)
  <2>1. PICK j \in Jobs : jobs[j] = "unused" /\ jobs' = Claimed(j)
    BY <1>4 DEF Claim
  <2>2. jobs'[j] = "running"
    BY <2>1 DEF Claimed
  <2>3. Owner' = j
    BY <1>0, <2>2 DEF Owner, Running, OneRunning
  <2>4. ~valid
    BY <1>4 DEF Claim, Busy, Running
  <2>5. valid'
    <3>1. j \notin lapsed /\ lapsed' = lapsed
      BY <1>0, <1>4, <2>1 DEF LapsedInserted, Claim
    <3>2. j \in Running'
      BY <2>2 DEF Running
    <3> QED
      BY <3>1, <3>2
  <2>6. j \notin used
    BY <2>1
  <2>7. used' = used \cup {j}
    <3>1. \A i \in Jobs : jobs'[i] # "unused" <=> jobs[i] # "unused" \/ i = j
      BY <2>1 DEF Claimed
    <3> QED
      BY <3>1
  <2> QED
    BY <2>3, <2>4, <2>5, <2>6, <2>7 DEF Lease!Acquire
<1>5. ASSUME NEW w \in Workers, Work(w)
      PROVE  UNCHANGED Lease!vars
  BY <1>0, <1>5, WorkKeepsClaims, LeaseStutter
<1>6. ASSUME NEW w \in Workers, Finalize(w)
      PROVE  UNCHANGED Lease!vars \/ Lease!Release(job[w])
  <2>1. CASE ~Owned(w)
    BY <1>6, <2>1, LeaseStutter DEF Finalize
  <2>2. CASE Owned(w)
    <3>1. job[w] \in Jobs /\ jobs[job[w]] = "running"
      BY <1>6, <2>2 DEF Owned, ClaimInv, JobsHeld, Inside, Finalize
    <3>2. Owner = job[w]
      BY <1>0, <3>1, OwnerRuns
    <3>3. \A i \in Jobs : /\ jobs'[i] # "running"
                          /\ jobs'[i] # "unused" <=> jobs[i] # "unused"
      BY <1>0, <1>6, <2>2, <3>1 DEF Finalize, OneRunning, TypeOK
    <3>4. Running' = {}
      BY <3>3 DEF Running
    <3>5. Owner' = NoJob /\ ~valid'
      BY <3>4 DEF Owner
    <3>6. used' = used
      BY <3>3
    <3> QED
      BY <3>2, <3>5, <3>6 DEF Lease!Release
  <2> QED
    BY <2>1, <2>2
<1>7. ASSUME NEW w \in Workers, Die(w)
      PROVE  UNCHANGED Lease!vars
  BY <1>7, LeaseStutter DEF Die, claims
<1>8. ASSUME NEW w \in Workers, Finalize(w)
      PROVE  [Lease!Next]_(Lease!vars)
  <2>1. job[w] \in Jobs
    BY <1>8 DEF ClaimInv, JobsHeld, Inside, Finalize
  <2> QED
    BY <1>6, <1>8, <2>1 DEF Lease!Next
<1> QED
  BY <1>1, <1>2, <1>3, <1>4, <1>5, <1>7, <1>8 DEF RNext, Lease!Next

(* Claiming, lapsing and finalizing are the operations of an exclusive      *)
(* expiring lease; everything else a worker does leaves the lease alone.    *)
THEOREM ClaimsAreLeases == RSpec => ClaimIsLease
<1> QED
  BY LeaseInit, LeaseStep, ClaimsHold, PTL DEF RSpec, ClaimIsLease, Lease!Spec

-----------------------------------------------------------------------------
(* What a success means, while no job has lapsed and the vendor client hides no *)
(* error: the worker inside is alone, and what it has left to do turns the  *)
(* vendor's list into the eligible candidates unless it recorded an error.  *)

Honest ==
  /\ "list swallowed" \notin Faults
  /\ "merge swallowed" \notin Faults

LeftToDo(w) ==
  /\ at[w] = "poll" => kind[w] = "sync"
  /\ kind[w] \in Shapes /\ ~failed[w] =>
       /\ at[w] = "get" => (remote \cup add[w]) \ drop[w] = wanted[w]
       /\ at[w] = "put" => add[w] \ drop[w] = wanted[w]
       /\ at[w] = "prune" => remote \ drop[w] = wanted[w]
       /\ at[w] = "finalize" => remote = wanted[w]

WorkInv == ClaimInv /\ lapsed = {} /\ \A w \in Workers : LeftToDo(w)

TimelyInv == ClaimInv /\ (lapsed = {} => WorkInv)

LEMMA Alone ==
  ASSUME WorkInv, NEW v \in Workers, NEW w \in Workers, Inside(v), Inside(w)
  PROVE  v = w
  BY DEF WorkInv, ClaimInv, JobsHeld, JobsDistinct, OneRunning

\* Another worker is idle and stays so.
LEMMA OthersIdle ==
  ASSUME WorkInv, NEW w \in Workers, Inside(w), NEW v \in Workers, v # w,
         NEW stage, at' = [at EXCEPT ![w] = stage]
  PROVE  LeftToDo(v)'
<1>1. at[v] = "idle"
  BY Alone DEF Inside
<1>2. at'[v] = "idle"
  BY <1>1 DEF WorkInv, ClaimInv, TypeOK
<1> QED
  BY <1>2 DEF LeftToDo

LEMMA WorkLeaves ==
  ASSUME Honest, WorkInv, NEW w \in Workers, Work(w)
  PROVE  LeftToDo(w)'
<1>0. TypeOK /\ LeftToDo(w)
  BY DEF WorkInv, ClaimInv
<1> USE DEF LeftToDo, TypeOK, Goes, Shapes
<1>1. CASE Check(w)
  <2>1. at'[w] \in {"read", "finalize"} /\ (at'[w] = "finalize" => failed'[w])
    BY <1>0, <1>1 DEF Check, Records
  <2> QED
    BY <2>1
<1>2. CASE Read(w)
  BY <1>0, <1>2 DEF Read
<1>3. CASE Scan(w)
  BY <1>0, <1>3 DEF Scan
<1>4. CASE Compare(w)
  <2>1. PICK listing \in Listings :
          LET seen == listing.ips
              eligible == wanted[w] \ foreign
              partial == failed[w] \/ listing.partial
          IN /\ wanted' = [wanted EXCEPT ![w] = eligible]
             /\ add' = [add EXCEPT ![w] = eligible \ seen]
             /\ drop' = [drop EXCEPT ![w] = IF partial THEN seen \cap foreign
                                                       ELSE seen \ eligible]
             /\ failed' = [failed EXCEPT ![w] = failed[w] \/ listing.partial]
             /\ at' = [at EXCEPT ![w] = IF eligible \subseteq seen THEN "prune" ELSE "get"]
    BY <1>4 DEF Compare, Records
  <2>2. listing.partial \in BOOLEAN /\ (~listing.partial => listing.ips = remote)
    BY ListingTypes DEF Honest
  <2>3. failed'[w] = (failed[w] \/ listing.partial)
    BY <1>0, <2>1, <2>2
  <2>4. CASE failed[w] \/ listing.partial
    <3>1. at'[w] # "poll"
      BY <1>0, <2>1
    <3> QED
      BY <2>3, <2>4, <3>1
  <2>5. CASE ~failed[w] /\ ~listing.partial
    <3> DEFINE eligible == wanted[w] \ foreign
    <3>1. listing.ips = remote
      BY <2>2, <2>5
    <3>2. wanted'[w] = eligible /\ add'[w] = eligible \ remote
      BY <1>0, <2>1, <3>1
    <3>3. drop'[w] = remote \ eligible
      BY <1>0, <2>1, <2>5, <3>1
    <3>4. at'[w] = IF eligible \subseteq remote THEN "prune" ELSE "get"
      BY <1>0, <2>1, <3>1
    <3>5. remote' = remote
      BY <1>4 DEF Compare
    <3> QED
      BY <3>2, <3>3, <3>4, <3>5
  <2> QED
    BY <1>0, <2>4, <2>5
<1>5. CASE Submit(w)
  BY <1>0, <1>5 DEF Submit
<1>6. CASE Get(w)
  <2>1. add' = [add EXCEPT ![w] = add[w] \cup remote]
    BY <1>6 DEF Get, Honest
  <2> QED
    BY <1>0, <1>6, <2>1 DEF Get
<1>7. CASE Put(w)
  <2>1. CASE remote' = add[w] /\ UNCHANGED failed
    BY <1>0, <1>7, <2>1 DEF Put
  <2>2. CASE Records(w, TRUE)
    <3>1. failed'[w]
      BY <1>0, <2>2 DEF Records
    <3> QED
      BY <1>0, <1>7, <3>1 DEF Put
  <2> QED
    BY <1>7, <2>1, <2>2 DEF Put
<1>8. CASE Prune(w)
  <2>1. CASE remote' = remote \ drop[w] /\ UNCHANGED failed
    BY <1>0, <1>8, <2>1 DEF Prune
  <2>2. CASE Records(w, TRUE)
    <3>1. failed'[w]
      BY <1>0, <2>2 DEF Records
    <3> QED
      BY <1>0, <1>8, <3>1 DEF Prune
  <2> QED
    BY <1>8, <2>1, <2>2 DEF Prune
<1>9. CASE Poll(w)
  BY <1>0, <1>9 DEF Poll
<1>10. CASE Raise(w)
  <2>1. failed'[w] /\ at'[w] = "finalize"
    BY <1>0, <1>10 DEF Raise, Records
  <2> QED
    BY <2>1
<1> QED
  BY <1>1, <1>2, <1>3, <1>4, <1>5, <1>6, <1>7, <1>8, <1>9, <1>10 DEF Work

LEMMA StepLeaves ==
  ASSUME Honest, WorkInv, [RNext]_rvars, lapsed' = {}
  PROVE  WorkInv'
<1>0. ClaimInv'
  BY StepClaims DEF WorkInv
<1>00. TypeOK /\ lapsed = {} /\ \A w \in Workers : LeftToDo(w)
  BY DEF WorkInv, ClaimInv
<1> DEFINE Rest == lapsed = {} /\ \A w \in Workers : LeftToDo(w)
<1> SUFFICES Rest'
  BY <1>0 DEF WorkInv
<1>1. CASE UNCHANGED rvars
  BY <1>00, <1>1 DEF rvars, claims, work, LeftToDo
<1>2. CASE Environment
  BY <1>00, <1>2 DEF Environment, ChangeInventory, ChangeForeign, ChangeScans,
                     ToggleActive, claims, work, LeftToDo
<1>3. ASSUME NEW j \in Jobs, Lapse(j)
      PROVE  FALSE
  BY <1>3 DEF Lapse
<1>4. ASSUME NEW w \in Workers, NEW k \in Kinds, Claim(w, k)
      PROVE  Rest'
  <2>1. at' = [at EXCEPT ![w] = "check"] /\ kind' = [kind EXCEPT ![w] = k]
        /\ UNCHANGED <<lapsed, remote, wanted, add, drop, failed>>
    BY <1>4 DEF Claim
  <2> QED
    BY <1>00, <2>1 DEF LeftToDo, TypeOK
<1>5. ASSUME NEW w \in Workers, Work(w)
      PROVE  Rest'
  <2>1. lapsed' = lapsed /\ Inside(w)
    BY <1>00, <1>5, WorkKeepsClaims
  <2>2. PICK stage \in Stages : at' = [at EXCEPT ![w] = stage]
    BY <1>00, <1>5, WorkKeepsClaims
  <2>3. LeftToDo(w)'
    BY <1>5, WorkLeaves
  <2>4. ASSUME NEW v \in Workers, v # w PROVE LeftToDo(v)'
    BY <2>1, <2>2, <2>4, OthersIdle
  <2> QED
    BY <1>00, <2>1, <2>3, <2>4
<1>6. ASSUME NEW w \in Workers, Leaves(w), Inside(w), lapsed' = lapsed
      PROVE  Rest'
  <2>1. at' = [at EXCEPT ![w] = "idle"]
    BY <1>6 DEF Leaves
  <2>2. LeftToDo(w)'
    BY <1>00, <2>1 DEF LeftToDo, TypeOK
  <2>3. ASSUME NEW v \in Workers, v # w PROVE LeftToDo(v)'
    BY <1>6, <2>1, <2>3, OthersIdle
  <2> QED
    BY <1>00, <1>6, <2>2, <2>3
<1>7. ASSUME NEW w \in Workers, Finalize(w) \/ Die(w)
      PROVE  Rest'
  BY <1>6, <1>7 DEF Finalize, Die, claims, Inside
<1> QED
  BY <1>1, <1>2, <1>3, <1>4, <1>5, <1>7 DEF RNext

\* A lapsed job stays lapsed.
LEMMA LapsedGrows ==
  ASSUME ClaimInv, [RNext]_rvars
  PROVE  lapsed \subseteq lapsed'
<1>1. CASE UNCHANGED rvars
  BY <1>1 DEF rvars, claims
<1>2. CASE Environment
  BY <1>2 DEF Environment, ChangeInventory, ChangeForeign, ChangeScans, ToggleActive, claims
<1>3. ASSUME NEW j \in Jobs, Lapse(j) PROVE lapsed \subseteq lapsed'
  BY <1>3 DEF Lapse
<1>4. ASSUME NEW w \in Workers, NEW k \in Kinds, Claim(w, k) PROVE lapsed' = lapsed
  BY <1>4 DEF Claim
<1>5. ASSUME NEW w \in Workers, Work(w) PROVE lapsed' = lapsed
  BY <1>5, WorkKeepsClaims DEF ClaimInv
<1>6. ASSUME NEW w \in Workers, Finalize(w) \/ Die(w) PROVE lapsed' = lapsed
  BY <1>6 DEF Finalize, Die, claims
<1> QED
  BY <1>1, <1>2, <1>3, <1>4, <1>5, <1>6 DEF RNext

LEMMA StepTimely ==
  ASSUME Honest, TimelyInv, [RNext]_rvars
  PROVE  TimelyInv'
<1>1. ClaimInv'
  BY StepClaims DEF TimelyInv
<1>2. ASSUME lapsed' = {} PROVE WorkInv'
  BY <1>2, LapsedGrows, StepLeaves DEF TimelyInv
<1> QED
  BY <1>1, <1>2 DEF TimelyInv

LEMMA InitTimely == RInit => TimelyInv
  BY InitClaims DEF RInit, TimelyInv, WorkInv, LeftToDo

(* A successful reconciliation leaves the vendor's list equal to what it    *)
(* collected, as long as no job has lapsed and if the vendor client reports   *)
(* its errors.                                                              *)
THEOREM SuccessIsReconciled ==
  ASSUME Honest
  PROVE  RSpec => SuccessMeansReconciled
<1> DEFINE Reconciled ==
      \A w \in Workers :
        /\ lapsed = {}
        /\ kind[w] \in Shapes
        /\ at[w] = "finalize"
        /\ at'[w] = "idle"
        /\ jobs[job[w]] = "running"
        /\ jobs'[job[w]] = "success"
        => remote = wanted[w]
<1>1. RSpec => []TimelyInv
  BY InitTimely, StepTimely, PTL DEF RSpec
<1>2. ASSUME TimelyInv, [RNext]_rvars
      PROVE  Reconciled
  <2> SUFFICES ASSUME lapsed = {}, NEW w \in Workers, kind[w] \in Shapes, at[w] = "finalize",
                      at'[w] = "idle", jobs[job[w]] = "running",
                      jobs'[job[w]] = "success"
               PROVE  remote = wanted[w]
    OBVIOUS
  <2>00. WorkInv
    BY <1>2 DEF TimelyInv
  <2>0. TypeOK /\ Inside(w) /\ job[w] \in Jobs
    BY <2>00 DEF WorkInv, ClaimInv, JobsHeld, Inside
  <2>1. CASE UNCHANGED rvars
    BY <2>1 DEF rvars, claims
  <2>2. CASE Environment
    BY <2>2 DEF Environment, ChangeInventory, ChangeForeign, ChangeScans, ToggleActive, claims
  <2>3. ASSUME NEW j \in Jobs, Lapse(j) PROVE FALSE
    BY <2>3 DEF Lapse
  <2>4. ASSUME NEW v \in Workers, NEW k \in Kinds, Claim(v, k) PROVE FALSE
    <3>1. PICK j \in Jobs : jobs[j] = "unused" /\ jobs' = Claimed(j)
      BY <2>4 DEF Claim
    <3> QED
      BY <2>0, <3>1 DEF Claimed
  <2>5. ASSUME NEW v \in Workers, Work(v) PROVE FALSE
    BY <2>0, <2>5, WorkKeepsClaims
  <2>6. ASSUME NEW v \in Workers, Finalize(v) PROVE remote = wanted[w]
    <3>1. v = w
      BY <2>00, <2>0, <2>6, Alone DEF Finalize, Inside
    <3>2. ~failed[w]
      BY <2>0, <2>6, <3>1 DEF Finalize, Owned, TypeOK
    <3> QED
      BY <2>00, <3>2 DEF WorkInv, LeftToDo
  <2>7. ASSUME NEW v \in Workers, Die(v) PROVE FALSE
    BY <2>7 DEF Die, claims
  <2> QED
    BY <1>2, <2>1, <2>2, <2>3, <2>4, <2>5, <2>6, <2>7 DEF RNext
<1> QED
  BY <1>1, <1>2, PTL DEF RSpec, SuccessMeansReconciled

-----------------------------------------------------------------------------
(* The pipeline implements the reconciliation. *)

LEMMA PipelineInit == PInit => RInit
  BY DEF PInit

\* Every step claims, works, lapses, changes a source, or only moves a request.
LEMMA PipelineStep ==
  ASSUME [PNext]_<<pvars, rough>>
  PROVE  [RNext]_rvars
<1>1. CASE PStep
  <2>1. CASE InventoryChanges \/ ScansChange \/ ForeignChanges \/ ActivationChanges
    BY <2>1 DEF InventoryChanges, ScansChange, ForeignChanges, ActivationChanges, RNext, Environment
  <2>2. CASE RetryKeyExpires
    BY <2>2 DEF RetryKeyExpires
  <2>3. CASE JobLapses
    BY <2>3 DEF JobLapses, RNext
  <2>4. ASSUME NEW s \in Shapes,
               \/ Suppress(s) \/ Admit(s) \/ Enqueue(s) \/ EnqueueFails(s)
               \/ RequestLost(s) \/ WindowExpires(s) \/ RetryDue(s)
        PROVE  UNCHANGED rvars
    BY <2>4 DEF Suppress, Admit, Enqueue, EnqueueFails, RequestLost, WindowExpires, RetryDue
  <2>5. ASSUME NEW w \in Workers, NEW s \in Shapes, Start(w, s) \/ Reject(w, s) \/ Postpone(w, s)
        PROVE  [RNext]_rvars
    <3>1. s \in Kinds
      BY DEF Kinds
    <3> QED
      BY <2>5, <3>1 DEF Start, Reject, Postpone, RNext
  <2>6. ASSUME NEW w \in Workers, Run(w) \/ Working(w)
        PROVE  [RNext]_rvars
    BY <2>6 DEF Run, Working, RNext
  <2> QED
    BY <1>1, <2>1, <2>2, <2>3, <2>4, <2>5, <2>6 DEF PStep
<1>2. CASE UNCHANGED <<pvars, rough>>
  BY <1>2 DEF pvars
<1> QED
  BY <1>1, <1>2 DEF PNext

\* Whatever callbacks, cache keys, tasks and retries do, the claimed runs they lead to are a
\* behaviour of the reconciliation alone.
THEOREM PipelineReconciles == PSpec => RSpec
  BY PipelineInit, PipelineStep, PTL DEF PSpec, RSpec

\* Duplicate dispatches, retries and sweeps never bring two workers into one manufacturer.
THEOREM PipelineWorkIsExclusive == PSpec => []ExclusiveWork
  BY PipelineReconciles, WorkIsExclusive, PTL

-----------------------------------------------------------------------------
(* Requests on their way. *)

\* A request is in one place at a time.
Places ==
  callbacks["inventory"] + callbacks["scan"] + publishing["inventory"] + publishing["scan"]
    + queue["inventory"] + queue["scan"] + delayed["inventory"] + delayed["scan"]

RequestInv ==
  /\ requests \in 0 .. MaxRequests
  /\ callbacks \in [Shapes -> Nat] /\ publishing \in [Shapes -> Nat]
  /\ queue \in [Shapes -> Nat] /\ delayed \in [Shapes -> Nat]
  /\ Places <= requests
  /\ window \in [Shapes -> BOOLEAN]
  /\ young \in Shapes \cup {"none"}
  /\ young # "none" => delayed[young] > 0
  /\ unread \subseteq {"inventory", "scans"}
  /\ rough \in Roughness

LEMMA InitRequests == PInit => RequestInv
  BY MaxRequestsAssumption DEF PInit, RequestInv, Places, Shapes

\* A counter of one shape goes up or down by one.
LEMMA Counting ==
  ASSUME NEW c \in [Shapes -> Nat], NEW s \in Shapes
  PROVE  /\ More(c, s) \in [Shapes -> Nat]
         /\ More(c, s)["inventory"] + More(c, s)["scan"] = c["inventory"] + c["scan"] + 1
         /\ More(c, s)[s] = c[s] + 1
         /\ \A t \in Shapes : t # s => More(c, s)[t] = c[t]
         /\ c[s] > 0 => /\ Less(c, s) \in [Shapes -> Nat]
                        /\ Less(c, s)["inventory"] + Less(c, s)["scan"]
                             = c["inventory"] + c["scan"] - 1
                        /\ Less(c, s)[s] = c[s] - 1
                        /\ \A t \in Shapes : t # s => Less(c, s)[t] = c[t]
  BY DEF More, Less, Shapes

\* What a counter is worth among the places.
Worth(c) == c["inventory"] + c["scan"]

LEMMA PlacesWorth ==
  ASSUME RequestInv
  PROVE  /\ Places = Worth(callbacks) + Worth(publishing) + Worth(queue) + Worth(delayed)
         /\ Worth(callbacks) \in Nat /\ Worth(publishing) \in Nat
         /\ Worth(queue) \in Nat /\ Worth(delayed) \in Nat
         /\ requests \in Nat
  BY MaxRequestsAssumption DEF RequestInv, Places, Worth, Shapes

\* A step keeps the invariant if no place gains more than another loses, or a request is counted.
LEMMA MovesKeep ==
  ASSUME RequestInv,
         callbacks' \in [Shapes -> Nat], publishing' \in [Shapes -> Nat],
         queue' \in [Shapes -> Nat], delayed' \in [Shapes -> Nat],
         requests' \in 0 .. MaxRequests,
         Worth(callbacks') + Worth(publishing') + Worth(queue') + Worth(delayed')
           - (Worth(callbacks) + Worth(publishing) + Worth(queue) + Worth(delayed))
           <= requests' - requests,
         window' \in [Shapes -> BOOLEAN], young' \in Shapes \cup {"none"},
         young' # "none" => delayed'[young'] > 0,
         unread' \subseteq {"inventory", "scans"}, UNCHANGED rough
  PROVE  RequestInv'
<1>1. /\ Places = Worth(callbacks) + Worth(publishing) + Worth(queue) + Worth(delayed)
      /\ Worth(callbacks) \in Nat /\ Worth(publishing) \in Nat
      /\ Worth(queue) \in Nat /\ Worth(delayed) \in Nat /\ requests \in Nat
      /\ Places <= requests
  BY PlacesWorth DEF RequestInv
<1>2. /\ Places' = Worth(callbacks') + Worth(publishing') + Worth(queue') + Worth(delayed')
      /\ Worth(callbacks') \in Nat /\ Worth(publishing') \in Nat
      /\ Worth(queue') \in Nat /\ Worth(delayed') \in Nat
  BY DEF Places, Worth, Shapes
<1>3. requests' \in Nat
  BY MaxRequestsAssumption
<1>4. Places' <= requests'
  BY <1>1, <1>2, <1>3
<1> QED
  BY <1>4 DEF RequestInv

LEMMA RequestsKeep ==
  ASSUME RequestInv, [PNext]_<<pvars, rough>>
  PROVE  RequestInv'
<1>0. /\ callbacks \in [Shapes -> Nat] /\ publishing \in [Shapes -> Nat]
      /\ queue \in [Shapes -> Nat] /\ delayed \in [Shapes -> Nat]
      /\ Worth(callbacks) \in Nat /\ Worth(publishing) \in Nat
      /\ Worth(queue) \in Nat /\ Worth(delayed) \in Nat
      /\ requests \in Nat /\ MaxRequests \in Nat
  BY PlacesWorth, MaxRequestsAssumption DEF RequestInv
<1>1. \A c \in [Shapes -> Nat], s \in Shapes :
        /\ More(c, s) \in [Shapes -> Nat] /\ Worth(More(c, s)) = Worth(c) + 1
        /\ \A t \in Shapes : c[t] > 0 => More(c, s)[t] > 0
        /\ More(c, s)[s] > 0
        /\ c[s] > 0 => Less(c, s) \in [Shapes -> Nat] /\ Worth(Less(c, s)) = Worth(c) - 1
        /\ c[s] > 1 => Less(c, s)[s] > 0
        /\ \A t \in Shapes : t # s /\ c[t] > 0 => Less(c, s)[t] > 0
  <2> SUFFICES ASSUME NEW c \in [Shapes -> Nat], NEW s \in Shapes
               PROVE  /\ More(c, s) \in [Shapes -> Nat] /\ Worth(More(c, s)) = Worth(c) + 1
                      /\ \A t \in Shapes : c[t] > 0 => More(c, s)[t] > 0
                      /\ More(c, s)[s] > 0
                      /\ c[s] > 0 => Less(c, s) \in [Shapes -> Nat] /\ Worth(Less(c, s)) = Worth(c) - 1
                      /\ c[s] > 1 => Less(c, s)[s] > 0
                      /\ \A t \in Shapes : t # s /\ c[t] > 0 => Less(c, s)[t] > 0
    OBVIOUS
  <2>1. \A t \in Shapes : c[t] \in Nat
    OBVIOUS
  <2>2. /\ More(c, s) \in [Shapes -> Nat]
        /\ More(c, s)[s] = c[s] + 1
        /\ \A t \in Shapes : t # s => More(c, s)[t] = c[t]
    BY Counting
  <2>3. ASSUME c[s] > 0
        PROVE  /\ Less(c, s) \in [Shapes -> Nat]
               /\ Less(c, s)[s] = c[s] - 1
               /\ \A t \in Shapes : t # s => Less(c, s)[t] = c[t]
    BY <2>3, Counting
  <2>5. "inventory" \in Shapes /\ "scan" \in Shapes /\ "inventory" # "scan"
    BY DEF Shapes
  <2>6. Worth(More(c, s)) = Worth(c) + 1
    BY Counting DEF Worth
  <2>7. c[s] > 0 => Worth(Less(c, s)) = Worth(c) - 1
    <3> SUFFICES ASSUME c[s] > 0 PROVE Worth(Less(c, s)) = Worth(c) - 1
      OBVIOUS
    <3>1. CASE s = "inventory"
      BY <3>1, <2>1, <2>3, <2>5 DEF Worth
    <3>2. CASE s = "scan"
      BY <3>2, <2>1, <2>3, <2>5 DEF Worth
    <3> QED
      BY <3>1, <3>2 DEF Shapes
  <2>8. \A t \in Shapes : c[t] > 0 => More(c, s)[t] > 0
    BY <2>1, <2>2
  <2>9. More(c, s)[s] > 0
    BY <2>1, <2>2
  <2>10. c[s] > 1 => Less(c, s)[s] > 0
    <3> SUFFICES ASSUME c[s] > 1 PROVE Less(c, s)[s] > 0
      OBVIOUS
    <3>1. c[s] \in Nat /\ c[s] > 0
      BY <2>1
    <3> QED
      BY <3>1, <2>3
  <2>11. \A t \in Shapes : t # s /\ c[t] > 0 /\ c[s] > 0 => Less(c, s)[t] > 0
    BY <2>1, <2>3
  <2>12. \A t \in Shapes : t # s /\ c[t] > 0 => Less(c, s)[t] > 0
    BY <2>1 DEF Less
  <2> QED
    BY <2>2, <2>3, <2>6, <2>7, <2>8, <2>9, <2>10, <2>12
<1> USE DEF transit, tasks, pvars
<1>2. ASSUME UNCHANGED <<callbacks, publishing, queue, delayed, young, rough>>,
             requests' \in {requests, requests + 1}, requests' \in 0 .. MaxRequests,
             window' \in [Shapes -> BOOLEAN], unread' \subseteq {"inventory", "scans"}
      PROVE  RequestInv'
  <2>1. /\ callbacks' \in [Shapes -> Nat] /\ publishing' \in [Shapes -> Nat]
        /\ queue' \in [Shapes -> Nat] /\ delayed' \in [Shapes -> Nat]
        /\ young' \in Shapes \cup {"none"} /\ (young' # "none" => delayed'[young'] > 0)
    BY <1>2 DEF RequestInv
  <2>2. Worth(callbacks') + Worth(publishing') + Worth(queue') + Worth(delayed')
           - (Worth(callbacks) + Worth(publishing) + Worth(queue) + Worth(delayed))
           <= requests' - requests
    BY <1>0, <1>2
  <2> QED
    BY <1>2, <2>1, <2>2, MovesKeep
<1>3. ASSUME NEW s \in Shapes, requests' = requests + 1, requests < MaxRequests,
             callbacks' = More(callbacks, s),
             unread' \subseteq {"inventory", "scans"},
             UNCHANGED <<window, publishing, queue, delayed, young, rough>>
      PROVE  RequestInv'
  <2>1. /\ callbacks' \in [Shapes -> Nat] /\ Worth(callbacks') = Worth(callbacks) + 1
        /\ requests' \in 0 .. MaxRequests
    BY <1>0, <1>1, <1>3
  <2>2. Worth(callbacks') + Worth(publishing') + Worth(queue') + Worth(delayed')
           - (Worth(callbacks) + Worth(publishing) + Worth(queue) + Worth(delayed))
           <= requests' - requests
    BY <1>0, <1>3, <2>1
  <2> QED
    BY <1>0, <1>3, <2>1, <2>2, MovesKeep DEF RequestInv
<1>4. /\ "inventory" \in Shapes /\ "scan" \in Shapes
      /\ \A s \in Shapes : callbacks[s] \in Nat /\ publishing[s] \in Nat
                           /\ queue[s] \in Nat /\ delayed[s] \in Nat
      /\ window \in [Shapes -> BOOLEAN] /\ unread \subseteq {"inventory", "scans"}
      /\ young \in Shapes \cup {"none"} /\ (young # "none" => delayed[young] > 0)
      /\ requests \in 0 .. MaxRequests
  BY <1>0 DEF RequestInv, Shapes
<1>5. ASSUME UNCHANGED <<requests, young, delayed, unread, rough>>,
             window' \in [Shapes -> BOOLEAN],
             callbacks' \in [Shapes -> Nat], publishing' \in [Shapes -> Nat],
             queue' \in [Shapes -> Nat],
             Worth(callbacks') + Worth(publishing') + Worth(queue')
               <= Worth(callbacks) + Worth(publishing) + Worth(queue)
      PROVE  RequestInv'
  <2>1. Worth(callbacks') + Worth(publishing') + Worth(queue') + Worth(delayed')
           - (Worth(callbacks) + Worth(publishing) + Worth(queue) + Worth(delayed))
           <= requests' - requests
    <3>1. /\ Worth(callbacks') \in Nat /\ Worth(publishing') \in Nat /\ Worth(queue') \in Nat
          /\ Worth(delayed') = Worth(delayed) /\ requests' = requests
      BY <1>5, <1>4 DEF Worth
    <3> QED
      BY <1>0, <1>5, <3>1
  <2> QED
    BY <1>4, <1>5, <2>1, <1>0, MovesKeep
<1>6. ASSUME UNCHANGED rough, InventoryChanges \/ ScansChange \/ ForeignChanges \/ ActivationChanges
      PROVE  RequestInv'
  <2>1. CASE InventoryChanges
    <3>1. /\ requests' = requests + 1 /\ requests < MaxRequests
          /\ callbacks' = More(callbacks, "inventory")
          /\ unread' \subseteq {"inventory", "scans"}
          /\ UNCHANGED <<window, publishing, queue, delayed, young, rough>>
      BY <1>4, <1>6, <2>1 DEF InventoryChanges, Counted
    <3> QED
      BY <1>3, <1>4, <3>1
  <2>2. CASE ScansChange
    <3>1. /\ requests' = requests + 1 /\ requests < MaxRequests
          /\ callbacks' = More(callbacks, "scan")
          /\ unread' \subseteq {"inventory", "scans"}
          /\ UNCHANGED <<window, publishing, queue, delayed, young, rough>>
      BY <1>4, <1>6, <2>2 DEF ScansChange, Counted
    <3> QED
      BY <1>3, <1>4, <3>1
  <2>3. CASE ForeignChanges
    <3>1. /\ requests' = requests + 1 /\ requests' \in 0 .. MaxRequests
          /\ UNCHANGED <<callbacks, window, publishing, queue, delayed, young, unread, rough>>
      BY <1>0, <1>4, <1>6, <2>3 DEF ForeignChanges, Counted
    <3> QED
      BY <1>2, <1>4, <3>1
  <2>4. CASE ActivationChanges
    <3>1. CASE active
      <4>1. /\ requests' = requests + 1 /\ requests' \in 0 .. MaxRequests
            /\ UNCHANGED <<callbacks, window, publishing, queue, delayed, young, unread, rough>>
        BY <1>0, <1>4, <1>6, <2>4, <3>1 DEF ActivationChanges, Counted
      <4> QED
        BY <1>2, <1>4, <4>1
    <3>2. CASE ~active
      <4>1. /\ requests' = requests + 1 /\ requests < MaxRequests
            /\ callbacks' = More(callbacks, "inventory")
            /\ unread' \subseteq {"inventory", "scans"}
            /\ UNCHANGED <<window, publishing, queue, delayed, young, rough>>
        BY <1>4, <1>6, <2>4, <3>2 DEF ActivationChanges, Counted
      <4> QED
        BY <1>3, <1>4, <4>1
    <3> QED
      BY <3>1, <3>2
  <2> QED
    BY <1>6, <2>1, <2>2, <2>3, <2>4
<1>7. ASSUME UNCHANGED rough, NEW s \in Shapes,
             Suppress(s) \/ Admit(s) \/ Enqueue(s) \/ EnqueueFails(s) \/ RequestLost(s)
               \/ WindowExpires(s) \/ RetryDue(s)
      PROVE  RequestInv'
  <2>1. CASE Suppress(s)
    BY <1>0, <1>1, <1>4, <1>5, <1>7, <2>1 DEF Suppress
  <2>2. CASE Admit(s)
    <3>1. /\ callbacks' \in [Shapes -> Nat] /\ Worth(callbacks') = Worth(callbacks) - 1
          /\ publishing' \in [Shapes -> Nat] /\ Worth(publishing') = Worth(publishing) + 1
          /\ window' \in [Shapes -> BOOLEAN]
          /\ UNCHANGED <<requests, queue, delayed, young, unread, rough>>
      BY <1>0, <1>1, <1>4, <1>7, <2>2 DEF Admit
    <3> QED
      BY <1>0, <1>5, <3>1
  <2>3. CASE Enqueue(s)
    BY <1>0, <1>1, <1>4, <1>5, <1>7, <2>3 DEF Enqueue
  <2>4. CASE EnqueueFails(s)
    <3>1. /\ publishing' \in [Shapes -> Nat] /\ Worth(publishing') = Worth(publishing) - 1
          /\ window' \in [Shapes -> BOOLEAN]
          /\ UNCHANGED <<requests, callbacks, queue, delayed, young, unread, rough>>
      BY <1>0, <1>1, <1>4, <1>7, <2>4 DEF EnqueueFails
    <3> QED
      BY <1>0, <1>5, <3>1
  <2>5. CASE RequestLost(s)
    BY <1>0, <1>1, <1>4, <1>5, <1>7, <2>5 DEF RequestLost
  <2>6. CASE WindowExpires(s)
    BY <1>2, <1>4, <1>7, <2>6 DEF WindowExpires
  <2>7. CASE RetryDue(s)
    <3>1. delayed[s] > 0 /\ (young = s => delayed[s] > 1)
      BY <1>4, <2>7 DEF RetryDue
    <3>2. /\ delayed' \in [Shapes -> Nat] /\ Worth(delayed') = Worth(delayed) - 1
          /\ queue' \in [Shapes -> Nat] /\ Worth(queue') = Worth(queue) + 1
          /\ UNCHANGED <<requests, callbacks, window, publishing, young, unread, rough>>
      BY <1>0, <1>1, <1>7, <2>7, <3>1 DEF RetryDue
    <3>3. young' # "none" => delayed'[young'] > 0
      BY <1>0, <1>1, <1>4, <2>7, <3>1, <3>2 DEF RetryDue
    <3>4. Worth(callbacks') + Worth(publishing') + Worth(queue') + Worth(delayed')
           - (Worth(callbacks) + Worth(publishing) + Worth(queue) + Worth(delayed))
           <= requests' - requests
      BY <1>0, <3>2
    <3> QED
      BY <1>0, <1>4, <3>2, <3>3, <3>4, MovesKeep
  <2> QED
    BY <1>7, <2>1, <2>2, <2>3, <2>4, <2>5, <2>6, <2>7
<1>8. ASSUME UNCHANGED rough, NEW w \in Workers, NEW s \in Shapes,
             Start(w, s) \/ Reject(w, s) \/ Postpone(w, s)
      PROVE  RequestInv'
  <2>1. CASE Start(w, s) \/ Reject(w, s)
    BY <1>0, <1>1, <1>4, <1>5, <1>8, <2>1 DEF Start, Reject
  <2>2. CASE Postpone(w, s)
    <3>1. /\ queue' \in [Shapes -> Nat] /\ Worth(queue') = Worth(queue) - 1
          /\ UNCHANGED <<requests, callbacks, window, publishing, unread, rough>>
      BY <1>0, <1>1, <1>4, <1>8, <2>2 DEF Postpone
    <3>2. CASE young = "none" /\ young' = s /\ delayed' = More(delayed, s)
      <4>1. /\ delayed' \in [Shapes -> Nat] /\ Worth(delayed') = Worth(delayed) + 1
            /\ delayed'[young'] > 0
        BY <1>0, <1>1, <3>2
      <4>2. Worth(callbacks') + Worth(publishing') + Worth(queue') + Worth(delayed')
             - (Worth(callbacks) + Worth(publishing) + Worth(queue) + Worth(delayed))
             <= requests' - requests
        BY <1>0, <3>1, <4>1
      <4> QED
        BY <1>0, <1>4, <3>1, <3>2, <4>1, <4>2, MovesKeep
    <3>3. CASE UNCHANGED <<delayed, young>>
      BY <1>0, <1>4, <1>5, <3>1, <3>3
    <3> QED
      BY <2>2, <3>2, <3>3 DEF Postpone
  <2> QED
    BY <1>8, <2>1, <2>2
<1>9. ASSUME UNCHANGED rough, RetryKeyExpires
      PROVE  RequestInv'
  BY <1>9 DEF RetryKeyExpires, RequestInv, Places
<1>10. ASSUME UNCHANGED rough, NEW w \in Workers, Run(w) \/ Working(w)
       PROVE  RequestInv'
  <2>1. UNCHANGED <<callbacks, window, publishing, queue, delayed, young, rough>>
    BY <1>10 DEF Run, Working
  <2>2. unread' \subseteq {"inventory", "scans"}
    BY <1>4, <1>10 DEF Run, Working
  <2>3. requests' \in {requests, requests + 1} /\ requests' \in 0 .. MaxRequests
    BY <1>0, <1>4, <1>10 DEF Run, Working, Counted
  <2> QED
    BY <1>2, <1>4, <2>1, <2>2, <2>3
<1>11. ASSUME UNCHANGED rough, JobLapses
       PROVE  RequestInv'
  BY <1>2, <1>4, <1>11 DEF JobLapses
<1>12. ASSUME UNCHANGED <<pvars, rough>>
       PROVE  RequestInv'
  BY <1>12 DEF RequestInv, Places, transit
<1>13. CASE PStep /\ UNCHANGED rough
  BY <1>6, <1>7, <1>8, <1>9, <1>10, <1>11, <1>13 DEF PStep
<1> QED
  BY <1>12, <1>13 DEF PNext

LEMMA RequestsBounded ==
  ASSUME RequestInv
  PROVE  /\ callbacks \in Counts /\ publishing \in Counts
         /\ queue \in Counts /\ delayed \in Counts
<1>1. /\ \A s \in Shapes : callbacks[s] \in Nat /\ publishing[s] \in Nat
                           /\ queue[s] \in Nat /\ delayed[s] \in Nat
      /\ Places <= requests /\ requests \in Nat /\ requests <= MaxRequests
  BY MaxRequestsAssumption DEF RequestInv
<1>2. "inventory" \in Shapes /\ "scan" \in Shapes
      /\ \A s \in Shapes : s = "inventory" \/ s = "scan"
  BY DEF Shapes
<1>3. /\ callbacks["inventory"] <= MaxRequests /\ callbacks["scan"] <= MaxRequests
      /\ publishing["inventory"] <= MaxRequests /\ publishing["scan"] <= MaxRequests
      /\ queue["inventory"] <= MaxRequests /\ queue["scan"] <= MaxRequests
      /\ delayed["inventory"] <= MaxRequests /\ delayed["scan"] <= MaxRequests
  BY <1>1, <1>2, MaxRequestsAssumption DEF Places
<1>4. \A s \in Shapes : /\ callbacks[s] \in 0 .. MaxRequests
                        /\ publishing[s] \in 0 .. MaxRequests
                        /\ queue[s] \in 0 .. MaxRequests
                        /\ delayed[s] \in 0 .. MaxRequests
  BY <1>1, <1>2, <1>3, MaxRequestsAssumption
<1> QED
  BY <1>4 DEF RequestInv, Counts

(* While the retry key suppresses the other busy tasks, the delayed task it  *)
(* stands for has not run yet.                                               *)
THEOREM RetryKeyStands == PSpec => []RetryKeyMeansRetry
<1>1. RequestInv => RetryKeyMeansRetry
  BY DEF RequestInv, RetryKeyMeansRetry
<1> QED
  BY <1>1, InitRequests, RequestsKeep, PTL DEF PSpec

(* No sequence of changes, losses, retries and expiries makes a request be   *)
(* in two places, or the queue hold more tasks than were asked for.          *)
THEOREM PipelineTypes == PSpec => []PipelineTypeOK
<1>1. RequestInv /\ TypeOK => PipelineTypeOK
  BY RequestsBounded DEF RequestInv, PipelineTypeOK
<1> QED
  BY <1>1, InitRequests, RequestsKeep, PipelineReconciles, TypeCorrect, PTL DEF PSpec

------------------------------------------------------------------------------
(***************************************************************************)
(* No change is forgotten.  In a calm behaviour whose workflows raise no   *)
(* error, a change that no run has read yet is on its way: a callback, a   *)
(* dispatch, a task or a delayed task will lead to a run, or a worker that *)
(* has not come to the source is inside.  This is the part of              *)
(* EveryChangeRead that does not depend on fairness.                       *)
(***************************************************************************)

OnItsWay(s) == callbacks[s] > 0 \/ publishing[s] > 0 \/ queue[s] > 0 \/ delayed[s] > 0

\* A callback finds no dispatch key, and there is never more than one of a shape.
Uncoalesced == \A s \in Shapes : callbacks[s] <= 1 /\ (callbacks[s] > 0 => ~window[s])

\* Whatever the shape of a request, its run reads the inventory.
InventoryCarried ==
  \/ \E s \in Shapes : OnItsWay(s)
  \/ \E w \in Workers : at[w] \in {"check", "read"}

\* Only a request with the scan flags leads to a run that reads the scan sources.
ScansCarried ==
  \/ OnItsWay("scan")
  \/ \E w \in Workers : kind[w] = "scan" /\ at[w] \in {"check", "read", "scan"}

LEMMA CountsAreNumbers ==
  ASSUME RequestInv, NEW s \in Shapes
  PROVE  /\ callbacks[s] \in Nat /\ publishing[s] \in Nat
         /\ queue[s] \in Nat /\ delayed[s] \in Nat /\ window[s] \in BOOLEAN
BY DEF RequestInv

(* A counter that goes up or down, seen from any shape.                        *)
LEMMA CountedOne ==
  ASSUME NEW c \in [Shapes -> Nat], NEW s \in Shapes, NEW t \in Shapes
  PROVE  /\ c[t] \in Nat
         /\ More(c, s)[t] = IF t = s THEN c[t] + 1 ELSE c[t]
         /\ Less(c, s)[t] = IF t = s THEN c[t] - 1 ELSE c[t]
BY DEF More, Less

(* On its way to the queue a request of a calm behaviour is handed on, never   *)
(* dropped: no key suppresses it and no delayed task goes without its retry.   *)
LEMMA HandedOn ==
  ASSUME RequestInv, Uncoalesced, ~rough, NEW s \in Shapes,
         \/ Suppress(s) \/ Admit(s) \/ Enqueue(s) \/ EnqueueFails(s)
         \/ RequestLost(s) \/ WindowExpires(s) \/ RetryDue(s)
  PROVE  /\ UNCHANGED <<rvars, unread>>
         /\ Uncoalesced'
         /\ \A t \in Shapes : OnItsWay(t)' <=> OnItsWay(t)
<1> USE DEF transit, tasks
<1>0. /\ callbacks \in [Shapes -> Nat] /\ publishing \in [Shapes -> Nat]
      /\ queue \in [Shapes -> Nat] /\ delayed \in [Shapes -> Nat]
      /\ window \in [Shapes -> BOOLEAN]
  BY DEF RequestInv
<1>1. ~Suppress(s) /\ ~EnqueueFails(s) /\ ~RequestLost(s)
  BY DEF Suppress, EnqueueFails, RequestLost, Happens, Uncoalesced
<1>2. CASE Admit(s)
  <2>1. /\ callbacks' = Less(callbacks, s) /\ publishing' = More(publishing, s)
        /\ window' = [window EXCEPT ![s] = TRUE]
        /\ callbacks[s] > 0 /\ callbacks[s] <= 1
        /\ UNCHANGED <<rvars, queue, delayed, unread>>
    BY <1>2 DEF Admit, Happens, Uncoalesced
  <2>2. ASSUME NEW t \in Shapes
        PROVE  /\ callbacks'[t] <= 1 /\ (callbacks'[t] > 0 => ~window'[t])
               /\ OnItsWay(t)' <=> OnItsWay(t)
    <3>1. /\ callbacks[t] \in Nat /\ publishing[t] \in Nat
          /\ callbacks'[t] = IF t = s THEN callbacks[t] - 1 ELSE callbacks[t]
          /\ publishing'[t] = IF t = s THEN publishing[t] + 1 ELSE publishing[t]
          /\ callbacks[t] <= 1 /\ (callbacks[t] > 0 => ~window[t])
      BY <1>0, <2>1, CountedOne DEF Uncoalesced
    <3>2. t # s => window'[t] = window[t]
      BY <1>0, <2>1
    <3> QED BY <2>1, <3>1, <3>2 DEF OnItsWay
  <2> QED BY <2>1, <2>2 DEF Uncoalesced
<1>3. CASE Enqueue(s)
  <2>1. /\ publishing' = Less(publishing, s) /\ queue' = More(queue, s)
        /\ publishing[s] > 0
        /\ UNCHANGED <<rvars, callbacks, window, delayed, unread>>
    BY <1>3 DEF Enqueue
  <2>2. ASSUME NEW t \in Shapes PROVE OnItsWay(t)' <=> OnItsWay(t)
    <3>1. /\ publishing[t] \in Nat /\ queue[t] \in Nat
          /\ publishing'[t] = IF t = s THEN publishing[t] - 1 ELSE publishing[t]
          /\ queue'[t] = IF t = s THEN queue[t] + 1 ELSE queue[t]
      BY <1>0, <2>1, CountedOne
    <3> QED BY <2>1, <3>1 DEF OnItsWay
  <2> QED BY <2>1, <2>2 DEF Uncoalesced
<1>4. CASE WindowExpires(s)
  <2>1. /\ window' = [window EXCEPT ![s] = FALSE]
        /\ UNCHANGED <<rvars, callbacks, publishing, queue, delayed, unread>>
    BY <1>4 DEF WindowExpires
  <2>2. \A t \in Shapes : ~window[t] => ~window'[t]
    BY <1>0, <2>1
  <2> QED BY <2>1, <2>2 DEF Uncoalesced, OnItsWay
<1>5. CASE RetryDue(s)
  <2>1. /\ delayed' = Less(delayed, s) /\ queue' = More(queue, s)
        /\ UNCHANGED <<rvars, callbacks, window, publishing, unread>>
        /\ delayed[s] > 0
    BY <1>0, <1>5 DEF RetryDue
  <2>2. ASSUME NEW t \in Shapes PROVE OnItsWay(t)' <=> OnItsWay(t)
    <3>1. /\ delayed[t] \in Nat /\ queue[t] \in Nat
          /\ delayed'[t] = IF t = s THEN delayed[t] - 1 ELSE delayed[t]
          /\ queue'[t] = IF t = s THEN queue[t] + 1 ELSE queue[t]
      BY <1>0, <2>1, CountedOne
    <3> QED BY <2>1, <3>1 DEF OnItsWay
  <2> QED BY <2>1, <2>2 DEF Uncoalesced
<1> QED BY <1>1, <1>2, <1>3, <1>4, <1>5

(* A task of an active manufacturer becomes a run of its shape, or a delayed   *)
(* task, or ends because another delayed task is still to come.                *)
LEMMA TaskHandedOn ==
  ASSUME RequestInv, TypeOK, Uncoalesced, ~rough, active, NEW w \in Workers, NEW s \in Shapes,
         Start(w, s) \/ Reject(w, s) \/ Postpone(w, s)
  PROVE  /\ UNCHANGED <<active, unread>>
         /\ Uncoalesced'
         /\ \A v \in Workers : at[v] # "idle" => at'[v] = at[v] /\ kind'[v] = kind[v]
         /\ \A t \in Shapes \ {s} : OnItsWay(t)' <=> OnItsWay(t)
         /\ OnItsWay(s)
         /\ \/ OnItsWay(s)'
            \/ at'[w] = "check" /\ kind'[w] = s
            \/ \E t \in Shapes \ {s} : OnItsWay(t)'
<1> USE DEF transit, tasks, TypeOK
<1>0. /\ callbacks \in [Shapes -> Nat] /\ publishing \in [Shapes -> Nat]
      /\ queue \in [Shapes -> Nat] /\ delayed \in [Shapes -> Nat]
      /\ young \in Shapes \cup {"none"} /\ (young # "none" => delayed[young] > 0)
  BY DEF RequestInv
<1>1. ~Reject(w, s)
  BY DEF Reject
<1>2. /\ queue[s] > 0 /\ queue' = Less(queue, s)
      /\ UNCHANGED <<callbacks, window, publishing, unread, active>>
  BY <1>1 DEF Start, Postpone, Claim, sources, rvars
<1>3. Uncoalesced' /\ OnItsWay(s)
  BY <1>2 DEF Uncoalesced, OnItsWay
<1>4. \A t \in Shapes \ {s} : queue'[t] = queue[t]
  BY <1>0, <1>2, CountedOne
<1>5. CASE Start(w, s)
  <2>1. /\ at[w] = "idle" /\ at' = [at EXCEPT ![w] = "check"] /\ kind' = [kind EXCEPT ![w] = s]
        /\ UNCHANGED delayed
    BY <1>5 DEF Start, Claim
  <2> QED BY <1>2, <1>3, <1>4, <2>1 DEF OnItsWay
<1>6. CASE Postpone(w, s)
  <2>1. UNCHANGED <<at, kind>>
    BY <1>6 DEF Postpone, rvars, work
  <2>2. CASE young = "none" /\ delayed' = More(delayed, s)
    <3>1. delayed'[s] > 0
      BY <1>0, <2>2, CountedOne
    <3>2. \A t \in Shapes \ {s} : delayed'[t] = delayed[t]
      BY <1>0, <2>2, CountedOne
    <3> QED BY <1>2, <1>3, <1>4, <2>1, <3>1, <3>2 DEF OnItsWay
  <2>3. CASE young # "none" /\ UNCHANGED delayed
    <3>1. young \in Shapes /\ delayed'[young] > 0
      BY <1>0, <2>3
    <3>2. \E t \in Shapes : OnItsWay(t)'
      BY <3>1 DEF OnItsWay
    <3> QED BY <1>2, <1>3, <1>4, <2>1, <2>3, <3>2 DEF OnItsWay
  <2> QED BY <1>6, <2>2, <2>3 DEF Postpone, Happens
<1> QED BY <1>1, <1>5, <1>6

(* A worker inside an active manufacturer comes to its sources, unless its     *)
(* workflow raises, and when it has read one the changes of that one are read. *)
LEMMA WorkerComes ==
  ASSUME TypeOK, "error" \notin Faults, ~rough, active, NEW w \in Workers, Working(w)
  PROVE  /\ UNCHANGED <<active, transit, tasks>>
         /\ \A v \in Workers \ {w} : at'[v] = at[v] /\ kind'[v] = kind[v]
         /\ unread' \subseteq unread
         /\ at[w] = "check" => at'[w] = "read" /\ kind'[w] = kind[w]
         /\ at[w] = "read" => /\ at'[w] = "scan" /\ kind'[w] = kind[w]
                              /\ "inventory" \notin unread'
         /\ at[w] = "scan" /\ kind[w] = "scan" => "scans" \notin unread'
<1> USE DEF TypeOK, Goes, sources, Stages
<1>1. /\ Work(w) \/ Finalize(w)
      /\ unread' \subseteq unread /\ UNCHANGED <<transit, tasks>>
  BY DEF Working
<1>2. CASE Finalize(w)
  BY <1>1, <1>2 DEF Finalize, Leaves
<1>3. CASE Check(w)
  BY <1>1, <1>3 DEF Check
<1>4. CASE Read(w)
  <2>1. at[w] = "read" /\ at' = [at EXCEPT ![w] = "scan"] /\ UNCHANGED <<active, kind>>
    BY <1>4 DEF Read
  <2>2. unread' = unread \ {"inventory"}
    BY <2>1 DEF Working
  <2> QED BY <1>1, <2>1, <2>2
<1>5. CASE Scan(w)
  <2>1. at[w] = "scan" /\ at' = [at EXCEPT ![w] = "compare"] /\ UNCHANGED <<active, kind>>
    BY <1>5 DEF Scan
  <2>2. kind[w] = "scan" => unread' = unread \ {"scans"}
    BY <2>1 DEF Working
  <2> QED BY <1>1, <2>1, <2>2
<1>6. CASE Compare(w) \/ Submit(w) \/ Get(w) \/ Put(w) \/ Prune(w) \/ Poll(w)
  <2>1. /\ at[w] \in {"compare", "get", "put", "prune", "poll"}
        /\ \E stage \in Stages : at' = [at EXCEPT ![w] = stage]
        /\ UNCHANGED <<active, kind>>
    <3>1. CASE Compare(w)
      BY <3>1 DEF Compare
    <3>2. CASE Submit(w)
      BY <3>2 DEF Submit
    <3>3. CASE Get(w)
      <4>1. at[w] = "get" /\ at' = [at EXCEPT ![w] = "put"] /\ sources' = sources /\ kind' = kind
        BY <3>3, Zenon DEF Get
      <4> QED BY <4>1
    <3>4. CASE Put(w)
      BY <3>4 DEF Put
    <3>5. CASE Prune(w)
      BY <3>5 DEF Prune
    <3>6. CASE Poll(w)
      BY <3>6 DEF Poll
    <3> QED BY <1>6, <3>1, <3>2, <3>3, <3>4, <3>5, <3>6
  <2> QED BY <1>1, <2>1
<1>7. ~Raise(w)
  BY DEF Raise
<1> QED BY <1>1, <1>2, <1>3, <1>4, <1>5, <1>6, <1>7 DEF Work

\* No worker changes what the operators and the polls change.
LEMMA WorkLeavesSources ==
  ASSUME NEW w \in Workers, Working(w)
  PROVE  UNCHANGED sources
<1>1. Work(w) \/ Finalize(w) \/ Die(w)
  BY DEF Working
<1>2. CASE Check(w) \/ Read(w) \/ Scan(w) \/ Put(w) \/ Prune(w) \/ Poll(w) \/ Raise(w)
  BY <1>2 DEF Check, Read, Scan, Put, Prune, Poll, Raise
<1>5. CASE Get(w)
  BY <1>5, Zenon DEF Get
<1>3. CASE Compare(w)
  BY <1>3 DEF Compare
<1>4. CASE Submit(w) \/ Finalize(w) \/ Die(w)
  BY <1>4 DEF Submit, Finalize, Die
<1> QED
  BY <1>1, <1>2, <1>3, <1>4, <1>5 DEF Work

CarryInv ==
  ~rough => /\ Uncoalesced
            /\ active /\ "inventory" \in unread => InventoryCarried

\* A request that joins the callbacks is the only one of its shape and finds no key.
LEMMA Joins ==
  ASSUME RequestInv, Uncoalesced, ~rough, NEW s \in Shapes, Apart(s),
         callbacks' = More(callbacks, s), UNCHANGED window
  PROVE  Uncoalesced' /\ callbacks'[s] > 0
<1>1. callbacks \in [Shapes -> Nat]
  BY DEF RequestInv
<1>2. \A t \in Shapes : callbacks'[t] = IF t = s THEN callbacks[t] + 1 ELSE callbacks[t]
  BY <1>1, CountedOne
<1>3. ~window[s] /\ callbacks[s] = 0
  BY DEF Apart
<1>4. callbacks'[s] = 1
  BY <1>2, <1>3
<1> QED BY <1>2, <1>3, <1>4 DEF Uncoalesced

LEMMA CarryStep ==
  ASSUME RequestInv, TypeOK, "error" \notin Faults, CarryInv, [PNext]_<<pvars, rough>>
  PROVE  CarryInv'
<1> USE DEF transit, tasks
<1>0. UNCHANGED rough
  BY DEF PNext
<1> SUFFICES ASSUME ~rough
             PROVE  /\ Uncoalesced'
                    /\ active' /\ "inventory" \in unread' => InventoryCarried'
  BY <1>0 DEF CarryInv
<1>1. Uncoalesced /\ (active /\ "inventory" \in unread => InventoryCarried)
  BY DEF CarryInv
<1>2. "inventory" \in Shapes /\ "scan" \in Shapes
  BY DEF Shapes
<1>3. CASE InventoryChanges \/ ScansChange \/ (ActivationChanges /\ ~active)
  <2>1. PICK s \in Shapes : Apart(s) /\ callbacks' = More(callbacks, s) /\ UNCHANGED window
    BY <1>2, <1>3 DEF InventoryChanges, ScansChange, ActivationChanges
  <2>2. Uncoalesced' /\ callbacks'[s] > 0
    BY <1>1, <2>1, Joins
  <2> QED BY <2>2 DEF InventoryCarried, OnItsWay
<1>4. CASE ActivationChanges /\ active
  <2>1. active' = FALSE /\ UNCHANGED <<callbacks, window>>
    BY <1>4 DEF ActivationChanges, ToggleActive
  <2> QED BY <1>1, <2>1 DEF Uncoalesced
<1>5. CASE ForeignChanges
  BY <1>5 DEF ForeignChanges
<1>6. CASE RetryKeyExpires \/ JobLapses \/ UNCHANGED <<pvars, rough>>
  <2>1. UNCHANGED <<transit, queue, delayed, unread, active, at>>
    BY <1>6 DEF RetryKeyExpires, JobLapses, Lapse, pvars, rvars, sources, work
  <2> QED BY <1>1, <2>1 DEF Uncoalesced, InventoryCarried, OnItsWay
<1>7. ASSUME NEW s \in Shapes,
             \/ Suppress(s) \/ Admit(s) \/ Enqueue(s) \/ EnqueueFails(s)
             \/ RequestLost(s) \/ WindowExpires(s) \/ RetryDue(s)
      PROVE  Uncoalesced' /\ (active' /\ "inventory" \in unread' => InventoryCarried')
  <2>1. /\ UNCHANGED <<rvars, unread>> /\ Uncoalesced'
        /\ \A t \in Shapes : OnItsWay(t)' <=> OnItsWay(t)
    BY <1>1, <1>7, HandedOn
  <2>2. UNCHANGED <<active, at>>
    BY <2>1 DEF rvars, sources
  <2> QED BY <1>1, <2>1, <2>2 DEF InventoryCarried
<1>8. ASSUME NEW w \in Workers, NEW s \in Shapes, Start(w, s) \/ Reject(w, s) \/ Postpone(w, s)
      PROVE  Uncoalesced' /\ (active' /\ "inventory" \in unread' => InventoryCarried')
  <2>1. CASE active
    <3>1. /\ Uncoalesced'
          /\ (\E t \in Shapes : OnItsWay(t)') \/ at'[w] = "check"
      BY <1>1, <1>8, <2>1, TaskHandedOn
    <3> QED BY <3>1 DEF InventoryCarried
  <2>2. CASE ~active
    <3>1. UNCHANGED <<active, callbacks, window>>
      BY <1>8, <2>2 DEF Start, Reject, Postpone, Claim, rvars, sources
    <3> QED BY <1>1, <2>2, <3>1 DEF Uncoalesced
  <2> QED BY <2>1, <2>2
<1>9. ASSUME NEW w \in Workers, Run(w)
      PROVE  Uncoalesced' /\ (active' /\ "inventory" \in unread' => InventoryCarried')
  <2>1. /\ UNCHANGED <<transit, queue, delayed, unread, active>>
        /\ at' = [at EXCEPT ![w] = "check"]
    BY <1>9 DEF Run, Claim, sources
  <2>2. at'[w] = "check"
    BY <2>1 DEF TypeOK
  <2> QED BY <1>1, <2>1, <2>2 DEF Uncoalesced, InventoryCarried
<1>10. ASSUME NEW w \in Workers, Working(w)
       PROVE  Uncoalesced' /\ (active' /\ "inventory" \in unread' => InventoryCarried')
  <2>1. UNCHANGED <<transit, tasks, active>>
    BY <1>10, WorkLeavesSources DEF Working, sources
  <2>2. CASE active
    <3>1. /\ \A v \in Workers \ {w} : at'[v] = at[v]
          /\ unread' \subseteq unread
          /\ at[w] = "check" => at'[w] = "read"
          /\ at[w] = "read" => "inventory" \notin unread'
      BY <1>10, <2>2, WorkerComes
    <3> QED BY <1>1, <2>1, <2>2, <3>1 DEF Uncoalesced, InventoryCarried, OnItsWay
  <2> QED BY <1>1, <2>1, <2>2 DEF Uncoalesced
<1> QED
  BY <1>3, <1>4, <1>5, <1>6, <1>7, <1>8, <1>9, <1>10 DEF PNext, PStep

(* While the changes of a manufacturer stay apart and nothing fails, one that  *)
(* no run has read is on its way to one, however its request, those of other   *)
(* changes, the operators' runs and the sweeps overlap: "one deduplicated      *)
(* manufacturer reconciliation after commit" forgets none.                     *)
THEOREM ChangesAreCarried ==
  ASSUME "error" \notin Faults
  PROVE  PSpec => [](~rough /\ active /\ "inventory" \in unread => InventoryCarried)
<1>1. PInit => CarryInv
  BY DEF PInit, CarryInv, Uncoalesced
<1>2. CarryInv => (~rough /\ active /\ "inventory" \in unread => InventoryCarried)
  BY DEF CarryInv
<1>3. RequestInv /\ TypeOK /\ CarryInv /\ [PNext]_<<pvars, rough>> => CarryInv'
  BY CarryStep
<1> QED
  BY <1>1, <1>2, <1>3, InitRequests, RequestsKeep, PipelineReconciles, TypeCorrect, PTL DEF PSpec

\* Where only the scan sources change, every request asks for them.
ScanInv ==
  ~rough => /\ Uncoalesced
            /\ active
            /\ ~OnItsWay("inventory")
            /\ "scans" \in unread => ScansCarried

LEMMA ScanStep ==
  ASSUME RequestInv, TypeOK, "error" \notin Faults,
         "inventory" \notin Changes, "active" \notin Changes,
         ScanInv, [PNext]_<<pvars, rough>>
  PROVE  ScanInv'
<1> USE DEF transit, tasks
<1>0. UNCHANGED rough
  BY DEF PNext
<1> DEFINE Keeps == /\ Uncoalesced
                    /\ active
                    /\ ~OnItsWay("inventory")
                    /\ "scans" \in unread => ScansCarried
<1> SUFFICES ASSUME ~rough
             PROVE  Keeps'
  BY <1>0 DEF ScanInv
<1>1. Keeps
  BY DEF ScanInv
<1>2. /\ "inventory" \in Shapes /\ "scan" \in Shapes
      /\ \A s \in Shapes : s # "inventory" => s = "scan"
  BY DEF Shapes
<1>3. CASE ScansChange
  <2>1. /\ Apart("scan") /\ callbacks' = More(callbacks, "scan")
        /\ UNCHANGED <<window, publishing, queue, delayed, active>>
    BY <1>3 DEF ScansChange, ChangeScans
  <2>2. Uncoalesced' /\ callbacks'["scan"] > 0
    BY <1>1, <1>2, <2>1, Joins
  <2>3. callbacks'["inventory"] = callbacks["inventory"]
    BY <1>2, <2>1, CountedOne DEF RequestInv
  <2> QED BY <1>1, <2>1, <2>2, <2>3 DEF ScansCarried, OnItsWay
<1>4. ~InventoryChanges /\ ~ActivationChanges /\ ~ForeignChanges
  BY DEF InventoryChanges, ActivationChanges, ForeignChanges, ChangeInventory, ToggleActive
<1>5. CASE RetryKeyExpires \/ JobLapses \/ UNCHANGED <<pvars, rough>>
  <2>1. UNCHANGED <<transit, queue, delayed, unread, active, at, kind>>
    BY <1>5 DEF RetryKeyExpires, JobLapses, Lapse, pvars, rvars, sources, work
  <2> QED BY <1>1, <2>1 DEF Uncoalesced, ScansCarried, OnItsWay
<1>6. ASSUME NEW s \in Shapes,
             \/ Suppress(s) \/ Admit(s) \/ Enqueue(s) \/ EnqueueFails(s)
             \/ RequestLost(s) \/ WindowExpires(s) \/ RetryDue(s)
      PROVE  Keeps'
  <2>1. /\ UNCHANGED <<rvars, unread>> /\ Uncoalesced'
        /\ \A t \in Shapes : OnItsWay(t)' <=> OnItsWay(t)
    BY <1>1, <1>6, HandedOn
  <2>2. UNCHANGED <<active, at, kind>>
    BY <2>1 DEF rvars, sources, work
  <2> QED BY <1>1, <1>2, <2>1, <2>2 DEF ScansCarried
<1>7. ASSUME NEW w \in Workers, NEW s \in Shapes, Start(w, s) \/ Reject(w, s) \/ Postpone(w, s)
      PROVE  Keeps'
  <2>1. /\ UNCHANGED <<active, unread>> /\ Uncoalesced'
        /\ \A v \in Workers : at[v] # "idle" => at'[v] = at[v] /\ kind'[v] = kind[v]
        /\ \A t \in Shapes \ {s} : OnItsWay(t)' <=> OnItsWay(t)
        /\ OnItsWay(s)
        /\ \/ OnItsWay(s)'
           \/ at'[w] = "check" /\ kind'[w] = s
           \/ \E t \in Shapes \ {s} : OnItsWay(t)'
    BY <1>1, <1>7, TaskHandedOn
  <2>2. s = "scan"
    BY <1>1, <1>2, <2>1
  <2>3. ~OnItsWay("inventory")'
    BY <1>1, <1>2, <2>1, <2>2
  <2>4. ScansCarried'
    BY <1>2, <2>1, <2>2, <2>3 DEF ScansCarried
  <2> QED BY <1>1, <2>1, <2>3, <2>4
<1>8. ASSUME NEW w \in Workers, Run(w)
      PROVE  Keeps'
  <2>1. /\ UNCHANGED <<transit, queue, delayed, unread, active>>
        /\ at[w] = "idle"
        /\ \A v \in Workers \ {w} : at'[v] = at[v] /\ kind'[v] = kind[v]
    BY <1>8 DEF Run, Claim, sources, TypeOK
  <2> QED BY <1>1, <2>1 DEF Uncoalesced, ScansCarried, OnItsWay
<1>9. ASSUME NEW w \in Workers, Working(w)
      PROVE  Keeps'
  <2>1. /\ UNCHANGED <<active, transit, tasks>>
        /\ \A v \in Workers \ {w} : at'[v] = at[v] /\ kind'[v] = kind[v]
        /\ unread' \subseteq unread
        /\ at[w] = "check" => at'[w] = "read" /\ kind'[w] = kind[w]
        /\ at[w] = "read" => at'[w] = "scan" /\ kind'[w] = kind[w]
        /\ at[w] = "scan" /\ kind[w] = "scan" => "scans" \notin unread'
    BY <1>1, <1>9, WorkerComes
  <2> QED BY <1>1, <2>1 DEF Uncoalesced, ScansCarried, OnItsWay
<1> QED
  BY <1>3, <1>4, <1>5, <1>6, <1>7, <1>8, <1>9 DEF PNext, PStep

(* Neither is a change of the scan sources, where the inventory and the        *)
(* activation stay: with requests of one shape the retry key, which both       *)
(* shapes share, stands for a task that does what the suppressed one would.    *)
THEOREM ScanChangesAreCarried ==
  ASSUME "error" \notin Faults, "inventory" \notin Changes, "active" \notin Changes
  PROVE  PSpec => [](~rough /\ "scans" \in unread => ScansCarried)
<1>1. PInit => ScanInv
  BY DEF PInit, RInit, ScanInv, Uncoalesced, OnItsWay, Shapes
<1>2. ScanInv => (~rough /\ "scans" \in unread => ScansCarried)
  BY DEF ScanInv
<1>3. RequestInv /\ TypeOK /\ ScanInv /\ [PNext]_<<pvars, rough>> => ScanInv'
  BY ScanStep
<1> QED
  BY <1>1, <1>2, <1>3, InitRequests, RequestsKeep, PipelineReconciles, TypeCorrect, PTL DEF PSpec
=============================================================================
