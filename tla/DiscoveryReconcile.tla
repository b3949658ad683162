------------------------- MODULE DiscoveryReconcile -------------------------
(***************************************************************************)
(* The claimed discovery jobs of one manufacturer: reconciliations, which  *)
(* make the vendor's discovery list equal to what the database wants, and  *)
(* synchronizations, which only add to it.                                 *)
(*                                                                         *)
(* A worker claims the manufacturer by inserting a running DiscoveryJob,   *)
(* then works outside any transaction: it reads the local sources one      *)
(* query at a time, reads the vendor's list, merges and replaces it,       *)
(* removes what is stale, and finalizes its job.  A job older than one     *)
(* hour has lapsed: the next claim fails it, whether or not its worker is  *)
(* still at work.                                                          *)
(***************************************************************************)
EXTENDS FiniteSets

CONSTANTS
  Workers,    \* Huey workers and management commands
  Jobs,       \* DiscoveryJob rows of action "sync"; bounds the claims
  Addresses,  \* host addresses
  Staged,     \* addresses of this manufacturer's DiscoveredDevice rows
  Changes,    \* what operators change, a subset of AllChanges
  Faults,     \* what may go wrong, a subset of AllFaults
  NoJob       \* the job of an idle worker

Shapes == {"inventory", "scan"}      \* reconciliations without and with scans
Kinds == Shapes \cup {"sync"}

AllChanges == {"inventory", "scans", "foreign", "active"}

AllFaults ==
  {"sources",          \* a source is larger than its page, or does not resolve
   "list",             \* reading the vendor's list raises, or is oversized
   "list swallowed",   \* the vendor client answers [] for an error
   "merge swallowed",  \* add_discovery_ips takes an error for an empty list
   "put", "remove",    \* the vendor call fails, applied or not
   "poll",             \* polling devices after a synchronization fails
   "error",            \* the workflow raises
   "crash",            \* the worker dies
   "lapse"}            \* a job lives for longer than an hour

ASSUME StagedAssumption == Staged \subseteq Addresses
ASSUME ChangesAssumption == Changes \subseteq AllChanges
ASSUME FaultsAssumption == Faults \subseteq AllFaults
ASSUME NoJobAssumption == NoJob \notin Jobs

VARIABLES
  inventory,  \* addresses of this manufacturer's chassis
  foreign,    \* addresses of other manufacturers' chassis
  scans,      \* hosts of the configured CIDRs and FQDNs
  active,     \* Manufacturer.is_active
  jobs,       \* status of each job, "unused" before it is inserted
  lapsed,     \* jobs started more than an hour ago
  remote,     \* the vendor's discovery list
  at,         \* where each worker is, "idle" when it runs no claimed job
  kind,       \* what it runs
  job,        \* its job
  wanted,     \* the candidates it collected; once compared, the eligible ones
  add,        \* what it adds; once read back, the whole list it uploads
  drop,       \* what it removes
  failed      \* has it recorded an error?

sources == <<inventory, foreign, scans, active>>
claims == <<jobs, lapsed>>
work == <<kind, job, wanted, add, drop, failed>>
rvars == <<sources, claims, remote, at, work>>

Stages == {"check", "read", "scan", "compare", "get", "put", "prune", "poll", "finalize"}

TypeOK ==
  /\ inventory \subseteq Addresses
  /\ foreign \subseteq Addresses
  /\ scans \subseteq Addresses
  /\ active \in BOOLEAN
  /\ jobs \in [Jobs -> {"unused", "running", "success", "failed"}]
  /\ lapsed \subseteq Jobs
  /\ remote \subseteq Addresses
  /\ at \in [Workers -> Stages \cup {"idle"}]
  /\ kind \in [Workers -> Kinds]
  /\ job \in [Workers -> Jobs \cup {NoJob}]
  /\ wanted \in [Workers -> SUBSET Addresses]
  /\ add \in [Workers -> SUBSET Addresses]
  /\ drop \in [Workers -> SUBSET Addresses]
  /\ failed \in [Workers -> BOOLEAN]

(* The list starts reconciled, with nothing to scan and no other owner.    *)
RInit ==
  /\ inventory \in SUBSET Addresses
  /\ foreign = {}
  /\ scans = {}
  /\ active = TRUE
  /\ jobs = [j \in Jobs |-> "unused"]
  /\ lapsed = {}
  /\ remote = inventory
  /\ at = [w \in Workers |-> "idle"]
  /\ kind = [w \in Workers |-> "inventory"]
  /\ job = [w \in Workers |-> NoJob]
  /\ wanted = [w \in Workers |-> {}]
  /\ add = [w \in Workers |-> {}]
  /\ drop = [w \in Workers |-> {}]
  /\ failed = [w \in Workers |-> FALSE]

-----------------------------------------------------------------------------
(* What operators and polls do meanwhile.  An address belongs to one        *)
(* chassis of one manufacturer.                                             *)

ChangeInventory ==
  /\ "inventory" \in Changes
  /\ inventory' \in SUBSET (Addresses \ foreign) \ {inventory}
  /\ UNCHANGED <<foreign, scans, active, claims, remote, at, work>>

ChangeForeign ==
  /\ "foreign" \in Changes
  /\ foreign' \in SUBSET (Addresses \ inventory) \ {foreign}
  /\ UNCHANGED <<inventory, scans, active, claims, remote, at, work>>

ChangeScans ==
  /\ "scans" \in Changes
  /\ scans' \in SUBSET Addresses \ {scans}
  /\ UNCHANGED <<inventory, foreign, active, claims, remote, at, work>>

ToggleActive ==
  /\ "active" \in Changes
  /\ active' = ~active
  /\ UNCHANGED <<inventory, foreign, scans, claims, remote, at, work>>

-----------------------------------------------------------------------------
(* DiscoverySyncClaimService.claim, one transaction behind the lock of the  *)
(* manufacturer row.                                                        *)

\* A claim that does not look at the jobs already running.
BugBusyNever == FALSE

Busy == \E j \in Jobs \ lapsed : jobs[j] = "running"

\* A claim that inserts its job and leaves the stale one running.
BugClaimedKeepsStale(j) == [jobs EXCEPT ![j] = "running"]

\* A claim that marks stale jobs with a status of their own.
BugClaimedExpires(j) ==
  [i \in Jobs |-> IF i = j THEN "running"
                  ELSE IF jobs[i] = "running" THEN "expired" ELSE jobs[i]]

\* The jobs after a claim: the stale ones failed, j inserted.
Claimed(j) ==
  [i \in Jobs |-> IF i = j THEN "running"
                  ELSE IF jobs[i] = "running" THEN "failed" ELSE jobs[i]]

Claim(w, k) ==
  /\ at[w] = "idle"
  /\ active
  /\ ~Busy
  /\ \E j \in Jobs :
       /\ jobs[j] = "unused"
       /\ jobs' = Claimed(j)
       /\ job' = [job EXCEPT ![w] = j]
  /\ kind' = [kind EXCEPT ![w] = k]
  /\ at' = [at EXCEPT ![w] = "check"]
  /\ UNCHANGED <<sources, lapsed, remote, wanted, add, drop, failed>>

Lapse(j) ==
  /\ "lapse" \in Faults
  /\ jobs[j] = "running"
  /\ j \notin lapsed
  /\ lapsed' = lapsed \cup {j}
  /\ UNCHANGED <<sources, jobs, remote, at, work>>

-----------------------------------------------------------------------------
(* The workflow of the holder. *)

Goes(w, stage) == at' = [at EXCEPT ![w] = stage]

Records(w, error) == failed' = [failed EXCEPT ![w] = failed[w] \/ error]

\* The manufacturer may have been deactivated since the claim.
Check(w) ==
  /\ at[w] = "check"
  /\ IF active THEN Goes(w, "read") ELSE Goes(w, "finalize")
  /\ Records(w, ~active)
  /\ UNCHANGED <<sources, claims, remote, kind, job, wanted, add, drop>>

\* What a bounded read of a source yields: all of it, or with the fault a part.
Pages(source) == IF "sources" \in Faults THEN SUBSET source ELSE {source}

\* Anything less than the whole is known and recorded.
Incomplete(found, source) == found # source

\* Local inventory: the chassis, for a synchronization the staged devices too.
Local(w) == IF kind[w] = "sync" THEN inventory \cup Staged ELSE inventory

Read(w) ==
  /\ at[w] = "read"
  /\ \E found \in Pages(Local(w)) :
       /\ wanted' = [wanted EXCEPT ![w] = found]
       /\ Records(w, Incomplete(found, Local(w)))
  /\ Goes(w, "scan")
  /\ UNCHANGED <<sources, claims, remote, kind, job, add, drop>>

\* The scan sources, for a synchronization if its caller asked for them.
Scan(w) ==
  /\ at[w] = "scan"
  /\ \E asked \in IF kind[w] = "sync" THEN BOOLEAN ELSE {kind[w] = "scan"} :
       LET source == IF asked THEN scans ELSE {}
       IN \E found \in Pages(source) :
            /\ wanted' = [wanted EXCEPT ![w] = @ \cup found]
            /\ Records(w, Incomplete(found, source))
  /\ Goes(w, "compare")
  /\ UNCHANGED <<sources, claims, remote, kind, job, add, drop>>

\* What get_discovery_ips may yield, and whether the caller knows it is partial.
Listings ==
  {[ips |-> remote, partial |-> FALSE]}
    \cup {[ips |-> part, partial |-> TRUE] :
            part \in IF "list" \in Faults THEN SUBSET remote ELSE {}}
    \cup {[ips |-> part, partial |-> FALSE] :
            part \in IF "list swallowed" \in Faults THEN {{}} ELSE {}}

\* A reconciliation compares the candidates no other manufacturer owns with the
\* vendor's list; only complete knowledge of both allows it to remove.
Compare(w) ==
  /\ at[w] = "compare"
  /\ kind[w] \in Shapes
  /\ \E listing \in Listings :
       LET seen == listing.ips
           eligible == wanted[w] \ foreign
           partial == failed[w] \/ listing.partial
       IN /\ wanted' = [wanted EXCEPT ![w] = eligible]
          /\ add' = [add EXCEPT ![w] = eligible \ seen]
          /\ drop' = [drop EXCEPT ![w] = IF partial THEN seen \cap foreign
                                                    ELSE seen \ eligible]
          /\ Records(w, listing.partial)
          /\ Goes(w, IF eligible \subseteq seen THEN "prune" ELSE "get")
  /\ UNCHANGED <<sources, claims, remote, kind, job>>

\* A synchronization submits every eligible candidate and reports the others.
Submit(w) ==
  /\ at[w] = "compare"
  /\ kind[w] = "sync"
  /\ wanted' = [wanted EXCEPT ![w] = @ \ foreign]
  /\ add' = [add EXCEPT ![w] = wanted[w] \ foreign]
  /\ Records(w, wanted[w] \cap foreign # {})
  /\ Goes(w, IF wanted[w] \subseteq foreign THEN "poll" ELSE "get")
  /\ UNCHANGED <<sources, claims, remote, kind, job, drop>>

\* add_discovery_ips: GET the list again, merge, PUT the whole list.
Get(w) ==
  /\ at[w] = "get"
  /\ \E existing \in {remote} \cup (IF "merge swallowed" \in Faults THEN {{}} ELSE {}) :
       add' = [add EXCEPT ![w] = @ \cup existing]
  /\ Goes(w, "put")
  /\ UNCHANGED <<sources, claims, remote, kind, job, wanted, drop, failed>>

\* A submission whose failure nobody records.
BugPutUnrecorded(w) ==
  /\ at[w] = "put"
  /\ remote' \in {add[w]} \cup (IF "put" \in Faults THEN {remote} ELSE {})
  /\ Goes(w, IF kind[w] = "sync" THEN "poll" ELSE "prune")
  /\ UNCHANGED <<sources, claims, work>>

Put(w) ==
  /\ at[w] = "put"
  /\ \/ /\ remote' = add[w]
        /\ UNCHANGED failed
     \/ /\ "put" \in Faults
        /\ remote' \in {remote, add[w]}
        /\ Records(w, TRUE)
  /\ Goes(w, IF kind[w] = "sync" THEN "poll" ELSE "prune")
  /\ UNCHANGED <<sources, claims, kind, job, wanted, add, drop>>

\* A reconciliation that removes nothing.
BugPruneNothing(w) ==
  /\ at[w] = "prune"
  /\ Goes(w, "finalize")
  /\ UNCHANGED <<sources, claims, remote, work>>

\* remove_discovery_ips: PATCH, then POST; nothing is sent for nothing to remove.
Prune(w) ==
  /\ at[w] = "prune"
  /\ \/ /\ remote' = remote \ drop[w]
        /\ UNCHANGED failed
     \/ /\ "remove" \in Faults
        /\ drop[w] # {}
        /\ remote' \in {remote, remote \ drop[w]}
        /\ Records(w, TRUE)
  /\ Goes(w, "finalize")
  /\ UNCHANGED <<sources, claims, kind, job, wanted, add, drop>>

\* The devices a synchronization polls go to the approval queue.
Poll(w) ==
  /\ at[w] = "poll"
  /\ \E error \in {FALSE, "poll" \in Faults} : Records(w, error)
  /\ Goes(w, "finalize")
  /\ UNCHANGED <<sources, claims, remote, kind, job, wanted, add, drop>>

\* An exception anywhere in the workflow is contained and recorded.
Raise(w) ==
  /\ "error" \in Faults
  /\ at[w] \notin {"idle", "finalize"}
  /\ Records(w, TRUE)
  /\ Goes(w, "finalize")
  /\ UNCHANGED <<sources, claims, remote, kind, job, wanted, add, drop>>

-----------------------------------------------------------------------------
(* The end. *)

Leaves(w) ==
  /\ at' = [at EXCEPT ![w] = "idle"]
  /\ kind' = [kind EXCEPT ![w] = "inventory"]
  /\ job' = [job EXCEPT ![w] = NoJob]
  /\ wanted' = [wanted EXCEPT ![w] = {}]
  /\ add' = [add EXCEPT ![w] = {}]
  /\ drop' = [drop EXCEPT ![w] = {}]
  /\ failed' = [failed EXCEPT ![w] = FALSE]

\* A finalizer that does not ask whether the job is still running.
BugOwned(w) == TRUE

Owned(w) == jobs[job[w]] = "running"

\* finalize, under the manufacturer's lock: only a job still running changes.
Finalize(w) ==
  /\ at[w] = "finalize"
  /\ jobs' = IF Owned(w)
               THEN [jobs EXCEPT ![job[w]] = IF failed[w] THEN "failed" ELSE "success"]
               ELSE jobs
  /\ Leaves(w)
  /\ UNCHANGED <<sources, lapsed, remote>>

\* The worker dies, or the finalizing transaction fails: the job stays running.
Die(w) ==
  /\ "crash" \in Faults
  /\ at[w] # "idle"
  /\ Leaves(w)
  /\ UNCHANGED <<sources, claims, remote>>

-----------------------------------------------------------------------------

Environment == ChangeInventory \/ ChangeForeign \/ ChangeScans \/ ToggleActive

Work(w) ==
  \/ Check(w) \/ Read(w) \/ Scan(w) \/ Compare(w) \/ Submit(w)
  \/ Get(w) \/ Put(w) \/ Prune(w) \/ Poll(w) \/ Raise(w)

RNext ==
  \/ Environment
  \/ \E j \in Jobs : Lapse(j)
  \/ \E w \in Workers : \/ \E k \in Kinds : Claim(w, k)
                        \/ Work(w)
                        \/ Finalize(w)
                        \/ Die(w)

RSpec == RInit /\ [][RNext]_rvars

-----------------------------------------------------------------------------
(* Properties. *)

(* Two workers are inside claimed jobs at once only if one of the jobs has  *)
(* lapsed, and never inside the same job: what DiscoverySyncClaimService    *)
(* calls ownership of the manufacturer.                                     *)
ExclusiveWork ==
  \A v, w \in Workers :
    v # w /\ at[v] # "idle" /\ at[w] # "idle" =>
      /\ job[v] # job[w]
      /\ job[v] \in lapsed \/ job[w] \in lapsed

(* A job keeps its verdict: the worker of a job that another claim failed   *)
(* cannot turn it into a success when it comes back to finalize.            *)
VerdictFinal ==
  [][\A j \in Jobs : jobs[j] \in {"success", "failed"} => jobs'[j] = jobs[j]]_rvars

Running == {j \in Jobs : jobs[j] = "running"}

Owner == IF Running = {} THEN NoJob ELSE CHOOSE j \in Running : TRUE

Lease == INSTANCE ExpiringLease WITH
  Clients <- Jobs,
  NoClient <- NoJob,
  owner <- Owner,
  valid <- Running \ lapsed # {},
  used <- {j \in Jobs : jobs[j] # "unused"}

(* The claim is an exclusive expiring lease on the manufacturer: a job      *)
(* becomes the running one only after the one before it ended or lapsed.    *)
ClaimIsLease == Lease!Spec

(* As long as no job has lapsed, a reconciliation whose job becomes a       *)
(* success leaves the vendor's list equal to the eligible candidates it     *)
(* collected from complete sources.                                         *)
SuccessMeansReconciled ==
  [][\A w \in Workers :
       /\ lapsed = {}
       /\ kind[w] \in Shapes
       /\ at[w] = "finalize"
       /\ at'[w] = "idle"
       /\ jobs[job[w]] = "running"
       /\ jobs'[job[w]] = "success"
       => remote = wanted[w]]_rvars
=============================================================================
