------------------------- MODULE DiscoveryPipeline --------------------------
(***************************************************************************)
(* How a change of one manufacturer's sources becomes a reconciliation: a  *)
(* callback after the commit, a dispatch coalesced through a shared cache  *)
(* key, a Huey task, and the task's claim of the manufacturer, retried     *)
(* later when another worker holds it.                                     *)
(*                                                                         *)
(* A request has a shape, its two scan flags: changes of chassis and       *)
(* staged devices ask for the inventory alone, changes of the configured   *)
(* CIDRs, FQDNs and settings for the scan.  The dispatch key is per shape, *)
(* the key of the busy retry is not.                                       *)
(***************************************************************************)
EXTENDS DiscoveryReconcile, Naturals

CONSTANTS
  MaxRequests,  \* bounds the changes, the operator's runs and the sweeps
  Unclaimed,    \* runs without a dispatched task, a subset of {"sync", "sweep"}
  Trouble,      \* what may go wrong on the way, a subset of AllTrouble
  Roughness     \* may a behaviour be rough, must it be: a subset of BOOLEAN

AllTrouble ==
  {"enqueue",  \* the queue refuses a task
   "cache",    \* the shared cache is unavailable
   "lost"}     \* the process dies between its commit and its dispatch

ASSUME MaxRequestsAssumption == MaxRequests \in Nat
ASSUME UnclaimedAssumption == Unclaimed \subseteq {"sync", "sweep"}
ASSUME TroubleAssumption == Trouble \subseteq AllTrouble
ASSUME RoughnessAssumption == Roughness \subseteq BOOLEAN

VARIABLES
  requests,    \* changes and runs so far
  callbacks,   \* on_commit callbacks of committed changes, per shape
  window,      \* is the dispatch key of the shape in the cache?  (5 s)
  publishing,  \* dispatches that passed the key and have not enqueued yet
  queue,       \* Huey tasks ready to run
  delayed,     \* tasks raised again with RetryTask (15 s)
  young,       \* the shape whose delayed task set the retry key, while it lives (10 s)
  unread,      \* history: sources changed since a claimed run last read them
  rough        \* chosen at first: in a calm behaviour nothing of Trouble happens, no worker
               \* is killed, no other manufacturer's chassis interferes, and changes
               \* stay further apart than a dispatch key lives

transit == <<callbacks, window, publishing>>
tasks == <<queue, delayed, young>>
pvars == <<rvars, requests, transit, tasks, unread>>

Counts == [Shapes -> 0 .. MaxRequests]

PipelineTypeOK ==
  /\ TypeOK
  /\ requests \in 0 .. MaxRequests
  /\ callbacks \in Counts
  /\ window \in [Shapes -> BOOLEAN]
  /\ publishing \in Counts
  /\ queue \in Counts
  /\ delayed \in Counts
  /\ young \in Shapes \cup {"none"}
  /\ unread \subseteq {"inventory", "scans"}
  /\ rough \in Roughness

PInit ==
  /\ RInit
  /\ requests = 0
  /\ callbacks = [s \in Shapes |-> 0]
  /\ window = [s \in Shapes |-> FALSE]
  /\ publishing = [s \in Shapes |-> 0]
  /\ queue = [s \in Shapes |-> 0]
  /\ delayed = [s \in Shapes |-> 0]
  /\ young = "none"
  /\ unread = {}
  /\ rough \in Roughness

Happens(wrong) == rough /\ wrong \in Trouble

\* A receiver connected twice, so that every request counts double.
BugMoreTwice(counter, s) == [counter EXCEPT ![s] = @ + 2]

More(counter, s) == [counter EXCEPT ![s] = @ + 1]
Less(counter, s) == [counter EXCEPT ![s] = @ - 1]

-----------------------------------------------------------------------------
(* Changes commit and schedule a request; another manufacturer's chassis    *)
(* schedules nothing here, a deactivation neither.                          *)

Counted ==
  /\ requests < MaxRequests
  /\ requests' = requests + 1

Apart(s) == ~rough => ~window[s] /\ callbacks[s] = 0

InventoryChanges ==
  /\ Counted
  /\ Apart("inventory")
  /\ ChangeInventory
  /\ callbacks' = More(callbacks, "inventory")
  /\ unread' = unread \cup {"inventory"}
  /\ UNCHANGED <<window, publishing, tasks>>

ScansChange ==
  /\ Counted
  /\ Apart("scan")
  /\ ChangeScans
  /\ callbacks' = More(callbacks, "scan")
  /\ unread' = unread \cup {"scans"}
  /\ UNCHANGED <<window, publishing, tasks>>

ForeignChanges ==
  /\ Counted
  /\ rough
  /\ ChangeForeign
  /\ UNCHANGED <<transit, tasks, unread>>

ActivationChanges ==
  /\ Counted
  /\ Apart("inventory")
  /\ ToggleActive
  /\ callbacks' = IF active THEN callbacks ELSE More(callbacks, "inventory")
  /\ UNCHANGED <<window, publishing, tasks, unread>>

-----------------------------------------------------------------------------
(* dispatch_manufacturer_discovery.                                         *)

\* The key is still there: the request is a duplicate.
Suppress(s) ==
  /\ callbacks[s] > 0
  /\ window[s]
  /\ callbacks' = Less(callbacks, s)
  /\ UNCHANGED <<rvars, requests, window, publishing, tasks, unread>>

\* cache.add sets the key; or it finds one that is gone when it looks again; or
\* the cache is unavailable: in all three the dispatch goes on.
Admit(s) ==
  /\ callbacks[s] > 0
  /\ callbacks' = Less(callbacks, s)
  /\ \/ /\ ~window[s]
        /\ window' = [window EXCEPT ![s] = TRUE]
     \/ /\ window[s]
        /\ window' = [window EXCEPT ![s] = FALSE]
     \/ /\ Happens("cache")
        /\ UNCHANGED window
  /\ publishing' = More(publishing, s)
  /\ UNCHANGED <<rvars, requests, tasks, unread>>

Enqueue(s) ==
  /\ publishing[s] > 0
  /\ publishing' = Less(publishing, s)
  /\ queue' = More(queue, s)
  /\ UNCHANGED <<rvars, requests, callbacks, window, delayed, young, unread>>

\* The key is released for those who come later; this request is lost.
EnqueueFails(s) ==
  /\ Happens("enqueue")
  /\ publishing[s] > 0
  /\ publishing' = Less(publishing, s)
  /\ \/ window' = [window EXCEPT ![s] = FALSE]
     \/ Happens("cache") /\ UNCHANGED window
  /\ UNCHANGED <<rvars, requests, callbacks, tasks, unread>>

\* The process ends with a callback not run, or the key set and nothing queued.
RequestLost(s) ==
  /\ Happens("lost")
  /\ \/ /\ callbacks[s] > 0
        /\ callbacks' = Less(callbacks, s)
        /\ UNCHANGED publishing
     \/ /\ publishing[s] > 0
        /\ publishing' = Less(publishing, s)
        /\ UNCHANGED callbacks
  /\ UNCHANGED <<rvars, requests, window, tasks, unread>>

WindowExpires(s) ==
  /\ window[s]
  /\ window' = [window EXCEPT ![s] = FALSE]
  /\ UNCHANGED <<rvars, requests, callbacks, publishing, tasks, unread>>

-----------------------------------------------------------------------------
(* run_manufacturer_discovery_task. *)

Start(w, s) ==
  /\ queue[s] > 0
  /\ queue' = Less(queue, s)
  /\ Claim(w, s)
  /\ UNCHANGED <<requests, transit, delayed, young, unread>>

\* An inactive manufacturer has no row for the claim: the task ends.
Reject(w, s) ==
  /\ queue[s] > 0
  /\ at[w] = "idle"
  /\ ~active
  /\ queue' = Less(queue, s)
  /\ UNCHANGED <<rvars, requests, transit, delayed, young, unread>>

\* A task that gives up whenever another run holds the manufacturer.
BugPostpone(w, s) ==
  /\ queue[s] > 0
  /\ at[w] = "idle"
  /\ active
  /\ Busy
  /\ queue' = Less(queue, s)
  /\ UNCHANGED <<rvars, requests, transit, delayed, young, unread>>

\* A task that sets the retry key and does not ask to be run again.
BugPostponeKeyOnly(w, s) ==
  /\ queue[s] > 0
  /\ at[w] = "idle"
  /\ active
  /\ Busy
  /\ queue' = Less(queue, s)
  /\ young' = IF young = "none" THEN s ELSE young
  /\ UNCHANGED <<rvars, requests, transit, delayed, unread>>

\* Busy: the first task that finds no retry key sets it and asks to be run again,
\* the others end.
Postpone(w, s) ==
  /\ queue[s] > 0
  /\ at[w] = "idle"
  /\ active
  /\ Busy
  /\ queue' = Less(queue, s)
  /\ \/ /\ young = "none"
        /\ young' = s
        /\ delayed' = More(delayed, s)
     \/ /\ young # "none" \/ Happens("cache")
        /\ UNCHANGED <<delayed, young>>
  /\ UNCHANGED <<rvars, requests, transit, unread>>

\* The retry key expires before the retry it stands for is due.
RetryKeyExpires ==
  /\ young # "none"
  /\ young' = "none"
  /\ UNCHANGED <<rvars, requests, transit, queue, delayed, unread>>

RetryDue(s) ==
  /\ delayed[s] > (IF young = s THEN 1 ELSE 0)
  /\ delayed' = Less(delayed, s)
  /\ queue' = More(queue, s)
  /\ UNCHANGED <<rvars, requests, transit, young, unread>>

\* run_discovery_sync_task, and cache_all_candidates which visits every
\* manufacturer: both claim, and a busy manufacturer is reported, not retried.
Run(w) ==
  /\ Counted
  /\ \E k \in Kinds :
       /\ (k = "sync" /\ "sync" \in Unclaimed) \/ (k # "sync" /\ "sweep" \in Unclaimed)
       /\ Claim(w, k)
  /\ UNCHANGED <<transit, tasks, unread>>

Working(w) ==
  /\ \/ Work(w) \/ Finalize(w) \/ (rough /\ Die(w))
  /\ unread' =
       IF at[w] = "read" /\ at'[w] = "scan" THEN unread \ {"inventory"}
       ELSE IF at[w] = "scan" /\ at'[w] = "compare" /\ kind[w] = "scan"
         THEN unread \ {"scans"}
       ELSE unread
  /\ UNCHANGED <<requests, transit, tasks>>

JobLapses ==
  /\ \E j \in Jobs : Lapse(j)
  /\ UNCHANGED <<requests, transit, tasks, unread>>

-----------------------------------------------------------------------------

PStep ==
  \/ InventoryChanges \/ ScansChange \/ ForeignChanges \/ ActivationChanges
  \/ RetryKeyExpires
  \/ JobLapses
  \/ \E s \in Shapes : \/ Suppress(s) \/ Admit(s) \/ Enqueue(s) \/ EnqueueFails(s)
                       \/ RequestLost(s) \/ WindowExpires(s) \/ RetryDue(s)
  \/ \E w \in Workers, s \in Shapes : Start(w, s) \/ Reject(w, s) \/ Postpone(w, s)
  \/ \E w \in Workers : Run(w) \/ Working(w)

(* Processes run their callbacks, Huey runs what is due, a worker goes on    *)
(* with its job, and time passes for keys, retries and jobs.                 *)
PFairness ==
  /\ \A s \in Shapes : /\ WF_pvars(Suppress(s) \/ Admit(s))
                       /\ WF_pvars(Enqueue(s))
                       /\ WF_pvars(WindowExpires(s))
                       /\ WF_pvars(RetryDue(s))
                       /\ WF_pvars(\E w \in Workers :
                                     Start(w, s) \/ Reject(w, s) \/ Postpone(w, s))
  /\ WF_pvars(RetryKeyExpires)
  /\ WF_pvars(JobLapses)
  /\ \A w \in Workers : WF_pvars(Working(w))

PNext == PStep /\ UNCHANGED rough

PSpec == PInit /\ [][PNext]_<<pvars, rough>>

PFairSpec == PSpec /\ PFairness

-----------------------------------------------------------------------------
(* Properties. *)

(* In a calm behaviour every committed change is read by a claimed run that  *)
(* began after it, or the manufacturer is deactivated meanwhile: "one        *)
(* deduplicated manufacturer reconciliation after commit".                   *)
EveryChangeRead ==
  \A source \in {"inventory", "scans"} :
    ~rough /\ source \in unread ~> source \notin unread \/ ~active

(* When the operators of a calm behaviour stop and no job outlived its hour, *)
(* the vendor's list ends with the whole inventory, and with nothing else    *)
(* than addresses the scans cover.                                           *)
Converges ==
  <>[](~rough /\ active /\ lapsed = {} =>
         inventory \subseteq remote /\ remote \subseteq inventory \cup scans)

(* The delayed retry outlives its key: while the key suppresses other busy   *)
(* tasks, the task it stands for is still to come.                           *)
RetryKeyMeansRetry == young # "none" => delayed[young] > 0
=============================================================================
