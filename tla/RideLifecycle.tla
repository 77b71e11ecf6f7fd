---------------------------- MODULE RideLifecycle ----------------------------
(***************************************************************************)
(* The life of a ride (a row of rides_metadata) between the gunicorn       *)
(* workers that serve POST /process/{id}, the background task and pool     *)
(* thread each accepted request starts, the legacy batch worker, and the   *)
(* restarts of all of them.  One action is one database call, or one event *)
(* of an event loop; every interleaving of the processes is possible.      *)
(*                                                                         *)
(* A job is a slot in which one run of the pipeline happens:               *)
(*   Requests      POST /process requests (api/routes/process.py),         *)
(*   BatchWorkers  the loop of batch_worker.py (process_next_queued),      *)
(*   CliRuns       process_by_id.                                          *)
(* A job of an API worker has two sides which may outlive one another: the *)
(* task on the event loop and the thread of the pool.  A thread whose task *)
(* gave up goes on working: Python cannot stop it.                         *)
(***************************************************************************)
EXTENDS Naturals, FiniteSets

CONSTANTS
  Rides,         \* numbers; a smaller number is an earlier created_at
  Workers,       \* gunicorn worker processes (SIPAT_ML_WORKERS)
  Requests, BatchWorkers, CliRuns,
  PoolSize,      \* SIPAT_ML_MAX_WORKERS, threads of a worker's pool
  Faults,        \* which faults this instance has, see FaultKinds
  MaxStops,      \* bound on crashes and shutdowns of processes
  None

FaultKinds == {"timeout", "raise", "db"}

ASSUME RideAssumption ==
  /\ Rides \subseteq Nat
  /\ PoolSize \in Nat \ {0}
  /\ MaxStops \in Nat
  /\ Faults \subseteq FaultKinds
  /\ None \notin Rides \cup Workers \cup Nat
  /\ Requests \cap (BatchWorkers \cup CliRuns) = {}
  /\ BatchWorkers \cap CliRuns = {}

VARIABLES
  status,      \* rides_metadata.status ("absent" before the upload completes)
  pct,         \* rides_metadata.progress_pct; stage and message go with it
  saved,       \* how often the ride's detections were inserted: 0, 1, 2 = more
  worker,      \* state of each gunicorn worker process
  stale,       \* ids a starting worker has read as "processing" and not failed yet
  probe,       \* the row a starting worker has read for its write test
  job,         \* the job slots
  stops,       \* crashes and shutdowns so far
  interfered,  \* history: rides whose row somebody other than their one
               \* processor has written since they were queued
  repeated     \* history: rides with an executed insertion whose answer was lost

rowVars == <<status, pct, saved, repeated, interfered>>
hostVars == <<worker, stale, probe, stops>>
vars == <<status, pct, saved, worker, stale, probe, job, stops, interfered, repeated>>

Jobs == Requests \cup BatchWorkers \cup CliRuns

Exists(r) == status[r] \notin {"absent", "deleted"}

(***************************************************************************)
(* Job slots.                                                              *)
(***************************************************************************)
Idle == [task |-> "idle", thread |-> "none", ride |-> None, seen |-> None, host |-> None]

(* What the pipeline's thread still has to do in each of its states. *)
Working == {"download", "detect", "save", "insert", "sync", "finalize", "complete"}

(* Coroutines of one worker that run without an await in between: no other  *)
(* coroutine of the worker takes a step then.                               *)
LoopFree(w) == \A j \in Requests :
  job[j].host = w => job[j].task \notin {"claim", "timedout", "report"}

Running(w) == {j \in Requests : job[j].host = w /\ job[j].thread \in Working}

Goto(j, task, thread) ==
  job' = [job EXCEPT ![j] =
    [task |-> task, thread |-> thread, ride |-> @.ride, seen |-> @.seen, host |-> @.host]]

(* The slot's job has read the row of ride r, the first half of a claim. *)
Read(j, r, host) ==
  job' = [job EXCEPT ![j] =
    [task |-> "claim", thread |-> "none", ride |-> r, seen |-> status[r], host |-> host]]

Release(j) == job' = [job EXCEPT ![j] = Idle]

(* UPDATE rides_metadata SET progress_* WHERE id = r: without a row, nothing. *)
SetPct(r, p) == pct' = [pct EXCEPT ![r] = IF Exists(r) THEN p ELSE @]

(* The failure reports: UPDATE ... SET status = 'failed' WHERE id = r, with *)
(* no condition on the status the row has by then.                          *)
SetFailed(r) ==
  /\ status' = [status EXCEPT ![r] = IF Exists(r) THEN "failed" ELSE @]
  /\ interfered' = interfered \cup {r}

(***************************************************************************)
(* The client: upload completed, ride deleted.                             *)
(***************************************************************************)
CompleteUpload(r) ==
  /\ status[r] = "absent"
  /\ \A q \in Rides : q < r => status[q] # "absent"
  /\ status' = [status EXCEPT ![r] = "queued"]
  /\ UNCHANGED <<pct, saved, repeated, interfered, job, hostVars>>

DeleteRide(r) ==
  /\ Exists(r)
  /\ status' = [status EXCEPT ![r] = "deleted"]
  /\ UNCHANGED <<pct, saved, repeated, interfered, job, hostVars>>

(***************************************************************************)
(* POST /process/{id}: read the row, refuse "processing" and "completed",  *)
(* then compare-and-swap the status that was read to "processing".         *)
(***************************************************************************)
(* Mutant of RouteRead: the "completed" test is missing. *)
RouteReadCompletedToo(j, w, r) ==
  /\ job[j] = Idle
  /\ worker[w] = "up" /\ LoopFree(w)
  /\ Exists(r)
  /\ status[r] # "processing"
  /\ Read(j, r, w)
  /\ UNCHANGED <<rowVars, hostVars>>

RouteRead(j, w, r) ==
  /\ job[j] = Idle
  /\ worker[w] = "up" /\ LoopFree(w)
  /\ Exists(r)
  /\ status[r] \notin {"processing", "completed"}
  /\ Read(j, r, w)
  /\ UNCHANGED <<rowVars, hostVars>>

(* Mutant of Claim: the update has lost its .eq("status", ...). *)
ClaimAnyRow(r, seen) == Exists(r)

(* The condition of the compare-and-swap. *)
Claim(r, seen) == status[r] = seen

(* The job has claimed its ride and goes on; or the update was executed but  *)
(* its answer was lost: the call raises, and the job is over.                *)
Claimed(j, task, thread) ==
  Goto(j, task, thread) \/ ("db" \in Faults /\ Release(j))

RouteClaim(j) ==
  LET r == job[j].ride IN
  /\ j \in Requests /\ job[j].task = "claim"
  /\ \/ /\ Claim(r, job[j].seen)
        /\ status' = [status EXCEPT ![r] = "processing"]
        /\ pct' = [pct EXCEPT ![r] = 1]
        /\ Claimed(j, "fetch", "none")
     \/ /\ ~Claim(r, job[j].seen) \/ "db" \in Faults
        /\ Release(j)
        /\ UNCHANGED <<status, pct>>
  /\ UNCHANGED <<saved, repeated, interfered, hostVars>>

(***************************************************************************)
(* The background task: fetch the row, hand process_ride to the pool and   *)
(* wait for it for RIDE_PROCESS_TIMEOUT seconds.                           *)
(***************************************************************************)
TaskFetch(j) ==
  /\ job[j].task = "fetch" /\ LoopFree(job[j].host)
  /\ \/ Exists(job[j].ride) /\ Goto(j, "await", "pooled")
     \/ ~Exists(job[j].ride) /\ Release(j)
     \/ "db" \in Faults /\ Goto(j, "report", "none")
  /\ UNCHANGED <<rowVars, hostVars>>

(* Mutant of TaskReturn: _run_process_async does not handle the exception. *)
TaskReturnUnhandled(j) ==
  /\ job[j].task = "await" /\ LoopFree(job[j].host)
  /\ job[j].thread \in {"returned", "raised"}
  /\ Release(j)
  /\ UNCHANGED <<rowVars, hostVars>>

TaskReturn(j) ==
  /\ job[j].task = "await" /\ LoopFree(job[j].host)
  /\ \/ job[j].thread = "returned" /\ Release(j)
     \/ job[j].thread = "raised" /\ Goto(j, "report", "none")
  /\ UNCHANGED <<rowVars, hostVars>>

(* Mutant of Abandoned: the cancelled call stays in the slot. *)
AbandonedKeepsCall(thread) == IF thread \in Working THEN thread ELSE "cancelled"

(* wait_for gives up: a call still queued in the pool is cancelled, a thread *)
(* that runs goes on, and a result that has not reached the loop is lost.    *)
Abandoned(thread) == IF thread \in Working THEN thread ELSE "none"

(* Mutant of Timeout: the clock starts when the thread starts. *)
TimeoutOfRunning(j) ==
  /\ "timeout" \in Faults
  /\ job[j].task = "await" /\ LoopFree(job[j].host)
  /\ job[j].thread \in Working
  /\ Goto(j, "timedout", Abandoned(job[j].thread))
  /\ UNCHANGED <<rowVars, hostVars>>

Timeout(j) ==
  /\ "timeout" \in Faults
  /\ job[j].task = "await" /\ LoopFree(job[j].host)
  /\ Goto(j, "timedout", Abandoned(job[j].thread))
  /\ UNCHANGED <<rowVars, hostVars>>

(* process_ride_async: _mark_failed, then TimeoutError whether or not the    *)
(* update went through.                                                      *)
MarkTimedOut(j) ==
  /\ job[j].task = "timedout"
  /\ Goto(j, "report", job[j].thread)
  /\ \/ SetFailed(job[j].ride)
     \/ "db" \in Faults /\ UNCHANGED <<status, interfered>>
  /\ UNCHANGED <<pct, saved, repeated, hostVars>>

(* _run_process_async's handlers; the task ends whatever becomes of the     *)
(* update, and the slot is free once no thread is left in it.                *)
ReportFailure(j) ==
  LET r == job[j].ride IN
  /\ j \in Requests /\ job[j].task = "report"
  /\ \/ SetFailed(r) /\ SetPct(r, 0)
     \/ "db" \in Faults /\ UNCHANGED <<status, pct, interfered>>
  /\ IF job[j].thread = "none" THEN Release(j) ELSE Goto(j, "idle", job[j].thread)
  /\ UNCHANGED <<saved, repeated, hostVars>>

(***************************************************************************)
(* batch_worker.py: claim the oldest queued ride (read, compare-and-swap)  *)
(* and process it in the same thread.  process_by_id claims whatever       *)
(* status it has read.                                                     *)
(***************************************************************************)
Queued == {r \in Rides : status[r] = "queued"}
Oldest(r) == r \in Queued /\ \A q \in Queued : r <= q

BatchRead(j) ==
  /\ j \in BatchWorkers /\ job[j] = Idle
  /\ \E r \in Rides : Oldest(r) /\ Read(j, r, None)
  /\ UNCHANGED <<rowVars, hostVars>>

ByIdRead(j, r) ==
  /\ j \in CliRuns /\ job[j] = Idle
  /\ Exists(r)
  /\ Read(j, r, None)
  /\ UNCHANGED <<rowVars, hostVars>>

CliClaim(j) ==
  LET r == job[j].ride IN
  /\ j \in BatchWorkers \cup CliRuns /\ job[j].task = "claim"
  /\ \/ /\ Claim(r, job[j].seen)
        /\ status' = [status EXCEPT ![r] = "processing"]
        /\ interfered' = IF j \in CliRuns THEN interfered \cup {r} ELSE interfered
        /\ Claimed(j, "run", "download")
     \/ /\ ~Claim(r, job[j].seen) \/ "db" \in Faults
        /\ Release(j)
        /\ UNCHANGED <<status, interfered>>
  /\ UNCHANGED <<pct, saved, repeated, hostVars>>

(* _mark_failed in the handler of process_next_queued and process_by_id. *)
CliMarkFailed(j) ==
  /\ j \in BatchWorkers \cup CliRuns /\ job[j].task = "report"
  /\ \/ SetFailed(job[j].ride)
     \/ "db" \in Faults /\ UNCHANGED <<status, interfered>>
  /\ Release(j)
  /\ UNCHANGED <<pct, saved, repeated, hostVars>>

(***************************************************************************)
(* process_ride, in a pool thread or in the batch worker.                  *)
(***************************************************************************)
StartThread(j) ==
  /\ job[j].thread = "pooled"
  /\ Cardinality(Running(job[j].host)) < PoolSize
  /\ Goto(j, job[j].task, "download")
  /\ UNCHANGED <<rowVars, hostVars>>

(* _update_progress swallows a failing update. *)
Progress(j, p) ==
  SetPct(job[j].ride, p) \/ ("db" \in Faults /\ UNCHANGED pct)

Step(j, from, to, p) ==
  /\ job[j].thread = from
  /\ Progress(j, p)
  /\ Goto(j, job[j].task, to)
  /\ UNCHANGED <<status, saved, repeated, interfered, hostVars>>

Download(j) == Step(j, "download", "detect", 5)

(* Mutant of Detect: the results are not saved. *)
DetectOnly(j) == Step(j, "detect", "finalize", 25)

Detect(j) == Step(j, "detect", "save", 25)
Save(j) == Step(j, "save", "insert", 85)
Finalize(j) == Step(j, "finalize", "complete", 95)

(* _insert_raw_detections, through the retried insert of the service: an     *)
(* insertion that was executed but whose answer was lost is made again, and  *)
(* raw_detections has no key that would refuse the second one.               *)
Insert(j) ==
  LET r == job[j].ride IN
  /\ job[j].thread = "insert"
  /\ saved' = [saved EXCEPT ![r] = IF @ = 2 THEN 2 ELSE @ + 1]
  /\ \/ Goto(j, job[j].task, "sync") /\ UNCHANGED repeated
     \/ /\ "db" \in Faults
        /\ Goto(j, job[j].task, "insert")
        /\ repeated' = repeated \cup {r}
  /\ UNCHANGED <<status, pct, interfered, hostVars>>

(* _sync_potholes touches other tables (module PotholeSync). *)
Sync(j) ==
  /\ job[j].thread = "sync"
  /\ Goto(j, job[j].task, "finalize")
  /\ UNCHANGED <<rowVars, hostVars>>

(* What becomes of the slot when the thread has its result. *)
ThreadEnds(j, result) ==
  IF job[j].task = "await" THEN Goto(j, "await", result)
  ELSE IF job[j].task \in {"idle", "run"} THEN Release(j)
  ELSE Goto(j, job[j].task, "none")

(* Mutant of Complete: only the status is written. *)
CompleteStatusOnly(j) ==
  LET r == job[j].ride IN
  /\ job[j].thread = "complete"
  /\ status' = [status EXCEPT ![r] = IF Exists(r) THEN "completed" ELSE @]
  /\ ThreadEnds(j, "returned")
  /\ UNCHANGED <<pct, saved, repeated, interfered, hostVars>>

(* _mark_completed; when its answer is lost the update is made again, and    *)
(* the last attempt's exception goes the way of every other (Raise).         *)
Complete(j) ==
  LET r == job[j].ride IN
  /\ job[j].thread = "complete"
  /\ status' = [status EXCEPT ![r] = IF Exists(r) THEN "completed" ELSE @]
  /\ SetPct(r, 100)
  /\ ThreadEnds(j, "returned") \/ ("db" \in Faults /\ Goto(j, job[j].task, "complete"))
  /\ UNCHANGED <<saved, repeated, interfered, hostVars>>

(* An exception anywhere in process_ride.  For a task it ends the awaited    *)
(* future; process_next_queued and process_by_id catch five exception types, *)
(* and any other (the RuntimeError of _insert_raw_detections, an Azure or    *)
(* HTTP error) leaves the ride as it is.                                     *)
Raise(j) ==
  /\ "raise" \in Faults
  /\ job[j].thread \in Working
  /\ \/ job[j].task = "run" /\ Goto(j, "report", "none")
     \/ ThreadEnds(j, "raised")
  /\ UNCHANGED <<rowVars, hostVars>>

(***************************************************************************)
(* Processes stop and start.                                               *)
(***************************************************************************)
(* Lifespan shutdown: no new request, the tasks get _SHUTDOWN_TIMEOUT. *)
SignalShutdown(w) ==
  /\ worker[w] = "up" /\ LoopFree(w)
  /\ stops < MaxStops
  /\ stops' = stops + 1
  /\ worker' = [worker EXCEPT ![w] = "draining"]
  /\ UNCHANGED <<rowVars, job, stale, probe>>

(* wait_for_tasks cancels a task that still waits for its thread; the        *)
(* CancelledError passes both "except Exception" handlers.                   *)
CancelTask(j) ==
  /\ job[j].task = "await" /\ LoopFree(job[j].host)
  /\ worker[job[j].host] = "draining"
  /\ IF job[j].thread \in Working THEN Goto(j, "idle", job[j].thread) ELSE Release(j)
  /\ UNCHANGED <<rowVars, hostVars>>

(* A process ends with all its jobs, whatever they were doing. *)
ProcessEnds(w) ==
  /\ worker' = [worker EXCEPT ![w] = "down"]
  /\ job' = [j \in Jobs |-> IF job[j].host = w THEN Idle ELSE job[j]]
  /\ stale' = [stale EXCEPT ![w] = {}]
  /\ probe' = [probe EXCEPT ![w] = None]
  /\ UNCHANGED rowVars

(* After the drain the interpreter joins the pool's threads; the arbiter     *)
(* kills the process when graceful_timeout is over.                          *)
Reap(w) == worker[w] = "draining" /\ ProcessEnds(w) /\ UNCHANGED stops

(* SIGKILL, out of memory, power. *)
CrashWorker(w) ==
  /\ worker[w] # "down"
  /\ stops < MaxStops
  /\ stops' = stops + 1
  /\ ProcessEnds(w)

CrashCli(j) ==
  /\ j \in BatchWorkers \cup CliRuns /\ job[j] # Idle
  /\ stops < MaxStops
  /\ stops' = stops + 1
  /\ Release(j)
  /\ UNCHANGED <<rowVars, worker, stale, probe>>

(* _recover_stale_processing_rides of a starting worker: one read of every   *)
(* "processing" ride of the table, whichever worker processes it; then one   *)
(* unconditional update per ride read.  A failing call ends the loop.        *)
StartWorker(w) ==
  /\ worker[w] = "down"
  /\ worker' = [worker EXCEPT ![w] = "recovering"]
  /\ \/ stale' = [stale EXCEPT ![w] = {r \in Rides : status[r] = "processing"}]
     \/ "db" \in Faults /\ stale' = stale
  /\ UNCHANGED <<rowVars, job, probe, stops>>

RecoverRide(w, r) ==
  /\ worker[w] = "recovering" /\ r \in stale[w]
  /\ \/ /\ SetFailed(r) /\ SetPct(r, 0)
        /\ stale' = [stale EXCEPT ![w] = @ \ {r}]
     \/ /\ "db" \in Faults
        /\ stale' = [stale EXCEPT ![w] = {}]
        /\ UNCHANGED <<status, pct, interfered>>
  /\ UNCHANGED <<saved, repeated, job, worker, probe, stops>>

(* _run_migrations' write test reads some row's progress_pct ...             *)
ProbeRead(w) ==
  /\ worker[w] = "recovering" /\ stale[w] = {}
  /\ worker' = [worker EXCEPT ![w] = "probing"]
  /\ \/ \E r \in Rides :
          Exists(r) /\ probe' = [probe EXCEPT ![w] = [ride |-> r, pct |-> pct[r]]]
     \/ /\ "db" \in Faults \/ \A r \in Rides : ~Exists(r)
        /\ probe' = probe
  /\ UNCHANGED <<rowVars, job, stale, stops>>

(* ... and writes the value back; the worker then serves requests.           *)
ProbeWrite(w) ==
  /\ worker[w] = "probing"
  /\ worker' = [worker EXCEPT ![w] = "up"]
  /\ probe' = [probe EXCEPT ![w] = None]
  /\ \/ /\ probe[w] # None
        /\ SetPct(probe[w].ride, probe[w].pct)
        /\ interfered' = interfered \cup {probe[w].ride}
     \/ /\ probe[w] = None \/ "db" \in Faults
        /\ UNCHANGED <<pct, interfered>>
  /\ UNCHANGED <<status, saved, repeated, job, stale, stops>>

-----------------------------------------------------------------------------
Init ==
  /\ status = [r \in Rides |-> "absent"]
  /\ pct = [r \in Rides |-> 0]
  /\ saved = [r \in Rides |-> 0]
  /\ interfered = {}
  /\ repeated = {}
  /\ worker = [w \in Workers |-> "down"]
  /\ stale = [w \in Workers |-> {}]
  /\ probe = [w \in Workers |-> None]
  /\ job = [j \in Jobs |-> Idle]
  /\ stops = 0

ClientNext == \E r \in Rides : CompleteUpload(r) \/ DeleteRide(r)

TaskNext(j) ==
  TaskFetch(j) \/ TaskReturn(j) \/ Timeout(j) \/ MarkTimedOut(j)
    \/ ReportFailure(j) \/ CancelTask(j)

ThreadNext(j) ==
  StartThread(j) \/ Download(j) \/ Detect(j) \/ Save(j) \/ Insert(j)
    \/ Sync(j) \/ Finalize(j) \/ Complete(j) \/ Raise(j)

CliNext(j) ==
  \/ BatchRead(j) \/ CliClaim(j) \/ CliMarkFailed(j) \/ CrashCli(j)
  \/ \E r \in Rides : ByIdRead(j, r)

WorkerNext(w) ==
  \/ StartWorker(w) \/ ProbeRead(w) \/ ProbeWrite(w)
  \/ SignalShutdown(w) \/ Reap(w) \/ CrashWorker(w)
  \/ \E r \in Rides : RecoverRide(w, r)

Next ==
  \/ ClientNext
  \/ \E j \in Requests, w \in Workers, r \in Rides : RouteRead(j, w, r)
  \/ \E j \in Requests : RouteClaim(j) \/ TaskNext(j)
  \/ \E j \in Jobs : ThreadNext(j) \/ CliNext(j)
  \/ \E w \in Workers : WorkerNext(w)

Spec == Init /\ [][Next]_vars

-----------------------------------------------------------------------------
(***************************************************************************)
(* Fairness for the liveness runs.  The event loops and timers run, the    *)
(* arbiter respawns a worker that went down; nothing is assumed of the     *)
(* pool threads (a model call may hang), of clients, or of the batch       *)
(* worker.                                                                 *)
(***************************************************************************)
LoopFairness ==
  /\ \A j \in Requests :
       WF_vars(RouteClaim(j)) /\ WF_vars(TaskFetch(j)) /\ WF_vars(TaskReturn(j))
         /\ WF_vars(Timeout(j)) /\ WF_vars(MarkTimedOut(j)) /\ WF_vars(ReportFailure(j))
         /\ WF_vars(CancelTask(j))
  /\ \A w \in Workers :
       /\ WF_vars(Reap(w)) /\ WF_vars(StartWorker(w)) /\ WF_vars(ProbeRead(w))
       /\ WF_vars(ProbeWrite(w))
       /\ \A r \in Rides : WF_vars(RecoverRide(w, r))

FairSpec == Spec /\ LoopFairness

-----------------------------------------------------------------------------
(* The values the variables can have. *)
Statuses == {"absent", "queued", "processing", "completed", "failed", "deleted"}
Percents == {0, 1, 5, 25, 85, 95, 100}
JobRecords ==
  [task : {"idle", "claim", "fetch", "await", "timedout", "report", "run"},
   thread : {"none", "pooled", "returned", "raised"} \cup Working,
   ride : Rides \cup {None},
   seen : Statuses \cup {None},
   host : Workers \cup {None}]

(* Type invariant of the module. *)
TypeOK ==
  /\ status \in [Rides -> Statuses]
  /\ pct \in [Rides -> Percents]
  /\ saved \in [Rides -> 0..2]
  /\ interfered \subseteq Rides
  /\ repeated \subseteq Rides
  /\ worker \in [Workers -> {"down", "recovering", "probing", "up", "draining"}]
  /\ stale \in [Workers -> SUBSET Rides]
  /\ probe \in [Workers -> [ride : Rides, pct : Percents] \cup {None}]
  /\ job \in [Jobs -> JobRecords]
  /\ stops \in 0..MaxStops

(* A job that has claimed r and whose task or thread is still at it. *)
Owns(j, r) ==
  /\ job[j].ride = r
  /\ job[j].task \notin {"idle", "claim"} \/ job[j].thread # "none"

(* Until somebody else writes the ride's row (a time-out or error report, the *)
(* recovery or write test of a starting worker, process_by_id), at most one   *)
(* job of all the API workers and batch workers processes it: what the        *)
(* compare-and-swap of process.py and claim_oldest_queued_ride is for.        *)
SingleProcessor ==
  \A r \in Rides \ interfered : \A j, k \in Jobs : Owns(j, r) /\ Owns(k, r) => j = k

(* Until then its detections are also inserted at most once, whatever fails  *)
(* or crashes on the way, unless the answer of an insertion was lost         *)
(* (_insert_raw_detections has no idempotency key, and svc.insert repeats an *)
(* insertion it has no answer to): no second request, batch worker or        *)
(* restart stores them again.                                                *)
SavedOnce == \A r \in Rides \ (interfered \cup repeated) : saved[r] <= 1

(* A ride reads "completed" only if its detections have been inserted, also  *)
(* when zombie threads, second runs and failure reports write the same row.  *)
CompletedWasSaved == \A r \in Rides : status[r] = "completed" => saved[r] >= 1

(* The app stops polling at 100 %: a completed ride without interference     *)
(* shows 100, although progress updates may fail and are separate calls.     *)
CompletedIsFull ==
  \A r \in Rides \ interfered : status[r] = "completed" => pct[r] = 100

(* Without interference the progress bar never goes back (_update_progress). *)
ProgressMonotone ==
  [][\A r \in Rides : r \notin interfered' => pct'[r] >= pct[r]]_vars

(* "Ride has already been processed": a completed ride is taken up again by  *)
(* process_by_id at most, never by a request or batch worker that read an    *)
(* older status.                                                             *)
CompletedNotReclaimed ==
  [][\A r \in Rides : status[r] = "completed" /\ status'[r] = "processing"
       => \E j \in CliRuns : job[j].ride = r /\ job[j].task = "claim"]_vars

(* While no process has stopped and its calls succeed, somebody works on     *)
(* every ride that reads "processing" (the route answers 409 "Ride is        *)
(* already being processed" on that ground): no time-out, and no error of a  *)
(* request, leaves a ride claimed by nobody.  (A failing call does, and an   *)
(* exception that the batch worker or process_by_id does not catch.)         *)
ProcessingIsOwned ==
  stops = 0 =>
    \A r \in Rides : status[r] = "processing" => \E j \in Jobs : Owns(j, r)

(* At most one job processes a ride, always: what the 409 "Ride is already   *)
(* being processed" promises.                                                *)
NeverTwoProcessors ==
  \A r \in Rides : \A j, k \in Jobs : Owns(j, r) /\ Owns(k, r) => j = k

(* Every ride that is being processed is some day reported completed or      *)
(* failed (or deleted), although a thread may hang for ever.                 *)
ProcessingEnds ==
  \A r \in Rides : status[r] = "processing" ~> status[r] # "processing"

=============================================================================
