------------------------- MODULE RideLifecycleProofs -------------------------
(***************************************************************************)
(* Theorems about RideLifecycle for every set of rides, workers, requests, *)
(* batch workers and CLI runs, every pool size and every choice of faults. *)
(***************************************************************************)
EXTENDS RideLifecycle, TLAPS

(* The actions of one job, of a worker and of the client, as one action of   *)
(* the proofs: which of them may make a job an owner of its ride.            *)
Claims(j) == RouteClaim(j) \/ CliClaim(j)

Reads(j) ==
  \/ \E w \in Workers, r \in Rides : RouteRead(j, w, r)
  \/ BatchRead(j) \/ \E r \in Rides : ByIdRead(j, r)

Reports(j) == MarkTimedOut(j) \/ ReportFailure(j) \/ CliMarkFailed(j)

Others(j) ==
  \/ TaskFetch(j) \/ TaskReturn(j) \/ Timeout(j) \/ CancelTask(j) \/ CrashCli(j)
  \/ StartThread(j) \/ Download(j) \/ Detect(j) \/ Save(j) \/ Insert(j)
  \/ Sync(j) \/ Finalize(j) \/ Complete(j) \/ Raise(j)

JobNext(j) == Claims(j) \/ Reads(j) \/ Reports(j) \/ Others(j)

LEMMA NextCases ==
  ASSUME Next
  PROVE  \/ \E r \in Rides : CompleteUpload(r) \/ DeleteRide(r)
         \/ \E j \in Jobs : JobNext(j)
         \/ \E w \in Workers : WorkerNext(w)
  BY DEF Next, ClientNext, TaskNext, ThreadNext, CliNext, JobNext, Claims, Reads,
         Reports, Others, Jobs

(***************************************************************************)
(* Type correctness.                                                       *)
(***************************************************************************)
LEMMA IdleType == Idle \in JobRecords
  BY DEF Idle, JobRecords

LEMMA GotoType ==
  ASSUME TypeOK, NEW j \in Jobs,
         NEW task \in {"idle", "claim", "fetch", "await", "timedout", "report", "run"},
         NEW thread \in {"none", "pooled", "returned", "raised"} \cup Working,
         Goto(j, task, thread)
  PROVE  job' \in [Jobs -> JobRecords]
<1>1. job[j] \in JobRecords
  BY DEF TypeOK
<1>2. [task |-> task, thread |-> thread, ride |-> job[j].ride,
       seen |-> job[j].seen, host |-> job[j].host] \in JobRecords
  BY <1>1 DEF JobRecords
<1> QED
  BY <1>2 DEF TypeOK, Goto

LEMMA ReadType ==
  ASSUME TypeOK, NEW j \in Jobs, NEW r \in Rides, NEW host \in Workers \cup {None},
         Read(j, r, host)
  PROVE  job' \in [Jobs -> JobRecords]
<1>1. status[r] \in Statuses
  BY DEF TypeOK
<1>2. [task |-> "claim", thread |-> "none", ride |-> r, seen |-> status[r],
       host |-> host] \in JobRecords
  BY <1>1 DEF JobRecords
<1> QED
  BY <1>2 DEF TypeOK, Read

LEMMA ReleaseType ==
  ASSUME TypeOK, NEW j \in Jobs, Release(j)
  PROVE  job' \in [Jobs -> JobRecords]
  BY IdleType DEF TypeOK, Release

LEMMA JobFieldTypes ==
  ASSUME TypeOK, NEW j \in Jobs
  PROVE  /\ job[j].task \in {"idle", "claim", "fetch", "await", "timedout", "report", "run"}
         /\ job[j].thread \in {"none", "pooled", "returned", "raised"} \cup Working
         /\ job[j].ride \in Rides \cup {None}
         /\ job[j].seen \in Statuses \cup {None}
         /\ job[j].host \in Workers \cup {None}
  BY DEF TypeOK, JobRecords

LEMMA SetPctType ==
  ASSUME TypeOK, NEW r, NEW p \in Percents, SetPct(r, p)
  PROVE  pct' \in [Rides -> Percents]
  BY DEF TypeOK, SetPct

(* A job at work has a ride; a request or batch worker about to claim has    *)
(* read a status its guard admits; somebody has read the probed row.         *)
JobInv ==
  \A j \in Jobs :
    /\ job[j].task # "idle" \/ job[j].thread # "none" => job[j].ride \in Rides
    /\ job[j].task \in {"claim", "fetch"} => job[j].thread = "none"
    /\ job[j].task = "claim" => job[j].seen \notin {"absent", "deleted"}
    /\ job[j].task = "claim" /\ j \notin CliRuns
         => job[j].seen \notin {"processing", "completed"}

Typed == TypeOK /\ JobInv

(* What a step of a job other than a read does to its slot. *)
Moves(j) ==
  \E task \in {"idle", "fetch", "await", "timedout", "report", "run"},
     thread \in {"none", "pooled", "returned", "raised"} \cup Working :
       /\ Goto(j, task, thread) /\ job[j].ride \in Rides
       /\ task = "fetch" => thread = "none"

LEMMA JobMoves ==
  ASSUME Typed, NEW j \in Jobs, Claims(j) \/ Reports(j) \/ Others(j)
  PROVE  Moves(j) \/ Release(j)
<1> USE JobFieldTypes DEF Typed, JobInv, Moves
<1>1. CASE Claims(j)
  <2>1. job[j].ride \in Rides
    BY <1>1 DEF Claims, RouteClaim, CliClaim
  <2>2. Goto(j, "fetch", "none") \/ Goto(j, "run", "download") \/ Release(j)
    BY <1>1 DEF Claims, RouteClaim, CliClaim, Claimed
  <2> QED
    BY <2>1, <2>2 DEF Working
<1>2. CASE Reports(j)
  BY <1>2 DEF Reports, MarkTimedOut, ReportFailure, CliMarkFailed
<1>3. CASE TaskFetch(j) \/ TaskReturn(j)
  BY <1>3 DEF TaskFetch, TaskReturn
<1>4. CASE Timeout(j) \/ CancelTask(j) \/ CrashCli(j)
  BY <1>4 DEF Timeout, Abandoned, CancelTask, CrashCli
<1>5. CASE StartThread(j) \/ Sync(j)
  BY <1>5 DEF StartThread, Sync, Working
<1>6. CASE Download(j) \/ Detect(j) \/ Save(j) \/ Finalize(j)
  BY <1>6 DEF Download, Detect, Save, Finalize, Step, Working
<1>7. CASE Insert(j)
  BY <1>7 DEF Insert, Working
<1>8. CASE Complete(j) \/ Raise(j)
  BY <1>8 DEF Complete, Raise, ThreadEnds, Working
<1> QED
  BY <1>1, <1>2, <1>3, <1>4, <1>5, <1>6, <1>7, <1>8 DEF Others

LEMMA JobSlotTyped ==
  ASSUME Typed, NEW j \in Jobs, JobNext(j)
  PROVE  job' \in [Jobs -> JobRecords] /\ JobInv'
<1>1. CASE Moves(j)
  <2>1. job' \in [Jobs -> JobRecords]
    BY <1>1, GotoType DEF Typed, Moves
  <2>2. JobInv'
    BY <1>1 DEF Typed, TypeOK, JobInv, Moves, Goto
  <2> QED
    BY <2>1, <2>2
<1>2. CASE Release(j)
  <2>1. job' \in [Jobs -> JobRecords]
    BY <1>2, ReleaseType DEF Typed
  <2>2. JobInv'
    BY <1>2 DEF Typed, TypeOK, JobInv, Release, Idle
  <2> QED
    BY <2>1, <2>2
<1>3. ASSUME NEW r \in Rides, NEW host \in Workers \cup {None}, Read(j, r, host),
             Exists(r), j \notin CliRuns => status[r] \notin {"processing", "completed"}
      PROVE  job' \in [Jobs -> JobRecords] /\ JobInv'
  <2>1. job' \in [Jobs -> JobRecords]
    BY <1>3, ReadType DEF Typed
  <2>2. JobInv'
    BY <1>3 DEF Typed, TypeOK, JobInv, Read, Exists
  <2> QED
    BY <2>1, <2>2
<1>4. CASE Reads(j)
  BY <1>4, <1>3 DEF Reads, RouteRead, BatchRead, ByIdRead, Oldest, Queued, Exists
<1> QED
  BY <1>1, <1>2, <1>4, JobMoves DEF JobNext

LEMMA JobRowTyped ==
  ASSUME Typed, NEW j \in Jobs, JobNext(j)
  PROVE  /\ status' \in [Rides -> Statuses]
         /\ pct' \in [Rides -> Percents]
         /\ saved' \in [Rides -> 0..2]
         /\ interfered' \subseteq Rides /\ repeated' \subseteq Rides
         /\ worker' = worker /\ stale' = stale /\ probe' = probe
         /\ stops' \in 0..MaxStops
<1> USE JobFieldTypes DEF Typed, TypeOK, rowVars, hostVars, SetFailed, SetPct, Statuses,
          Percents
<1>1. CASE Claims(j)
  BY <1>1 DEF JobInv, Claims, RouteClaim, CliClaim
<1>2. CASE Reports(j)
  BY <1>2 DEF JobInv, Reports, MarkTimedOut, ReportFailure, CliMarkFailed
<1>3. CASE Reads(j)
  BY <1>3 DEF Reads, RouteRead, BatchRead, ByIdRead
<1>4. CASE TaskFetch(j) \/ TaskReturn(j) \/ Timeout(j) \/ CancelTask(j)
             \/ StartThread(j) \/ Sync(j) \/ Raise(j)
  BY <1>4 DEF TaskFetch, TaskReturn, Timeout, CancelTask, StartThread, Sync, Raise
<1>5. CASE CrashCli(j)
  BY <1>5, RideAssumption DEF CrashCli
<1>6. CASE Download(j) \/ Detect(j) \/ Save(j) \/ Finalize(j)
  BY <1>6 DEF Download, Detect, Save, Finalize, Step, Progress
<1>7. CASE Insert(j)
  BY <1>7 DEF JobInv, Insert, Working
<1>8. CASE Complete(j)
  <2>1. UNCHANGED <<saved, interfered, repeated, worker, stale, probe, stops>>
    BY <1>8 DEF Complete, hostVars
  <2>2. status' \in [Rides -> Statuses]
    BY <1>8 DEF Complete
  <2>3. pct' \in [Rides -> Percents]
    BY <1>8, SetPctType DEF Complete
  <2> QED
    BY <2>1, <2>2, <2>3
<1> QED
  BY <1>1, <1>2, <1>3, <1>4, <1>5, <1>6, <1>7, <1>8 DEF JobNext, Others

LEMMA WorkerStepTyped ==
  ASSUME Typed, NEW w \in Workers, WorkerNext(w)
  PROVE  Typed'
<1> USE DEF Typed, TypeOK, rowVars, hostVars, SetFailed, SetPct, Exists
<1>1. CASE StartWorker(w)
  BY <1>1 DEF StartWorker, JobInv
<1>2. CASE \E r \in Rides : RecoverRide(w, r)
  BY <1>2 DEF RecoverRide, JobInv, Statuses, Percents
<1>3. CASE ProbeRead(w)
  BY <1>3 DEF ProbeRead, JobInv
<1>4. CASE ProbeWrite(w)
  <2>1. probe[w] # None => probe[w].ride \in Rides /\ probe[w].pct \in Percents
    OBVIOUS
  <2> QED
    BY <1>4, <2>1 DEF ProbeWrite, JobInv
<1>5. CASE SignalShutdown(w)
  BY <1>5, RideAssumption DEF SignalShutdown, JobInv
<1>6. CASE Reap(w) \/ CrashWorker(w)
  <2>1. job' \in [Jobs -> JobRecords]
    BY <1>6, IdleType DEF Reap, CrashWorker, ProcessEnds
  <2>2. JobInv'
    BY <1>6 DEF Reap, CrashWorker, ProcessEnds, JobInv, Idle
  <2>3. stops' \in 0..MaxStops
    BY <1>6, RideAssumption DEF Reap, CrashWorker
  <2>4. /\ worker' \in [Workers -> {"down", "recovering", "probing", "up", "draining"}]
        /\ stale' \in [Workers -> SUBSET Rides]
        /\ probe' \in [Workers -> [ride : Rides, pct : Percents] \cup {None}]
    BY <1>6 DEF Reap, CrashWorker, ProcessEnds
  <2>5. UNCHANGED rowVars
    BY <1>6 DEF Reap, CrashWorker, ProcessEnds
  <2> QED
    BY <2>1, <2>2, <2>3, <2>4, <2>5
<1> QED
  BY <1>1, <1>2, <1>3, <1>4, <1>5, <1>6 DEF WorkerNext

LEMMA ClientStepTyped ==
  ASSUME Typed, NEW r \in Rides, CompleteUpload(r) \/ DeleteRide(r)
  PROVE  Typed'
  BY DEF Typed, TypeOK, JobInv, CompleteUpload, DeleteRide, hostVars, Statuses

LEMMA TypedInitially == Init => Typed
<1> SUFFICES ASSUME Init PROVE Typed
  OBVIOUS
<1>1. job \in [Jobs -> JobRecords]
  BY IdleType DEF Init
<1>2. JobInv
  BY DEF Init, JobInv, Idle
<1> QED
  BY <1>1, <1>2, RideAssumption DEF Init, Typed, TypeOK, Statuses, Percents

LEMMA TypedStep == Typed /\ [Next]_vars => Typed'
<1> SUFFICES ASSUME Typed, [Next]_vars PROVE Typed'
  OBVIOUS
<1>1. ASSUME NEW j \in Jobs, JobNext(j) PROVE Typed'
  BY <1>1, JobSlotTyped, JobRowTyped DEF Typed, TypeOK
<1>2. CASE UNCHANGED vars
  BY <1>2 DEF Typed, TypeOK, JobInv, vars
<1> QED
  BY <1>1, <1>2, NextCases, ClientStepTyped, WorkerStepTyped

(* The variables keep their types, and every job at work has a ride, in      *)
(* every state of every instance of the life cycle.                          *)
THEOREM TypeCorrect == Spec => []TypeOK
<1>1. Spec => []Typed
  BY TypedInitially, TypedStep, PTL DEF Spec
<1>2. Typed => TypeOK
  BY DEF Typed
<1> QED
  BY <1>1, <1>2, PTL

(***************************************************************************)
(* One processor, one insertion.                                           *)
(***************************************************************************)
Unsaved(j) ==
  job[j].task = "fetch" \/ job[j].thread \in {"pooled", "download", "detect", "save", "insert"}

Saved(j) == job[j].thread \in {"sync", "finalize", "complete"}

(* Until somebody interferes: a ride that waits in the queue has no owner,   *)
(* and what the compare-and-swap admits is such a ride.                      *)
OwnInv ==
  \A r \in Rides \ interfered :
    /\ status[r] # "failed"
    /\ status[r] \in {"absent", "queued"} => \A j \in Jobs : ~Owns(j, r)
    /\ \A j, k \in Jobs : Owns(j, r) /\ Owns(k, r) => j = k

(* ... and its detections are in only once its owner is past saving them, or *)
(* an executed insertion had no answer.                                      *)
SavedInv ==
  \A r \in Rides \ (interfered \cup repeated) :
    /\ saved[r] <= 1
    /\ status[r] \in {"absent", "queued"} => saved[r] = 0
    /\ \A j \in Jobs : Owns(j, r) /\ Unsaved(j) => saved[r] = 0

(* Zombies and later runs included, a thread past saving has saved.          *)
CompletedInv ==
  /\ \A r \in Rides : status[r] = "completed" => saved[r] >= 1
  /\ \A j \in Jobs : Saved(j) => saved[job[j].ride] >= 1

IInv == Typed /\ OwnInv /\ SavedInv /\ CompletedInv

LEMMA IInvInitially == Init => IInv
<1> SUFFICES ASSUME Init PROVE IInv
  OBVIOUS
<1>1. \A j \in Jobs : job[j] = Idle
  BY DEF Init
<1>2. \A j \in Jobs : ~Saved(j) /\ \A r \in Rides : ~Owns(j, r)
  BY <1>1 DEF Idle, Saved, Owns, Working
<1> QED
  BY <1>2, TypedInitially DEF Init, IInv, OwnInv, SavedInv, CompletedInv

(* Reads, reports and the other steps make no job an owner, and take no job  *)
(* back to before it saved or forward to after it did; Insert is apart.       *)
LEMMA SlotEffect ==
  ASSUME Typed, NEW j \in Jobs, Reads(j) \/ Reports(j) \/ Others(j), ~Insert(j)
  PROVE  /\ \A k \in Jobs, r \in Rides :
              Owns(k, r)' => Owns(k, r) /\ (Unsaved(k)' => Unsaved(k))
         /\ \A k \in Jobs : Saved(k)' => Saved(k) /\ job'[k].ride = job[k].ride
<1> USE JobFieldTypes DEF Typed, TypeOK, JobInv, Owns, Unsaved, Saved, Goto, Release, Idle
<1>1. CASE Reads(j)
  <2>1. CASE \E w \in Workers, r \in Rides : RouteRead(j, w, r)
    BY <2>1 DEF RouteRead, Read
  <2>2. CASE BatchRead(j)
    BY <2>2 DEF BatchRead, Read
  <2>3. CASE \E r \in Rides : ByIdRead(j, r)
    BY <2>3 DEF ByIdRead, Read
  <2> QED BY <1>1, <2>1, <2>2, <2>3 DEF Reads
<1>2. CASE MarkTimedOut(j)
  BY <1>2 DEF MarkTimedOut
<1>3. CASE ReportFailure(j)
  BY <1>3 DEF ReportFailure
<1>4. CASE CliMarkFailed(j) \/ CrashCli(j)
  BY <1>4 DEF CliMarkFailed, CrashCli
<1>5. CASE TaskFetch(j) \/ TaskReturn(j)
  BY <1>5 DEF TaskFetch, TaskReturn
<1>6. CASE Timeout(j) \/ CancelTask(j)
  BY <1>6 DEF Timeout, Abandoned, CancelTask, Working
<1>7. CASE StartThread(j) \/ Sync(j)
  BY <1>7 DEF StartThread, Sync
<1>8. CASE Download(j) \/ Detect(j) \/ Save(j) \/ Finalize(j)
  BY <1>8 DEF Download, Detect, Save, Finalize, Step
<1>9. CASE Complete(j) \/ Raise(j)
  BY <1>9 DEF Complete, Raise, ThreadEnds, Working
<1> QED
  BY <1>1, <1>2, <1>3, <1>4, <1>5, <1>6, <1>7, <1>8, <1>9 DEF Reports, Others

(* What these steps do to the row of a ride nobody interferes with.          *)
LEMMA RowEffect ==
  ASSUME IInv, NEW j \in Jobs, Reads(j) \/ Reports(j) \/ Others(j), ~Insert(j)
  PROVE  /\ saved' = saved /\ repeated' = repeated
         /\ interfered \subseteq interfered'
         /\ \A r \in Rides \ interfered' : status'[r] \in {status[r], "completed"}
         /\ \A r \in Rides : status'[r] = "completed" => saved[r] >= 1
<1> USE JobFieldTypes DEF IInv, Typed, TypeOK, CompletedInv, SetFailed, rowVars
<1>1. CASE Reads(j)
  BY <1>1 DEF Reads, RouteRead, BatchRead, ByIdRead
<1>2. CASE Reports(j)
  BY <1>2 DEF Reports, MarkTimedOut, ReportFailure, CliMarkFailed
<1>3. CASE TaskFetch(j) \/ TaskReturn(j) \/ Timeout(j) \/ CancelTask(j) \/ CrashCli(j)
             \/ StartThread(j) \/ Sync(j) \/ Raise(j)
  BY <1>3 DEF TaskFetch, TaskReturn, Timeout, CancelTask, CrashCli, StartThread, Sync, Raise
<1>4. CASE Download(j) \/ Detect(j) \/ Save(j) \/ Finalize(j)
  BY <1>4 DEF Download, Detect, Save, Finalize, Step
<1>5. CASE Complete(j)
  BY <1>5 DEF Complete, Saved
<1> QED
  BY <1>1, <1>2, <1>3, <1>4, <1>5 DEF Others

LEMMA UnclaimingStep ==
  ASSUME IInv, NEW j \in Jobs, Reads(j) \/ Reports(j) \/ Others(j), ~Insert(j)
  PROVE  OwnInv' /\ SavedInv' /\ CompletedInv'
<1>1. OwnInv'
  BY SlotEffect, RowEffect DEF IInv, OwnInv
<1>2. SavedInv'
  BY SlotEffect, RowEffect DEF IInv, SavedInv
<1>3. CompletedInv'
  BY SlotEffect, RowEffect DEF IInv, CompletedInv
<1> QED
  BY <1>1, <1>2, <1>3

LEMMA InsertStep ==
  ASSUME IInv, NEW j \in Jobs, Insert(j)
  PROVE  OwnInv' /\ SavedInv' /\ CompletedInv'
<1> DEFINE r0 == job[j].ride
<1> USE JobFieldTypes DEF IInv, Typed, TypeOK, JobInv, Insert, Goto
<1>1. r0 \in Rides /\ Owns(j, r0) /\ Unsaved(j)
  BY DEF Owns, Unsaved
<1>2. \A k \in Jobs : /\ k # j => job'[k] = job[k]
                      /\ job'[k].ride = job[k].ride
                      /\ job'[k].task = job[k].task
  OBVIOUS
<1>3. \A k \in Jobs, r \in Rides : Owns(k, r)' => Owns(k, r)
  BY <1>1, <1>2 DEF Owns
<1>4. r0 \notin repeated' => ~Unsaved(j)'
  BY <1>1 DEF Unsaved, JobInv
<1>5. /\ saved' \in [Rides -> 0..2] /\ saved'[r0] >= 1
      /\ saved[r0] = 0 => saved'[r0] = 1
      /\ \A r \in Rides : saved'[r] >= saved[r] /\ (r # r0 => saved'[r] = saved[r])
      /\ repeated \subseteq repeated'
  BY <1>1
<1>6. OwnInv'
  BY <1>3 DEF OwnInv
<1>7. SavedInv'
  <2> SUFFICES ASSUME NEW r \in Rides \ (interfered' \cup repeated')
               PROVE  /\ saved'[r] <= 1
                      /\ status'[r] \in {"absent", "queued"} => saved'[r] = 0
                      /\ \A k \in Jobs : Owns(k, r)' /\ Unsaved(k)' => saved'[r] = 0
    BY DEF SavedInv
  <2>1. CASE r = r0
    BY <2>1, <1>1, <1>2, <1>3, <1>4, <1>5 DEF SavedInv, OwnInv
  <2>2. CASE r # r0
    BY <2>2, <1>1, <1>2, <1>3, <1>5 DEF SavedInv, Unsaved
  <2> QED
    BY <2>1, <2>2
<1>8. CompletedInv'
  BY <1>1, <1>2, <1>5 DEF CompletedInv, Saved
<1> QED
  BY <1>6, <1>7, <1>8

LEMMA ClaimStep ==
  ASSUME IInv, NEW j \in Jobs, Claims(j)
  PROVE  OwnInv' /\ SavedInv' /\ CompletedInv'
<1> DEFINE r0 == job[j].ride
<1> USE JobFieldTypes DEF IInv, Typed, TypeOK, JobInv
<1>1. /\ saved' = saved /\ repeated' = repeated /\ interfered \subseteq interfered'
      /\ r0 \in Rides /\ job[j].task = "claim"
  BY DEF Claims, RouteClaim, CliClaim
<1>2. CASE Release(j)
  <2>1. \A k \in Jobs : /\ \A r \in Rides : Owns(k, r)' => Owns(k, r)
                        /\ Unsaved(k)' => Unsaved(k)
                        /\ Saved(k)' => Saved(k) /\ job'[k].ride = job[k].ride
    BY <1>2 DEF Release, Idle, Owns, Unsaved, Saved
  <2>2. \A r \in Rides : status'[r] = status[r]
                        \/ status'[r] = "processing"
    BY DEF Claims, RouteClaim, CliClaim
  <2>3. OwnInv'
    BY <1>1, <2>1, <2>2 DEF OwnInv
  <2>4. SavedInv'
    BY <1>1, <2>1, <2>2 DEF SavedInv
  <2>5. CompletedInv'
    BY <1>1, <2>1, <2>2 DEF CompletedInv
  <2> QED
    BY <2>3, <2>4, <2>5
<1>3. CASE ~Release(j)
  <2>1. /\ status[r0] = job[j].seen
        /\ status' = [status EXCEPT ![r0] = "processing"]
        /\ j \in CliRuns => r0 \in interfered'
        /\ Goto(j, "fetch", "none") \/ Goto(j, "run", "download")
    BY <1>3, RideAssumption DEF Claims, RouteClaim, CliClaim, Claim, Claimed
  <2>2. \A k \in Jobs : k # j =>
          /\ \A r \in Rides : Owns(k, r)' => Owns(k, r)
          /\ Unsaved(k)' => Unsaved(k)
          /\ Saved(k)' => Saved(k) /\ job'[k].ride = job[k].ride
    BY <2>1 DEF Goto, Owns, Unsaved, Saved
  <2>3. ~Saved(j)' /\ \A r \in Rides : Owns(j, r)' => r = r0
    BY <2>1 DEF Goto, Owns, Saved
  <2>4. r0 \notin interfered' =>
          /\ status[r0] = "queued"
          /\ \A k \in Jobs : ~Owns(k, r0)
          /\ r0 \notin repeated => saved[r0] = 0
    BY <1>1, <2>1 DEF OwnInv, SavedInv, Statuses
  <2>5. OwnInv'
    BY <1>1, <2>1, <2>2, <2>3, <2>4 DEF OwnInv
  <2>6. SavedInv'
    BY <1>1, <2>1, <2>2, <2>3, <2>4 DEF SavedInv
  <2>7. CompletedInv'
    BY <1>1, <2>1, <2>2, <2>3 DEF CompletedInv
  <2> QED
    BY <2>5, <2>6, <2>7
<1> QED
  BY <1>2, <1>3

(* Steps of a worker process and of the client: jobs only disappear, and the *)
(* row of a ride nobody interferes with changes only by upload and deletion. *)
LEMMA EnvironmentStep ==
  ASSUME IInv,
         \/ \E w \in Workers : WorkerNext(w)
         \/ \E r \in Rides : CompleteUpload(r) \/ DeleteRide(r)
  PROVE  OwnInv' /\ SavedInv' /\ CompletedInv'
<1> USE DEF IInv, Typed, TypeOK, rowVars, hostVars, SetFailed
<1>1. \A k \in Jobs : job'[k] \in {job[k], Idle}
  BY DEF WorkerNext, StartWorker, RecoverRide, ProbeRead, ProbeWrite, SignalShutdown, Reap,
         CrashWorker, ProcessEnds, CompleteUpload, DeleteRide
<1>2. /\ saved' = saved /\ repeated' = repeated
      /\ interfered \subseteq interfered'
  BY DEF WorkerNext, StartWorker, RecoverRide, ProbeRead, ProbeWrite, SignalShutdown, Reap,
         CrashWorker, ProcessEnds, CompleteUpload, DeleteRide
<1>3. /\ \A r \in Rides \ interfered' :
          \/ status'[r] = status[r] \/ status'[r] = "deleted"
          \/ status[r] = "absent" /\ status'[r] = "queued"
      /\ \A r \in Rides : status'[r] = "completed" => status[r] = "completed"
  BY DEF WorkerNext, StartWorker, RecoverRide, ProbeRead, ProbeWrite, SignalShutdown, Reap,
         CrashWorker, ProcessEnds, CompleteUpload, DeleteRide
<1>4. \A k \in Jobs : /\ \A r \in Rides : Owns(k, r)' => Owns(k, r)
                      /\ Unsaved(k)' => Unsaved(k)
                      /\ Saved(k)' => Saved(k) /\ job'[k].ride = job[k].ride
  BY <1>1 DEF Owns, Unsaved, Saved, Idle
<1>5. OwnInv'
  BY <1>2, <1>3, <1>4 DEF OwnInv
<1>6. SavedInv'
  BY <1>2, <1>3, <1>4 DEF SavedInv
<1>7. CompletedInv'
  BY <1>2, <1>3, <1>4 DEF CompletedInv
<1> QED
  BY <1>5, <1>6, <1>7

LEMMA IInvStep == IInv /\ [Next]_vars => IInv'
<1> SUFFICES ASSUME IInv, [Next]_vars PROVE IInv'
  OBVIOUS
<1>1. Typed'
  BY TypedStep DEF IInv
<1>2. CASE UNCHANGED vars
  BY <1>1, <1>2 DEF vars, IInv, OwnInv, SavedInv, CompletedInv, Owns, Unsaved, Saved
<1>3. ASSUME NEW j \in Jobs, JobNext(j) PROVE OwnInv' /\ SavedInv' /\ CompletedInv'
  BY <1>3, UnclaimingStep, InsertStep, ClaimStep DEF JobNext
<1> QED
  BY <1>1, <1>2, <1>3, NextCases, EnvironmentStep DEF IInv

LEMMA Inductive == Spec => []IInv
  BY IInvInitially, IInvStep, PTL DEF Spec

(* As long as nobody else writes the ride's row, the compare-and-swap keeps  *)
(* a second job away, for any number of workers, requests and crashes.       *)
THEOREM OneProcessor == Spec => []SingleProcessor
<1>1. IInv => SingleProcessor
  BY DEF IInv, OwnInv, SingleProcessor
<1> QED
  BY <1>1, Inductive, PTL

(* ... and its detections go in at most once, unless the answer of an        *)
(* insertion was lost.                                                       *)
THEOREM OneInsertion == Spec => []SavedOnce
<1>1. IInv => SavedOnce
  BY DEF IInv, SavedInv, SavedOnce
<1> QED
  BY <1>1, Inductive, PTL

(* "completed" is never shown for a ride without its detections, with        *)
(* time-outs, zombie threads, recoveries and second runs.                    *)
THEOREM CompletedMeansSaved == Spec => []CompletedWasSaved
<1>1. IInv => CompletedWasSaved
  BY DEF IInv, CompletedInv, CompletedWasSaved
<1> QED
  BY <1>1, Inductive, PTL

(***************************************************************************)
(* The progress bar.                                                       *)
(***************************************************************************)
(* The percentage that a job's thread writes next, and whether it still has  *)
(* one to write.                                                             *)
Due(j) ==
  CASE job[j].thread \in {"none", "pooled", "download"} -> 5
    [] job[j].thread = "detect" -> 25
    [] job[j].thread = "save" -> 85
    [] job[j].thread \in {"insert", "sync", "finalize"} -> 95
    [] OTHER -> 100

Unfinished(j) == job[j].task = "fetch" \/ job[j].thread \in Working \cup {"pooled"}

(* Until somebody interferes: the bar of a waiting ride is at the start, and *)
(* that of a completed ride at the end, where nobody is left but to complete *)
(* it again; what the ride's processor writes next is not below what it has  *)
(* written.                                                                  *)
BarInv ==
  \A r \in Rides \ interfered :
    /\ status[r] \in {"absent", "queued"} => pct[r] = 0
    /\ status[r] = "completed" => pct[r] = 100
    /\ \A j \in Jobs : Owns(j, r) /\ Unfinished(j)
         => /\ status[r] = "completed" => Due(j) = 100
            /\ pct[r] <= Due(j)

(* What a step may do to the bar of a ride (ProgressMonotone).               *)
Monotone == \A r \in Rides : r \notin interfered' => pct'[r] >= pct[r]

LEMMA BarInitially == Init => BarInv
<1> SUFFICES ASSUME Init PROVE BarInv
  OBVIOUS
<1>1. \A j \in Jobs : job[j] = Idle
  BY DEF Init
<1>2. \A j \in Jobs : ~Unfinished(j)
  BY <1>1 DEF Idle, Unfinished, Working
<1> QED
  BY <1>2 DEF Init, BarInv

(* Steps that write no bar and complete nothing, of a ride nobody interferes *)
(* with, and that take no job back in its work or forward.                   *)
BarsKept ==
  /\ interfered \subseteq interfered'
  /\ \A r \in Rides \ interfered' :
       /\ pct'[r] = pct[r]
       /\ \/ status'[r] \in {status[r], "deleted"}
          \/ status[r] = "absent" /\ status'[r] = "queued"

WorkKept ==
  \A k \in Jobs, r \in Rides :
    Owns(k, r)' /\ Unfinished(k)' => Owns(k, r) /\ Unfinished(k) /\ Due(k)' = Due(k)

LEMMA BarUntouched ==
  ASSUME IInv, BarInv, BarsKept, WorkKept
  PROVE  BarInv' /\ Monotone
<1>1. \A r \in Rides : pct[r] \in Nat
  BY DEF IInv, Typed, TypeOK, Percents
<1>2. Monotone
  BY <1>1 DEF Monotone, BarsKept
<1>3. BarInv'
  BY DEF BarInv, BarsKept, WorkKept
<1> QED
  BY <1>2, <1>3

LEMMA BarBystander ==
  ASSUME IInv, BarInv, NEW j \in Jobs,
         \/ Reads(j) \/ Reports(j) \/ TaskFetch(j) \/ TaskReturn(j) \/ Timeout(j)
         \/ CancelTask(j) \/ CrashCli(j) \/ StartThread(j) \/ Insert(j) \/ Sync(j)
         \/ Raise(j)
  PROVE  BarInv' /\ Monotone
<1>1. BarsKept
  <2> USE JobFieldTypes DEF IInv, Typed, TypeOK, SetFailed, SetPct, rowVars, BarsKept
  <2>1. CASE Reads(j)
    BY <2>1 DEF Reads, RouteRead, BatchRead, ByIdRead
  <2>2. CASE Reports(j)
    BY <2>2 DEF Reports, MarkTimedOut, ReportFailure, CliMarkFailed
  <2> QED
    BY <2>1, <2>2 DEF TaskFetch, TaskReturn, Timeout, CancelTask, CrashCli, StartThread, Insert,
                      Sync, Raise
<1>2. WorkKept
  <2> USE JobFieldTypes DEF IInv, Typed, TypeOK, JobInv, WorkKept, Owns, Unfinished, Due, Goto,
                            Release, Idle, Working
  <2>1. CASE Reads(j)
    BY <2>1 DEF Reads, RouteRead, BatchRead, ByIdRead, Read
  <2>2. CASE Reports(j)
    BY <2>2 DEF Reports, MarkTimedOut, ReportFailure, CliMarkFailed
  <2>3. CASE TaskFetch(j) \/ TaskReturn(j)
    BY <2>3 DEF TaskFetch, TaskReturn
  <2>4. CASE Timeout(j) \/ CancelTask(j) \/ CrashCli(j)
    BY <2>4 DEF Timeout, Abandoned, CancelTask, CrashCli
  <2>5. CASE StartThread(j) \/ Insert(j) \/ Sync(j)
    BY <2>5 DEF StartThread, Insert, Sync
  <2>6. CASE Raise(j)
    BY <2>6 DEF Raise, ThreadEnds
  <2> QED
    BY <2>1, <2>2, <2>3, <2>4, <2>5, <2>6
<1> QED
  BY <1>1, <1>2, BarUntouched

(* A stage ends: its percentage is written, or the update fails.             *)
LEMMA BarStage ==
  ASSUME IInv, BarInv, NEW j \in Jobs, Download(j) \/ Detect(j) \/ Save(j) \/ Finalize(j)
  PROVE  BarInv' /\ Monotone
<1> DEFINE r0 == job[j].ride
           p == Due(j)
<1> USE JobFieldTypes DEF IInv, Typed, TypeOK, JobInv
<1>1. /\ Progress(j, p) /\ UNCHANGED <<status, interfered>>
      /\ p \in 0..99 /\ Due(j)' \in Nat /\ Due(j)' >= p
      /\ job[j].thread \in Working
      /\ \A k \in Jobs : /\ job'[k].ride = job[k].ride /\ job'[k].task = job[k].task
                         /\ k # j => job'[k] = job[k]
  BY DEF Download, Detect, Save, Finalize, Step, Goto, Due, Working
<1>2. r0 \in Rides /\ Owns(j, r0) /\ Unfinished(j)
  BY <1>1 DEF Owns, Unfinished, Working
<1> HIDE DEF p
<1>3. /\ \A r \in Rides : r # r0 => pct'[r] = pct[r]
      /\ pct'[r0] \in {p, pct[r0]}
  BY <1>1 DEF Progress, SetPct
<1>4. \A r \in Rides : pct[r] \in Nat
  BY DEF Percents
<1>5. r0 \notin interfered =>
        /\ \A k \in Jobs : Owns(k, r0) => k = j
        /\ status[r0] \notin {"absent", "queued", "completed"} /\ pct[r0] <= p
  BY <1>1, <1>2 DEF OwnInv, BarInv, p
<1>6. Monotone
  BY <1>1, <1>3, <1>4, <1>5 DEF Monotone
<1>7. \A k \in Jobs, r \in Rides : Owns(k, r)' /\ k # j => Owns(k, r)
  BY <1>1 DEF Owns
<1>8. \A k \in Jobs : k # j => Unfinished(k)' = Unfinished(k) /\ Due(k)' = Due(k)
  BY <1>1 DEF Unfinished, Due
<1>9. \A r \in Rides : Owns(j, r)' => r = r0
  BY <1>1 DEF Owns
<1>10. BarInv'
  <2> SUFFICES ASSUME NEW r \in Rides \ interfered'
               PROVE  /\ status'[r] \in {"absent", "queued"} => pct'[r] = 0
                      /\ status'[r] = "completed" => pct'[r] = 100
                      /\ \A k \in Jobs : Owns(k, r)' /\ Unfinished(k)'
                           => /\ status'[r] = "completed" => Due(k)' = 100
                              /\ pct'[r] <= Due(k)'
    BY DEF BarInv
  <2>1. CASE r = r0
    <3>1. pct'[r0] \in Nat /\ pct'[r0] <= Due(j)'
      BY <2>1, <1>1, <1>3, <1>4, <1>5
    <3>2. \A k \in Jobs : Owns(k, r)' => k = j
      BY <2>1, <1>1, <1>5, <1>7
    <3> QED
      BY <2>1, <3>1, <3>2, <1>1, <1>5
  <2>2. CASE r # r0
    BY <2>2, <1>1, <1>3, <1>7, <1>8, <1>9 DEF BarInv
  <2> QED
    BY <2>1, <2>2
<1> QED
  BY <1>6, <1>10

LEMMA BarComplete ==
  ASSUME IInv, BarInv, NEW j \in Jobs, Complete(j)
  PROVE  BarInv' /\ Monotone
<1> DEFINE r0 == job[j].ride
<1> USE JobFieldTypes DEF IInv, Typed, TypeOK, JobInv
<1>1. /\ r0 \in Rides /\ Owns(j, r0)
      /\ UNCHANGED interfered
      /\ \A r \in Rides : r # r0 => pct'[r] = pct[r] /\ status'[r] = status[r]
      /\ Exists(r0) => status'[r0] = "completed" /\ pct'[r0] = 100
      /\ ~Exists(r0) => status'[r0] = status[r0] /\ pct'[r0] = pct[r0]
  BY DEF Complete, SetPct, Owns, Working
<1>2. /\ Unfinished(j)' => job'[j].thread = "complete" /\ job'[j].ride = r0
      /\ \A k \in Jobs : k # j => job'[k] = job[k]
  BY DEF Complete, ThreadEnds, Goto, Release, Idle, Unfinished, Working
<1>3. \A k \in Jobs, r \in Rides :
        Owns(k, r)' /\ Unfinished(k)' =>
          \/ k # j /\ Owns(k, r) /\ Unfinished(k) /\ Due(k)' = Due(k)
          \/ k = j /\ r = r0 /\ Due(k)' = 100
  BY <1>2 DEF Owns, Unfinished, Due
<1>4. \A r \in Rides : pct[r] \in Nat /\ pct[r] <= 100
  BY DEF Percents
<1>5. r0 \notin interfered =>
        /\ \A k \in Jobs : Owns(k, r0) => k = j
        /\ status[r0] \notin {"absent", "queued"}
  BY <1>1 DEF OwnInv
<1>6. Monotone
  BY <1>1, <1>4 DEF Monotone
<1>7. BarInv'
  <2> SUFFICES ASSUME NEW r \in Rides \ interfered'
               PROVE  /\ status'[r] \in {"absent", "queued"} => pct'[r] = 0
                      /\ status'[r] = "completed" => pct'[r] = 100
                      /\ \A k \in Jobs : Owns(k, r)' /\ Unfinished(k)'
                           => /\ status'[r] = "completed" => Due(k)' = 100
                              /\ pct'[r] <= Due(k)'
    BY DEF BarInv
  <2>1. CASE r = r0
    BY <2>1, <1>1, <1>3, <1>4, <1>5 DEF BarInv
  <2>2. CASE r # r0
    BY <2>2, <1>1, <1>3 DEF BarInv
  <2> QED
    BY <2>1, <2>2
<1> QED
  BY <1>6, <1>7

LEMMA BarClaim ==
  ASSUME IInv, BarInv, NEW j \in Jobs, Claims(j)
  PROVE  BarInv' /\ Monotone
<1> DEFINE r0 == job[j].ride
<1> USE JobFieldTypes DEF IInv, Typed, TypeOK, JobInv
<1>1. /\ r0 \in Rides /\ job[j].task = "claim" /\ interfered \subseteq interfered'
      /\ \A k \in Jobs : k # j => job'[k] = job[k]
  BY DEF Claims, RouteClaim, CliClaim, Claimed, Goto, Release
<1>2. \A k \in Jobs, r \in Rides :
        k # j /\ Owns(k, r)' /\ Unfinished(k)' => Owns(k, r) /\ Unfinished(k) /\ Due(k)' = Due(k)
  BY <1>1 DEF Owns, Unfinished, Due
<1>3. CASE UNCHANGED <<status, pct>>
  <2>1. Release(j) \/ status[r0] = "processing"
    BY <1>3 DEF Claims, RouteClaim, CliClaim
  <2>2. CASE Release(j)
    <3>1. ~Unfinished(j)'
      BY <2>2 DEF Release, Idle, Unfinished, Working
    <3>2. BarsKept
      BY <1>1, <1>3 DEF BarsKept
    <3>3. WorkKept
      BY <3>1, <1>2 DEF WorkKept
    <3> QED
      BY <3>2, <3>3, BarUntouched
  <2>3. CASE ~Release(j)
    <3>1. status[r0] = "processing" /\ status[r0] = job[j].seen
      BY <2>1, <2>3, <1>3, RideAssumption DEF Claims, RouteClaim, CliClaim, Claim
    <3>2. r0 \in interfered'
      <4>1. j \in CliRuns
        BY <1>1, <3>1
      <4> QED
        BY <4>1, <2>3, RideAssumption DEF Claims, RouteClaim, CliClaim
    <3>3. \A r \in Rides : Owns(j, r)' => r = r0
      BY <2>3 DEF Claims, RouteClaim, CliClaim, Claimed, Goto, Owns
    <3> QED
      BY <3>2, <3>3, <1>1, <1>2, <1>3 DEF BarInv, Monotone, Percents
  <2> QED
    BY <2>2, <2>3
<1>4. CASE ~UNCHANGED <<status, pct>>
  <2>1. /\ status[r0] = job[j].seen
        /\ status' = [status EXCEPT ![r0] = "processing"]
        /\ pct' \in {pct, [pct EXCEPT ![r0] = 1]}
        /\ j \in CliRuns => r0 \in interfered'
        /\ Goto(j, "fetch", "none") \/ Goto(j, "run", "download") \/ Release(j)
    BY <1>4, RideAssumption DEF Claims, RouteClaim, CliClaim, Claim, Claimed
  <2>2. Unfinished(j)' => Due(j)' = 5 /\ \A r \in Rides : Owns(j, r)' => r = r0
    BY <2>1 DEF Goto, Release, Idle, Owns, Unfinished, Due, Working
  <2>3. r0 \notin interfered' =>
          /\ status[r0] = "queued" /\ pct[r0] = 0
          /\ \A k \in Jobs : ~Owns(k, r0)
    BY <1>1, <2>1 DEF OwnInv, BarInv, Statuses
  <2>4. \A r \in Rides : pct[r] \in Nat
    BY DEF Percents
  <2>5. Monotone
    BY <2>1, <2>3, <2>4, <1>1 DEF Monotone
  <2>6. BarInv'
    <3> SUFFICES ASSUME NEW r \in Rides \ interfered'
                 PROVE  /\ status'[r] \in {"absent", "queued"} => pct'[r] = 0
                        /\ status'[r] = "completed" => pct'[r] = 100
                        /\ \A k \in Jobs : Owns(k, r)' /\ Unfinished(k)'
                             => /\ status'[r] = "completed" => Due(k)' = 100
                                /\ pct'[r] <= Due(k)'
      BY DEF BarInv
    <3>1. CASE r = r0
      BY <3>1, <1>1, <1>2, <2>1, <2>2, <2>3
    <3>2. CASE r # r0
      BY <3>2, <1>1, <1>2, <2>1, <2>2 DEF BarInv
    <3> QED
      BY <3>1, <3>2
  <2> QED
    BY <2>5, <2>6
<1> QED
  BY <1>3, <1>4

LEMMA BarEnvironment ==
  ASSUME IInv, BarInv,
         \/ \E w \in Workers : WorkerNext(w)
         \/ \E r \in Rides : CompleteUpload(r) \/ DeleteRide(r)
  PROVE  BarInv' /\ Monotone
<1> USE DEF IInv, Typed, TypeOK, rowVars, hostVars, SetFailed, SetPct
<1>1. \A k \in Jobs : job'[k] \in {job[k], Idle}
  BY DEF WorkerNext, StartWorker, RecoverRide, ProbeRead, ProbeWrite, SignalShutdown, Reap,
         CrashWorker, ProcessEnds, CompleteUpload, DeleteRide
<1>2. BarsKept
  <2> USE DEF BarsKept
  <2>1. ASSUME NEW w \in Workers, NEW r \in Rides, RecoverRide(w, r) PROVE BarsKept
    BY <2>1 DEF RecoverRide
  <2>2. ASSUME NEW w \in Workers, ProbeWrite(w) PROVE BarsKept
    BY <2>2 DEF ProbeWrite
  <2>3. ASSUME NEW w \in Workers,
               \/ StartWorker(w) \/ ProbeRead(w) \/ SignalShutdown(w) \/ Reap(w)
               \/ CrashWorker(w)
        PROVE  BarsKept
    BY <2>3 DEF StartWorker, ProbeRead, SignalShutdown, Reap, CrashWorker, ProcessEnds
  <2>4. ASSUME NEW r \in Rides, CompleteUpload(r) \/ DeleteRide(r) PROVE BarsKept
    BY <2>4 DEF CompleteUpload, DeleteRide
  <2> QED
    BY <2>1, <2>2, <2>3, <2>4 DEF WorkerNext
<1>3. WorkKept
  BY <1>1 DEF WorkKept, Owns, Unfinished, Due, Idle, Working
<1> QED
  BY <1>2, <1>3, BarUntouched

LEMMA BarStep ==
  ASSUME IInv, BarInv, Next
  PROVE  BarInv' /\ Monotone
<1>1. ASSUME NEW j \in Jobs, JobNext(j) PROVE BarInv' /\ Monotone
  BY <1>1, BarBystander, BarStage, BarComplete, BarClaim DEF JobNext, Others
<1> QED
  BY <1>1, NextCases, BarEnvironment

LEMMA BarInductive == Spec => [](IInv /\ BarInv)
<1>1. Init => IInv /\ BarInv
  BY IInvInitially, BarInitially
<1>2. IInv /\ BarInv /\ [Next]_vars => (IInv /\ BarInv)'
  <2> SUFFICES ASSUME IInv, BarInv, [Next]_vars PROVE IInv' /\ BarInv'
    OBVIOUS
  <2>1. CASE UNCHANGED vars
    BY <2>1, IInvStep DEF vars, BarInv, Owns, Unfinished, Due
  <2> QED
    BY <2>1, IInvStep, BarStep
<1> QED
  BY <1>1, <1>2, PTL DEF Spec

(* A completed ride shows 100 % until somebody interferes, also when every   *)
(* update of its progress was lost on the way.                               *)
THEOREM CompletedShowsFull == Spec => []CompletedIsFull
<1>1. BarInv => CompletedIsFull
  BY DEF BarInv, CompletedIsFull
<1> QED
  BY <1>1, BarInductive, PTL

(* ... and its bar never goes back on the way there.                         *)
THEOREM ProgressNeverFalls == Spec => ProgressMonotone
<1>1. IInv /\ BarInv /\ [Next]_vars => [Monotone]_vars
  BY BarStep
<1> QED
  BY <1>1, BarInductive, PTL DEF Spec, ProgressMonotone, Monotone

(***************************************************************************)
(* Claims of completed rides, and rides that are claimed by nobody.        *)
(***************************************************************************)
(* Only a claim writes "processing", and the job goes on unless the answer   *)
(* is lost.                                                                  *)
LEMMA OnlyClaims ==
  ASSUME Typed, Next, NEW r \in Rides, status'[r] = "processing", status[r] # "processing"
  PROVE  \E j \in Jobs :
           /\ Claims(j)
           /\ job[j].ride = r /\ job[j].task = "claim" /\ job[j].seen = status[r]
           /\ "db" \notin Faults => Goto(j, "fetch", "none") \/ Goto(j, "run", "download")
<1> USE DEF Typed, TypeOK, SetFailed, rowVars
<1>1. ASSUME NEW j \in Jobs, Claims(j)
      PROVE  /\ Claims(j)
             /\ job[j].ride = r /\ job[j].task = "claim" /\ job[j].seen = status[r]
             /\ "db" \notin Faults => Goto(j, "fetch", "none") \/ Goto(j, "run", "download")
  <2>1. CASE RouteClaim(j)
    <3>1. /\ status' = [status EXCEPT ![job[j].ride] = "processing"]
          /\ Claimed(j, "fetch", "none")
          /\ job[j].task = "claim" /\ Claim(job[j].ride, job[j].seen)
      BY <2>1 DEF RouteClaim
    <3> QED
      BY <1>1, <3>1 DEF Claim, Claimed
  <2>2. CASE CliClaim(j)
    <3>1. /\ status' = [status EXCEPT ![job[j].ride] = "processing"]
          /\ Claimed(j, "run", "download")
          /\ job[j].task = "claim" /\ Claim(job[j].ride, job[j].seen)
      BY <2>2 DEF CliClaim
    <3> QED
      BY <1>1, <3>1 DEF Claim, Claimed
  <2> QED
    BY <1>1, <2>1, <2>2 DEF Claims
<1>2. ASSUME NEW j \in Jobs, Reads(j) PROVE FALSE
  BY <1>2 DEF Reads, RouteRead, BatchRead, ByIdRead
<1>3. ASSUME NEW j \in Jobs, Reports(j) PROVE FALSE
  BY <1>3 DEF Reports, MarkTimedOut, ReportFailure, CliMarkFailed
<1>4. ASSUME NEW j \in Jobs, Others(j) PROVE FALSE
  <2>1. status' = status \/ Complete(j)
    BY <1>4 DEF Others, TaskFetch, TaskReturn, Timeout, CancelTask, CrashCli, StartThread,
                Download, Detect, Save, Insert, Sync, Finalize, Raise, Step
  <2> QED
    BY <2>1 DEF Complete
<1>5. ASSUME NEW w \in Workers, WorkerNext(w) PROVE FALSE
  BY <1>5 DEF WorkerNext, StartWorker, RecoverRide, ProbeRead, ProbeWrite, SignalShutdown, Reap,
              CrashWorker, ProcessEnds
<1>6. ASSUME NEW q \in Rides, CompleteUpload(q) \/ DeleteRide(q) PROVE FALSE
  BY <1>6 DEF CompleteUpload, DeleteRide
<1> QED
  BY <1>1, <1>2, <1>3, <1>4, <1>5, <1>6, NextCases DEF JobNext

(* A completed ride is processed again by process_by_id at most, for any     *)
(* number of requests and batch workers with an old status in hand.          *)
THEOREM CompletedStaysCompleted == Spec => CompletedNotReclaimed
<1> DEFINE Kept ==
      \A r \in Rides : status[r] = "completed" /\ status'[r] = "processing"
        => \E j \in CliRuns : job[j].ride = r /\ job[j].task = "claim"
<1>1. ASSUME Typed, Next PROVE Kept
  BY <1>1, OnlyClaims DEF Typed, JobInv
<1>2. Typed /\ [Next]_vars => [Kept]_vars
  BY <1>1
<1>3. Spec => []Typed
  BY TypedInitially, TypedStep, PTL DEF Spec
<1> QED
  BY <1>2, <1>3, PTL DEF Spec, CompletedNotReclaimed

(* The job will still report how ride r went, if no call fails: its task has *)
(* neither ended nor been given the result.                                  *)
Minds(j, r) ==
  /\ job[j].ride = r
  /\ \/ job[j].task \in {"fetch", "timedout", "report", "run"}
     \/ job[j].task = "await" /\ job[j].thread # "returned"

(* A task that waits for a thread is one of a worker process, a thread       *)
(* without a task that of another job.                                       *)
HostInv ==
  \A j \in Jobs :
    /\ \/ job[j].task = "claim" /\ j \in Requests
       \/ job[j].task \in {"fetch", "await"}
       => job[j].host \in Workers
    /\ job[j].task = "run" => j \notin Requests

(* Before the first stop no worker drains, and every claimed ride is minded. *)
MindedInv ==
  /\ HostInv
  /\ stops = 0 =>
       /\ \A w \in Workers : worker[w] # "draining"
       /\ \A r \in Rides : status[r] = "processing" => \E j \in Jobs : Minds(j, r)

(* A thread of the batch worker or of process_by_id that raises may leave    *)
(* its ride claimed (Raise), and so may a failing call.                      *)
Reported ==
  /\ "db" \notin Faults
  /\ "raise" \notin Faults \/ BatchWorkers \cup CliRuns = {}

LEMMA HostStep ==
  ASSUME Typed, HostInv, Next
  PROVE  HostInv'
<1> USE JobFieldTypes, RideAssumption
    DEF Typed, TypeOK, JobInv, HostInv, Goto, Release, Idle, rowVars, hostVars
<1>1. ASSUME NEW j \in Jobs, Reads(j) PROVE job'[j].host \in Workers \/ j \notin Requests
  BY <1>1 DEF Reads, RouteRead, BatchRead, ByIdRead, Read
<1>2. ASSUME NEW j \in Jobs, Reads(j) PROVE job'[j].task = "claim"
  BY <1>2 DEF Reads, RouteRead, BatchRead, ByIdRead, Read
<1>3. ASSUME NEW j \in Jobs, Reads(j) PROVE \A k \in Jobs : k # j => job'[k] = job[k]
  BY <1>3 DEF Reads, RouteRead, BatchRead, ByIdRead, Read
<1>4. ASSUME NEW j \in Jobs, Claims(j) \/ Reports(j) \/ Others(j)
      PROVE  /\ job'[j].task \in {"fetch", "await"} =>
                  /\ \/ job[j].task = "claim" /\ j \in Requests
                     \/ job[j].task \in {"fetch", "await"}
                  /\ job'[j].host = job[j].host
             /\ job'[j].task # "claim"
             /\ job'[j].task = "run" => job[j].task = "run" \/ j \notin Requests
             /\ \A k \in Jobs : k # j => job'[k] = job[k]
  <2>1. CASE Claims(j)
    BY <2>1 DEF Claims, RouteClaim, CliClaim, Claimed
  <2>2. CASE Reports(j)
    BY <2>2 DEF Reports, MarkTimedOut, ReportFailure, CliMarkFailed
  <2>3. CASE TaskFetch(j) \/ TaskReturn(j) \/ Timeout(j) \/ CancelTask(j) \/ CrashCli(j)
    BY <2>3 DEF TaskFetch, TaskReturn, Timeout, CancelTask, CrashCli
  <2>4. CASE StartThread(j) \/ Insert(j) \/ Sync(j)
    BY <2>4 DEF StartThread, Insert, Sync, Working
  <2>5. CASE Download(j) \/ Detect(j) \/ Save(j) \/ Finalize(j)
    BY <2>5 DEF Download, Detect, Save, Finalize, Step, Working
  <2>6. CASE Complete(j) \/ Raise(j)
    BY <2>6 DEF Complete, Raise, ThreadEnds, Working
  <2> QED
    BY <1>4, <2>1, <2>2, <2>3, <2>4, <2>5, <2>6 DEF Others
<1>5. ASSUME NEW w \in Workers, WorkerNext(w) PROVE \A k \in Jobs : job'[k] \in {job[k], Idle}
  BY <1>5 DEF WorkerNext, StartWorker, RecoverRide, ProbeRead, ProbeWrite, SignalShutdown, Reap,
              CrashWorker, ProcessEnds
<1>6. ASSUME NEW r \in Rides, CompleteUpload(r) \/ DeleteRide(r) PROVE job' = job
  BY <1>6 DEF CompleteUpload, DeleteRide
<1> QED
  BY <1>1, <1>2, <1>3, <1>4, <1>5, <1>6, NextCases DEF JobNext

(* As long as nothing has stopped, no step ends the job that minds a ride    *)
(* but one that writes its status.                                           *)
LEMMA MindsStep ==
  ASSUME Reported, Typed, MindedInv, Next, stops' = 0,
         NEW r \in Rides, NEW j \in Jobs, Minds(j, r), status'[r] = "processing"
  PROVE  Minds(j, r)'
<1> USE JobFieldTypes, RideAssumption
    DEF Typed, TypeOK, Reported, Minds, Goto, Release, Idle, rowVars, hostVars, SetFailed, Exists
<1>1. ASSUME NEW k \in Jobs, JobNext(k), k # j PROVE job'[j] = job[j]
  <2>1. CASE Reads(k)
    BY <1>1, <2>1 DEF Reads, RouteRead, BatchRead, ByIdRead, Read
  <2>2. CASE Claims(k) \/ Reports(k) \/ Others(k)
    BY <1>1, <2>2, JobMoves DEF Moves
  <2> QED
    BY <1>1, <2>1, <2>2 DEF JobNext
<1>2. CASE Claims(j) \/ Reads(j)
  BY <1>2 DEF Claims, RouteClaim, CliClaim, Claimed, Reads, RouteRead, BatchRead, ByIdRead
<1>3. CASE Reports(j)
  BY <1>3 DEF Reports, MarkTimedOut, ReportFailure, CliMarkFailed
<1>4. CASE TaskFetch(j) \/ TaskReturn(j)
  BY <1>4 DEF TaskFetch, TaskReturn
<1>5. CASE Timeout(j)
  BY <1>5 DEF Timeout
<1>6. stops \in Nat
  OBVIOUS
<1>7. CASE CancelTask(j) \/ CrashCli(j)
  BY <1>6, <1>7 DEF CancelTask, CrashCli, MindedInv, HostInv
<1>8. CASE StartThread(j) \/ Insert(j) \/ Sync(j)
  BY <1>8 DEF StartThread, Insert, Sync
<1>9. CASE Download(j) \/ Detect(j) \/ Save(j) \/ Finalize(j)
  BY <1>9 DEF Download, Detect, Save, Finalize, Step
<1>10. CASE Complete(j)
  BY <1>10 DEF Complete, ThreadEnds, Working
<1>11. CASE Raise(j)
  <2>1. job[j].thread \in Working /\ job[j].task \notin {"fetch", "run"}
    <3>1. job[j].thread \in Working /\ "raise" \in Faults
      BY <1>11 DEF Raise
    <3>2. job[j].task # "fetch"
      BY <3>1 DEF JobInv, Working
    <3>3. j \in Requests
      BY <3>1 DEF Jobs
    <3>4. job[j].task # "run"
      BY <3>3 DEF MindedInv, HostInv
    <3> QED
      BY <3>1, <3>2, <3>4
  <2>2. ThreadEnds(j, "raised")
    BY <1>11, <2>1 DEF Raise
  <2> QED
    BY <2>1, <2>2 DEF ThreadEnds
<1>12. ASSUME NEW w \in Workers, WorkerNext(w) PROVE job' = job
  BY <1>6, <1>12 DEF WorkerNext, StartWorker, RecoverRide, ProbeRead, ProbeWrite, SignalShutdown,
                     Reap, CrashWorker, MindedInv
<1>13. ASSUME NEW q \in Rides, CompleteUpload(q) \/ DeleteRide(q) PROVE job' = job
  BY <1>13 DEF CompleteUpload, DeleteRide
<1> QED
  BY <1>1, <1>2, <1>3, <1>4, <1>5, <1>7, <1>8, <1>9, <1>10, <1>11, <1>12, <1>13, NextCases
  DEF JobNext, Others

LEMMA MindedStep ==
  ASSUME Reported, Typed, MindedInv, Next
  PROVE  MindedInv'
<1> SUFFICES ASSUME stops' = 0
             PROVE  /\ \A w \in Workers : worker'[w] # "draining"
                    /\ \A r \in Rides : status'[r] = "processing" => \E j \in Jobs : Minds(j, r)'
  BY HostStep DEF MindedInv
<1>1. stops = 0 /\ \A w \in Workers : worker'[w] # "draining"
  <2> USE RideAssumption DEF Typed, TypeOK, MindedInv, rowVars, hostVars
  <2>1. ASSUME NEW j \in Jobs, JobNext(j)
        PROVE  stops = 0 /\ \A w \in Workers : worker'[w] # "draining"
    <3>1. worker' = worker
      BY <2>1, JobRowTyped
    <3>2. stops' = stops \/ CrashCli(j)
      BY <2>1 DEF JobNext, Claims, RouteClaim, CliClaim, Reads, RouteRead, BatchRead, ByIdRead,
                  Reports, MarkTimedOut, ReportFailure, CliMarkFailed, Others, TaskFetch,
                  TaskReturn, Timeout, CancelTask, StartThread, Download, Detect, Save,
                  Insert, Sync, Finalize, Complete, Raise, Step
    <3>3. stops = 0
      BY <3>2 DEF CrashCli
    <3> QED
      BY <3>1, <3>3
  <2>2. ASSUME NEW w \in Workers, WorkerNext(w)
        PROVE  stops = 0 /\ \A v \in Workers : worker'[v] # "draining"
    BY <2>2 DEF WorkerNext, StartWorker, RecoverRide, ProbeRead, ProbeWrite, SignalShutdown,
                Reap, CrashWorker, ProcessEnds
  <2>3. ASSUME NEW r \in Rides, CompleteUpload(r) \/ DeleteRide(r)
        PROVE  stops = 0 /\ worker' = worker
    BY <2>3 DEF CompleteUpload, DeleteRide
  <2> QED
    BY <2>1, <2>2, <2>3, NextCases
<1>2. ASSUME NEW r \in Rides, status'[r] = "processing" PROVE \E j \in Jobs : Minds(j, r)'
  <2>1. CASE status[r] = "processing"
    <3>1. PICK j \in Jobs : Minds(j, r)
      BY <1>1, <2>1 DEF MindedInv
    <3> QED
      BY <1>2, <3>1, MindsStep
  <2>2. CASE status[r] # "processing"
    <3>1. PICK j \in Jobs : /\ job[j].ride = r
                            /\ Goto(j, "fetch", "none") \/ Goto(j, "run", "download")
      BY <1>2, <2>2, OnlyClaims DEF Reported
    <3> QED
      BY <3>1 DEF Minds, Goto, Typed, TypeOK
  <2> QED
    BY <2>1, <2>2
<1> QED
  BY <1>1, <1>2

(* No error and no time-out leaves a ride that reads "processing" to nobody, *)
(* as long as no process stops and the calls to the database succeed; the    *)
(* batch worker and process_by_id may, with an exception they do not catch.  *)
THEOREM ProcessingHasOwner ==
  ASSUME "db" \notin Faults, "raise" \notin Faults \/ BatchWorkers \cup CliRuns = {}
  PROVE  Spec => []ProcessingIsOwned
<1>1. Reported
  BY DEF Reported
<1>2. Init => MindedInv
  BY DEF Init, MindedInv, HostInv, Idle
<1>3. Typed /\ MindedInv /\ [Next]_vars => MindedInv'
  <2>1. CASE UNCHANGED vars
    BY <2>1 DEF vars, MindedInv, HostInv, Minds
  <2> QED
    BY <1>1, <2>1, MindedStep
<1>4. Spec => []Typed
  BY TypedInitially, TypedStep, PTL DEF Spec
<1>5. MindedInv => ProcessingIsOwned
  BY DEF MindedInv, Minds, ProcessingIsOwned, Owns
<1> QED
  BY <1>2, <1>3, <1>4, <1>5, PTL DEF Spec
=============================================================================
