# sipat-ml in TLA+

sipat-ml turns dash-camera rides into a map of potholes. Clients upload a video
and a GPS track, ask for the ride to be processed, and later look at, confirm
and discuss what was found. This directory holds TLA+ modules of the parts of
that program in which the order of events matters, the TLC configurations that
check them on small instances, and TLAPS proofs of the main safety properties
for every value of the constants. Paths below are relative to `src/`.

    tlc -workers 2 -config RideWorkers.cfg MCRideLifecycle
    tlapm RideLifecycleProofs.tla

## 1. The system

| Part | State | Operations | Hard because |
|---|---|---|---|
| Ride lifecycle: `processing/api/routes/process.py`, `pipeline/worker.py`, `background_tasks.py`, `main.py`, `batch_worker.py` | `rides_metadata.status` and `progress_*`, `raw_detections`, asyncio tasks, pool threads, worker processes | POST /process, background task, `process_ride`, batch claim, `process_by_id`, failure reports, shutdown, restart recovery, write test | several gunicorn processes and a batch worker claim the same rows; a timed-out thread cannot be stopped; every report is itself a call that can fail; starting workers repair rides that others process |
| Circuit breaker: `processing/circuit_breaker.py` in `services/supabase_client.py`, `services/blob_storage.py` | state, failure count, failure time | `can_execute`, `record_success`, `record_failure` | shared by all threads without a lock |
| Hazard verification: `migrations/add_fixed_verification.sql`, `add_notifications.sql` | one signal per user and hazard; counts, status, notifications | `mark_hazard_signal`; the reset by the pipeline | overlapping READ COMMITTED transactions; two writers that know nothing of each other |
| Pothole sync: `pipeline/worker.py` `_sync_potholes`, `core/severity.py` | `verified_potholes`, the sync's own copies of rows | match, merge, reopen, insert | read-modify-write over separate HTTP calls, no transaction; a failed ride is synced again |
| Frame detection: `processing/detection_batch_builder.py` | the previous frame's boxes, detections, uploads under way | sampling, quality gates, deduplication, annotated frames | uploads end in any order and may fail; state that must be reset on skipped frames |
| Upload: `processing/upload_api.py`, `services/blob_storage.py` | blobs, SAS URLs, ride row | init, complete, abort | steps in an order the client chooses; validation, limit and insertion are separate calls that may fail, or lose their answer and be retried |
| Moderation: `migrations/add_reports_table.sql`, `add_admin_hide.sql`, `add_vote_hiding_logic.sql` | reports, votes, the hidden mark in a caption or photo status | report, withdraw, vote, hide, show | seven writers of the column that holds the mark; counts of overlapping transactions |
| Votes and notifications: `migrations/add_votes_table.sql`, `add_notifications.sql` | votes, counters, notifications | vote, milestones | counters derived in overlapping transactions |
| Community photos: `processing/api/routes/community_photo.py` | image, row | upload, detector result, clean-up | two stores, no transaction; an insertion repeated with fewer columns |
| Reprocessing script: `processing/scripts/reprocess_gps_coords.py` | `raw_detections`, `verified_potholes` | correct, delete, cluster, insert | any call fails or the script is killed; run again over what it left; no transaction |
| Migration runner: `processing/migrations/runner.py` | files applied | run | a crash between applying and recording |
| Severity and clustering: `core/severity.py`, `core/clusterer.py` | none | pure functions | thresholds and caps |
| GPS and geometry: `utils/` | none | interpolation, headings, projection, stationary tracks | order and ends of the track; floating point |
| Routes that read, feeds, views, geocoding, health, rate limits, configuration, training, evaluation | – | reads, single updates | – |

How they meet: the client's upload creates the ride row; POST /process claims
it with a compare-and-swap and starts a task, the task hands `process_ride` to
a pool thread; the thread detects (frame detection), inserts detections, syncs
potholes, and completes the ride; a request that aborts may delete the blobs that it reads; the script rewrites what it stored; users' taps and the sync both write a
pothole's row; reports, the admin, the sync, authors and photo detectors write the
column that says whether a post is hidden; every call of a database or a blob store passes the circuit of
its service object. `PROJECT.json` lists every part with its status, and the
hazards this code is exposed to at the lines where they bite.

## 2. What is modelled

### RideLifecycle (core)

One action is one database call, or what an event loop does between two awaits.
A *job* is a slot in which one run of the pipeline happens: a POST /process
request, a turn of the batch worker, or a `process_by_id`. A request's job has
two sides, the task (`task`) and the pool thread (`thread`), which may outlive
each other; the slot is free when both are gone.

| Code | Actions |
|---|---|
| `process.py` `process_ride` | `RouteRead` (read, 404/409), `RouteClaim` (`.eq("status", seen)` update) |
| `_run_process_async` | `TaskFetch`, `TaskReturn`, `ReportFailure` |
| `process_ride_async` | `StartThread` (pool of `PoolSize`), `Timeout`, `MarkTimedOut` |
| `process_ride` | `Download`, `Detect`, `Save`, `Insert` (`_insert_raw_detections`), `Sync`, `Finalize`, `Complete`, `Raise` |
| `claim_oldest_queued_ride`, `process_next_queued` | `BatchRead`, `CliClaim`, `CliMarkFailed` |
| `process_by_id` | `ByIdRead`, `CliClaim`, `CliMarkFailed` |
| lifespan, `background_tasks.py` | `SignalShutdown`, `CancelTask`, `Reap` |
| `_recover_stale_processing_rides` | `StartWorker` (the read), `RecoverRide` (one update per ride) |
| `_run_migrations`' write test | `ProbeRead`, `ProbeWrite` |
| process deaths | `CrashWorker`, `CrashCli` |
| client | `CompleteUpload`, `DeleteRide` |

Faults are chosen by the constant `Faults`: time-outs, exceptions of the
pipeline, and database calls that fail. Within a worker, code without an await
is not interleaved with other coroutines (`LoopFree`); pool threads and other
processes are.

Abstractions. `progress_pct` stands for stage and message, which are written
with it. The two reports at 5 and 15 % are one step, the detector's callbacks
between 25 and 85 % are left out. The insertion of the
detections is one call and not one per chunk; an exception leaves it made or not
(`Raise` at "insert" or "sync"). A call that fails may have been executed
and its answer lost: `Insert`, retried by `supabase_client.py`, is then made again, a lost claim leaves a
ride that nobody processes (`Claimed`), and a lost completion is written again (`Complete`). The semaphore of the route is not modelled: a pool of
`SIPAT_ML_MAX_WORKERS` threads is not larger than `MAX_CONCURRENT_RIDES`. `saved`
counts insertions 0, 1, 2 = more. `interfered` is a history variable: the rides
whose row somebody other than their one processor has written since they were
queued, that is a time-out or error report, a restart's recovery, the write test,
or `process_by_id`. `repeated` is another: the rides with an insertion that was made again for a lost
answer. The strong properties hold for the other rides, and section 5
shows that they do not hold beyond that.

### CircuitBreaker

CPython 3.12 (the image in the Dockerfile) can switch threads when it enters a
function and after a call, so an action is the code between two such points:
`time.monotonic()` divides `can_execute` and `record_failure`, the logging call
divides `record_success`. `last` is None, recent, or old (`recovery_timeout` has
passed). No thread spends that minute inside a method of the breaker; an
operation that passed the circuit may take as long as it likes.

### HazardVerification and HazardConsensus

`HazardConsensus` is the promise: a tap is one step that stores the signal, sets
the status to the consensus, and tells the owner of a change. `HazardVerification`
is the code: a transaction reads the old status (`ReadOld`), upserts and counts
(`CountSignals`), updates the row and commits (`UpdateRow`). A statement sees
what is committed when it starts and its own transaction's writes.
The row lock of the upsert keeps two taps of one user apart, so each user has
one transaction at most. `FetchFixed` and `Reopen` are the pipeline's reading of a
fixed pothole and the reset when it has been detected often enough again.
The refinement mapping is the identity on signals and notifications, `row.status`
for the status, and `disturbed` for `blurred`: taps have overlapped, or the pipeline
has reset the row, and no tap has been alone since. The abstract `Blur` is what
such a step may do: one signal, any status, no guarantee for the owner. A tap
that is alone is the abstract `Tap` and ends the blur, whatever it finds.

### Severity and PotholeSync

`Severity` is `severity.py` on integers (hundredths of a square metre and of a
percent, tenths of a metre, percent of confidence), with its
thresholds; `frame_area_pct_to_severity` rounds as the code does.

In `PotholeSync` places are points of a line with a merge radius; the unique index of
`dedupe_exact_gps_potholes.sql` allows one row at each. A cluster is `Fetch`ed (nearest row or own
copy within the radius), then `Update`d (sums written back to row and copy, the worst
severity, the user added, and the pothole reopened if the copy says fixed and the
cluster has `ReopenHits`), `Insert`ed, or refused by the index. Clusters out of
coordinate range are skipped. A call may raise, executed or not (`Fail`, the second
outcome of `Apply`); the ride is then "failed" and `Start` syncs it again from
its first cluster, with no copies. `Fix` is the effect of a vote, which
HazardVerification has in detail. `applied`, `overlapped` and `stale` are history variables.
Left out: geocoding of new rows, caption, images, counts of votes.

### Uploads

One action is one call of a storage service; each of `Requests` is one HTTP request
of one user, and they interleave.

| Code | Actions |
|---|---|
| `init_upload`, SAS expiry | `InitUpload`, `Expire` |
| the app's PUT with a SAS URL | `Put` (external; also a second time, while the URL is valid) |
| `complete_upload` | `Complete`, `CheckVideo`, `CheckGps`, `CheckSize`, `InsertRide` |
| `abort_upload`, `delete_blobs` | `Abort`, `DeleteVideo`, `DeleteGps` (a failing delete is swallowed) |
| `upload_community_photo` | `Photo`, `Store`, `StripColumn` (PGRST204), `Post` |
| `_retry_strategy` | `Again`, `Executed` (the answer seen, or lost and the call repeated) |
| `process_ride`'s downloads, `delete_ride` | `ReadVideo`, `ReadGps`, `DeleteRide` |

A blob is "good", "bad" (what `validate_blob_content` refuses) or "large". The ride id
of `/upload/complete` is chosen by the app and not tied to the path, so any id can
meet any upload. A body also names its video and its track separately, and the code accepts those of two uploads
(`upload_api.py:111`); the model's requests name the two blobs of one. `lost`, `removed` and `touched` are history variables: requests that lost an answer,
rides deleted by their owner, and uploads that the app wrote or aborted while or after it completed them.
Left out: the path and field checks beyond their refusal, and what follows the row of a
photo (Moderation).

### GpsTrack and Reprocess

`GpsTrack` has the operators of `geo_sync.py`, `geo_math.py`, `gps_processor.py` and the script that say
where a detection is: time stamps normalized, samples sorted, the place interpolated, the
heading estimated and the offset projected, or the median of a stationary
track. A place is a point of a line; headings from an IMU are left out.

`Reprocess` is the script over the rides that the pipeline processes meanwhile (`Process`, `Sync`, `Complete`, `FailProcess`:
PotholeSync in short), also again: after a failure, or a ride in any status by `process_by_id`. Each insertion stores
detections of its own (`Batch`), which `Present` adds up; one whose answer is lost is made again (several batches in one `Process`). A pass takes the completed rides that the options
choose, oldest first (`StartPass`, `TakeRide`), corrects the detections one by one
(`UpdateDetection`), deletes the ride's potholes (`DeletePotholes`), clusters the detections anew
(`Recluster`) and inserts (`InsertPothole`, where a failure is only logged).
`Fail` and `FailRide` are a call that raises, executed or not, or the script killed. DBSCAN
(scikit-learn) is modelled on a line (`Cores`, `Linked`, `Groups`). `broken` and `redone` are history variables: rides
given up although their detections were already right, and rides that were processed again while the script was at them or after it
had moved a detection of theirs; a pass that deletes the potholes of such a ride with all detections right ends both.
Bounds of the model: one ride is in process at a time, an insertion is all or nothing, and a ride is processed as often as `Round`
has insertions for it.

### FrameDetection

The loop of `DetectionBatchBuilder.build`: a frame that is not sampled, dark,
blurred or without boxes is passed over (`PassOver`), any other is processed
(`Process`), which drops boxes that overlap one of `prev` and queues the annotated
image for the upload threads (`StartUpload`, `EndUpload`). `Fails` is an exception of
the model or of a projection. `Resolve` and `Unwind` are the two ways out, which
wait for the threads. What the model finds in each sampled frame is chosen at
the start; a frame stands for its timestamp. Left out: calibration and
coordinates, the first frame's BEV picture, progress callbacks (RideLifecycle).

### Moderation

One post, a pothole or a photo (`kind`), and everything that writes the column in
which "hidden" is kept (`mark`): a pothole's caption, which then begins with
`[HIDDEN]`, or a photo's `detection_status`.

| Code | Actions |
|---|---|
| `report_content` | `CountReports` (upsert, count), `JudgeReport` (votes), `EndReport` (update, commit) |
| `unreport_content` | `CountRemaining` (deletion, count), `EndUnreport` |
| `vote_content`, `unvote_content` | `CountVotes`, `EndVote` (milestone, commit); `Unvote` |
| `admin_hide_content` | `AdminHide`, `AdminShow` |
| `_sync_potholes` | `Recaption` |
| `update_pothole_text` | `EditCaption` |
| `upload_community_photo` | `FinishDetection`, `ExpirePending` (the clean-up that another upload makes) |
| views and feeds | `InFeed` |

Several migrations define the same function; the module takes `report_content` from
`add_vote_hiding_logic.sql`, `vote_content` from `add_notifications.sql` and the views
from `fix_feed_hidden_filtering.sql` (section 6 has more on their order). A caption is
"null", "text" or "hidden"; one that an author types with the prefix is left out, and so is
the age of one hour that `ExpirePending` asks for. One user's calls follow one another.
`last` (who last hid or uncovered the post), `adminHid`, `alone` and `overlapped` are history variables.

## 3. Runs

| Run | Instance | Shows |
|---|---|---|
| `ride_workers` | two workers, two requests, one ride; time-outs, failing database calls, one crash or shutdown | `SingleProcessor` and `ProgressMonotone` for rides without interference, `SavedOnce` for those of them that had no insertion repeated |
| `ride_faults` | one worker with a request, a batch worker and a `process_by_id` under every fault and one crash; a second ride that only waits in the queue (`SecondRideForTheQueue`) | `CompletedIsFull` without interference; `CompletedWasSaved`, `CompletedNotReclaimed` always |
| `ride_live` | one worker, two requests, two stops, time-outs and exceptions | `ProcessingEnds` under fairness; `ProcessingIsOwned` until a process stops |
| `circuit` | three threads, threshold 3 | `OpenedByFailures`, `OpenHasTimer`, `BlockedWhileOpen`; `Reprobes` under fairness |
| `hazards` | four users (one of them the owner), two transactions at a time, a pipeline thread, threshold 2 | `RuleHolds`, and that the code implements `HazardConsensus` |
| `sync` | two processors, three places, a ride of up to two clusters that is processed twice and one of up to one cluster; failures of any call; votes | `HitsConserved`, `Separated`, `SeriallyGrows` while syncs do not overlap; `MetIsActive` always |
| `uploads` | one pair of blobs, two ride ids, two requests, two attempts per call, two columns that may be missing | `RideAnswers`, `PhotoAnswers`, `RidesSound`; `CompletedIsProcessed` under fairness |
| `reprocess` | three rides with nine detections: two of the old client that end where the other starts, one of the new client, stationary; the second may be processed twice, with the same detections | `OneClustering` but for `redone` rides, `CorrectedIsShown` but for these and the `broken` ones |
| `detection` | six frames, every second one sampled, each with any of three kinds of boxes, dark, or empty; two upload threads; failing uploads, an exception at any frame | `AllDetected`, `ImagesResolved`, `NothingOutlives` |
| `posts` | three users (one the author), two calls at a time, thresholds 2 | `ResultKept` always; `ReportedIsHidden`, `HiddenIsReported` while calls do not overlap; `SoloCallSettles`, `CrossingTold` for every call that nothing overlaps, whatever overlapped before |
| `ride_two_processors`, `posts_admin` | the smallest instances that show them | the divergences of section 5 |

Bounds. A claim race needs two jobs on a ride, and a third adds only another of
the same kind; two workers are the smallest number for a recovery of somebody
else's ride; one crash or shutdown meets every state of the others, and
`ride_live` has two so that a restarted worker can stop again. The pool has
one thread, so that a second call has to queue. Four users with a threshold of 2
(instead of 3) have two against two, the tie at which the majority test decides, and two overlapping
transactions suffice to lose a signal and repair it. Three places with radius 1 have
one that is near to both of the others, two clusters of one ride use its own
copies, and a second try meets what the first one left. Two requests on one pair of blobs are a
complete against an abort, a retry, or another id; a request on other blobs shares
only the ride ids with them. Two attempts are a call and its repetition. The nine detections make clusters
of two and three (threshold 2 instead of 3, so that fewer detections do), noise, and clusters of two rides at one place, so that rows are
merged into, refused and deleted under another ride. Three sampled
frames have a first, a middle and a last, and more uploads than the two threads. The threshold of 3
instead of 5 lets each of three threads fail once.
Thresholds of 2 instead of 3 and 5 let three users pass them and come back, and two
down-votes against one up-vote miss the ratio of 0.7. `posts` leaves `adminHid` out of the
fingerprint (`VIEW`): none of its properties and no guard reads it.
The symmetry sets permute interchangeable users in runs without liveness.
Deadlock is not checked where the system may stop: all rides deleted or
completed, all requests used, all rides synced, all rides corrected.

Fairness. In `ride_live` the event loop and its timers run (the handlers of
`asyncio`), `graceful_timeout` kills a draining worker, and the arbiter starts a
worker again and its start-up runs through. Nothing is assumed of pool threads
(a detector call may hang), clients, or crashes. In `circuit` threads run on
inside the breaker, time passes, and requests keep coming; no operation is assumed to
succeed, or even to end. In `uploads` a request that has begun goes on (its handler runs to its
end) and a queued ride is read (RideLifecycle has what may keep it from that); the app
owes nothing: it may never write, complete or abort. Each call ends in one of its outcomes, the
failing ones included.

## 4. Proofs

| Theorem | For all | Argument |
|---|---|---|
| `TypeCorrect` (TypeOK) | rides, workers, jobs, pool sizes, faults | `Typed`: TypeOK and which combinations of task, thread, ride and host a slot can have |
| `OneProcessor` (SingleProcessor), `OneInsertion` (SavedOnce), `CompletedMeansSaved` (CompletedWasSaved) | the same | `IInv`, below |
| `CompletedShowsFull` (CompletedIsFull), `ProgressNeverFalls` (ProgressMonotone) | the same | `BarInv` |
| `CompletedStaysCompleted` (CompletedNotReclaimed) | the same | only claims set "processing" (`OnlyClaims`) |
| `ProcessingHasOwner` (ProcessingIsOwned) | the same, with `"db" \notin Faults`, and `"raise" \notin Faults` or neither batch worker nor `process_by_id` | `MindedInv` |
| `TypeCorrect`, `OpensByFailures`, `OpenCanRecover`, `OpenBlocks` of `CircuitBreakerProofs` | threads and thresholds | `IInv` of `CircuitBreakerProofs` |
| `TypeCorrect`, `RuleAlways` (RuleHolds), `TapsImplement` (Implements) of `HazardVerificationProofs` | every finite set of users, any overlap, pipeline threads | what the transaction that is alone has read and counted |
| `TypeCorrect`, `SeparatedAlways` (Separated), `SeriallyGrowsAlways` (SeriallyGrows) of `PotholeSyncProofs` | places, radius, processors, clusters, tries | `Inv`, below |
| `HitsConservedAlways` (HitsConserved) | the same | `TotalGrows`, `HitsInv` |
| `MetIsActiveAlways` (MetIsActive) | the same, any overlap | `CopiesInv` |
| `TypeCorrect`, `NothingDropped` (AllDetected), `ImagesEntered` (ImagesResolved), `UploadsEnd` (NothingOutlives) of `FrameDetectionProofs` | videos, boxes, frame skips, pools of uploads | `IInv` of `FrameDetectionProofs` |
| `FuseIsIpm`, `FuseMonotone`, `FrameMonotone` | every area, share, distance and confidence; `FrameMonotone` compares two distances over 0.1 m, or one: nearer than that, or unknown, the share is not normalized, and looks worse than the same share at 0.2 m | arithmetic |
| `TypeCorrect`, `RideAnswersAlways`, `PhotoAnswersAlways`, `RidesSoundAlways` of `UploadsProofs` | uploads, ids, requests, attempts | what a request at each of its calls has made and has found |
| `TypeCorrect`, `OneClusteringAlways`, `CorrectedIsShownAlways` of `ReprocessProofs` | rides, tracks, detections, radius | what the potholes of the ride in hand are at each step of the script |
| `ClustersSound` | finite sets of detections on the line, radius, thresholds up to 3 | a detection near to two cores has three neighbours, and is a core between them |
| `InterpolatedBetween`, `ClosestIsNearest` | tracks in any order, with samples without and with equal time stamps | `Ranks`, `SortedIs`, `EarlierIs`, `Part` |
| `TypeCorrect`, `ResultSurvives` (ResultKept) of `ModerationProofs` | users, thresholds, overlap | typed states; a pending photo has no result to lose |
| `ReportsHide` (ReportedIsHidden), `WithdrawalsShow` (HiddenIsReported) | the same | `SerialInv` of `ModerationProofs` |
| `SoloCallsSettle` (SoloCallSettles), `CrossingsTold` (CrossingTold) | the same | `AloneInv` |

*Ride lifecycle.* `SingleProcessor` alone is not inductive: a claim must be known
to find nobody at work. `OwnInv` adds that a ride without interference is never "failed", and that nobody
owns it while it waits in the queue. A claim needs the status that was read, which
for a request or the batch worker is then "queued", so it finds no owner; `SavedInv` ties the number of
insertions (for rides without a repetition) to where the owner's thread stands; `CompletedInv` says that a thread
past its insertion, and a completed ride, have one. `IInv` is their conjunction
with `Typed`; each kind of step (claims, insertion, steps that claim nothing,
the environment) has a lemma.

The progress bar needs to know what comes next: `BarInv` bounds it by what the owner's thread
is about to write (`Due`), so that it rises whether or not the reports before were lost, and says that a completed ride
has no owner left that will write (`Unfinished`). `ProcessingIsOwned` is not inductive either: a task that holds a ride
must be one that will yet report it (`Minds`), which includes what `HostInv` says of where tasks run. Its two hypotheses are the conditions its comment
names: a report that fails, and an exception that the batch worker or `process_by_id` does not catch, do leave a ride to nobody (section 5).

*Circuit.* An open circuit always has a failure time, except between the two halves of
`record_success`. `FreshInv` and `ExpiredInv` strengthen it: while a recovery logs,
the failure time is not old, and a caller that found it expired finds the count at the threshold.

*Hazards.* While a transaction is alone, nobody else commits: what it reads and
counts is what the signals will be when it ends. Its steps stutter until its commit, which is the
abstract `Tap`; a commit of one that is not alone, and a reset, is a `Blur`.

*Sync.* While syncs have not overlapped, at most one processor is at work, its copies
equal the rows, its match is a row as it was read, and a processor about to insert has nothing
within the radius. So an update adds to what the row has, and an insertion keeps apart. A closest
row exists because distances are naturals (`LeastExists`, from the library's well-founded sets).

`Total` counts units instead of folding a sum over a set, since the prover has no induction over
data: a row with 3 hits has three units, a cluster with 2 hits that was applied twice has four, and `TotalGrows` says that
raising one value by k adds k to the count. `MetIsActive` also holds while syncs overlap: all that somebody else can do to a row of which a sync
has a copy is to reopen it, or to vote it fixed, which makes it stale (`CopiesInv`). It speaks of the merge of the cluster itself: a
cluster with fewer hits than `ReopenHits` leaves a fixed row fixed, also when the row's sum exceeds it.

*Uploads.* A request before its insertion has made no ride unless an answer was lost; a request
past a check of an untouched upload finds the blob good, since the only requests that
delete it are an abort (which then touches it) and one that found it large.

*Reprocess.* A ride's row is where one of its clusters is, of the old clustering until
`DeletePotholes`, of the new from `Recluster` on (`RowsInv`); hits only grow. A ride that is processed again without being `redone`
has all its detections where the pipeline put them (`Untouched`), so its rows are old ones, and more of these come. A ride that the script has in hand has
a detection to move (`Moved`), so once all are right it is touched for ever, and `redone` if it is processed again. Between
the last update and the last insertion a failure makes the ride `broken`; else all clusters not yet inserted are
in `pass.add` (`Progress`). `ClustersSound` is about DBSCAN with the program's threshold of 3 (`settings.py:32`); with 4 or more a detection
between two clusters would go to the one that is read first. `InterpolatedBetween` also shows that the quotient's divisor is positive, so that the branch
`t2 == t1` of `interpolate_sample` is never taken.

*Frames.* Boxes are remembered only until the next frame, which is not sampled if frames are skipped
(`PrevInv`, `SamplesApart`); the ways out of `build` wait for the pool.

*Moderation.* While nothing has overlapped, at most one call is in flight, and what it has counted
is the number of reports there will be when it ends (`CountsCurrent`); a report hides
for reports exactly when that reaches the threshold (`Judged`), and the last writer was one
that hides exactly when the post is hidden (`CauseHides`). The other writers only touch the column.
`AloneInv` needs no such history: a call in `alone` is the only one in flight, so nobody else reports or votes until it ends, and what it counted
stays true (`KnowsCurrent`), although calls before it may have left anything.

Assumptions are only the named ones on the constants (`RideAssumption`,
`BreakerAssumption`, `HazardAssumption`, `ModerationAssumption`, `SyncAssumption`, `UploadsAssumption`,
`ReprocessAssumption`, `NoneAssumption`, `DetectionAssumption`); TLC evaluates them in every run. Where a
theorem assumes more, its row says so.
Every invariant and action property of a run without a violation is thus a theorem. Only model-checked are the
liveness properties (`ProcessingEnds`, `Reprobes`, `CompletedIsProcessed`), for the prover has no ENABLED. Not proved
either is what needs induction over data, such as that a cluster's place, a rounded mean of its detections, lies within them.

## 5. Where the code and its documents differ

Shown by a run:

* `ride_two_processors`: a starting worker fails every ride that reads "processing",
  its siblings' included (`main.py:69`), and the next request starts a
  second processor although the first goes on.
* `posts_admin`: a post that the admin has hidden returns to the feeds although the admin has not
  shown it. Four writers replace the mark: a photo's detector (`community_photo.py:199`), any
  user's `unreport_content` (`add_reports_table.sql:152`), also that of a user who never
  reported, the caption that the pipeline generates at a merge (`worker.py:329`), and the author
  (`verified_potholes.py:48`).

Met while modelling, and not given a run:

* A ride that times out is marked failed while its thread goes on (`worker.py:385`); a
  retry then has two threads on one ride. The instance is one worker, two
  requests, two threads and a time-out; `interfered` covers it.
* `process_next_queued` catches five exception types; any other leaves the ride
  "processing" with nobody at it (`worker.py:471`). `Raise` has both outcomes; this is why `ride_live`
  has no batch worker.
* The write test of a starting worker writes back a progress it read earlier
  (`main.py:132`) and can set the bar back.
* The docstring of the breaker promises one probe when half open; every caller is let
  through (`circuit_breaker.py:56-68`).
* Overlapping taps count without each other (`add_notifications.sql:210`): three users say fixed and the
  hazard stays active, where `add_fixed_verification.sql:3` has "FIXED when fixed_count >= 3 AND fixed_count > still_count".
  The next tap that is alone repairs it (`RuleHolds`).
* The pipeline reopens a fixed pothole without deleting the signals, which
  `get_hazard_verification` still counts (`worker.py:319`).
* README.md:106 says "every 5th frame with IOU deduplication"; the boxes to compare
  with are emptied on each of the four frames between, so nothing is ever dropped
  (`detection_batch_builder.py:131`). `AllDetected` says what happens instead.
* Of two overlapping merges into one pothole the second write loses the hits, users and
  severity of the first (`worker.py:324`); `SeriallyGrows` holds while syncs do not overlap.
* Repeating an up-vote at a multiple of five announces the milestone again
  (`add_notifications.sql:286`), where line 8 says "crossings"; overlapping votes can skip or repeat one.
* An author who blanks a pothole's caption makes it NULL, and `caption NOT LIKE '[HIDDEN]%'`
  (`fix_feed_hidden_filtering.sql:205`) is then not true: the pothole is in no feed although its
  `visibility_status` is "visible".
* A processed photo that is hidden and shown again is "pending", and the next upload's clean-up
  makes it "no_detection" (`add_reports_table.sql:155`, `community_photo.py:178`).
* Two overlapping syncs can insert two rows nearer than the merge radius
  (`worker.py:338`).
* The insertion of a ride's detections is retried when only its answer was lost (`worker.py:177`, `supabase_client.py:182`), and nothing
  in `raw_detections` keeps the second copy out; `repeated` covers it.
* `process_by_id` takes up a completed ride (`worker.py:479`), also one that the script has corrected: its detections are inserted a second
  time, at the uncorrected places, and its clusters there stand beside the corrected ones; `redone` covers it.
* `unreport_content` shows a post as soon as few reports are left, also when it is voted down (`add_reports_table.sql:152`), and leaves one
  visible that overlapping reports left with enough (`SoloCallSettles` says what each call does).
* A ride that is processed again after its sync has begun counts the hits of its
  first clusters again (`worker.py:444`).
* When the answer of the insertion in `/upload/complete` is lost, the retry is refused by the primary key, and
  the app is told of a failure although the ride is queued; if it then aborts, the
  blobs of a queued ride are deleted (`upload_api.py:161`, `:179`). A body with the paths of two uploads (`:111`) is validated and accepted; if it is
  refused as too large, both blobs are deleted (`:123`), also if another ride has one of them. A community photo is then posted twice (`community_photo.py:158`).
* `validate_blob_content` raises HTTPExceptions through the blob circuit, which does not count them, but a
  missing blob is an error of Azure, and counts as a failure of the storage (`blob_storage.py:195`).
* The script never repairs a ride that it left between its last update and its last insertion: the next pass finds
  "All detection coordinates already correct" (`reprocess_gps_coords.py:248`). A cluster at the place of another ride's row is refused and only
  logged; deleting a ride's rows drops the hits that other rides merged into them; severity is always
  "Minor"; and the offset from the camera and the median of stationary rides are dropped.
* Whether a track is stationary is decided by neighbouring samples (`geo_math.py:51`): a slow ride, or one sampled often, is
  collapsed to one place.
* A sample without a yaw rate gets the integrated heading in radians (`gps_processor.py:105`) where the others have degrees.
* `select(..., limit=1)` in `health.py:68` and `:93` is an equality filter on a column named limit.

## 6. Plan

1. Composition of the claim (RideLifecycle) with the sync, so that a zombie thread's sync overlaps its retry's.
2. An abstract ride board (a ride waits, is claimed by one, ends, and is claimed again after an interference) that RideLifecycle
   implements, checked and then proved from `IInv`.
3. Comments and their notifications; chunks of `raw_detections`.

Not modelled, and why. The migration runner (`runner.py`) applies files in the order of their names and
records each by a second call; what a repetition does is in the SQL of each file, most of
which is idempotent. Read with it: five files insert themselves into `_migrations`, so that the runner's own insertion violates
the UNIQUE filename; `create_community_photos.sql` creates an index and policies without IF NOT EXISTS;
in name order `add_caption_to_community_photos.sql` alters a table that a later file creates, and the last definition of `vote_content` is
that of `fix_vote_functions.sql`, without milestones. Geodesics, IMU headings, camera calibration and the perspective transform are
floating-point numerics without state. The detector, training, evaluation and benchmarks are offline tools around a
library. Read-only routes, ranking of feeds, geocoding, rate limits and configuration keep no state that another
part relies on.
