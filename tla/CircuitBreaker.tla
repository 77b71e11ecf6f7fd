---------------------------- MODULE CircuitBreaker ----------------------------
(***************************************************************************)
(* circuit_breaker.py as supabase_client.py and blob_storage.py use it: one *)
(* breaker per service object, shared without a lock by the event loop and  *)
(* by every pool thread of the worker process.                              *)
(*                                                                          *)
(* CPython 3.12 (the Dockerfile's) gives up the interpreter lock only on    *)
(* entering a function and after a call, so an action is the code from one  *)
(* such point to the next: time.monotonic() divides record_failure and      *)
(* can_execute, and the logging call of a recovery divides record_success.  *)
(***************************************************************************)
EXTENDS Naturals, FiniteSets

CONSTANTS Callers, Threshold, None   \* threads; failure_threshold; Python's None

ASSUME BreakerAssumption ==
  /\ Threshold \in Nat \ {0}
  /\ None \notin {"recent", "old"}

VARIABLES
  state,   \* CircuitBreaker.state
  count,   \* failure_count, counted up to Threshold
  last,    \* last_failure_time: None, or whether recovery_timeout has passed since
  pc       \* where each caller is

vars == <<state, count, last, pc>>

(* "waiting", "expired": in the time.monotonic() of can_execute, having seen *)
(* a failure time that the clock finds recent, or old.  "call": in an        *)
(* operation let through, "probe": the same, when half open.  "fail": in the *)
(* time.monotonic() of record_failure.  "logs": in the logger.info() of      *)
(* record_success.                                                           *)
Places == {"idle", "waiting", "expired", "call", "probe", "fail", "logs"}

At(c, p) == pc' = [pc EXCEPT ![c] = p]

(***************************************************************************)
(* can_execute.                                                            *)
(***************************************************************************)
CanExecute(c) ==
  /\ pc[c] = "idle"
  /\ \/ state = "closed" /\ At(c, "call")
     \/ state = "half_open" /\ At(c, "probe")
     \/ state = "open" /\ last = "recent" /\ At(c, "waiting")
     \/ state = "open" /\ last = "old" /\ At(c, "expired")
     \/ state = "open" /\ last = None /\ UNCHANGED pc
  /\ UNCHANGED <<state, count, last>>

(* Mutant of TestTimeout: the answer of the clock is for the failure time   *)
(* that line 61 saw, not for the one that line 62 reads.                    *)
TestTimeoutSeen(c) ==
  /\ pc[c] \in {"waiting", "expired"}
  /\ IF pc[c] = "expired"
     THEN state' = "half_open" /\ At(c, "probe")
     ELSE UNCHANGED state /\ At(c, "idle")
  /\ UNCHANGED <<count, last>>

(* The failure time is read again after the clock: one that has become None *)
(* raises TypeError, a newer one has not timed out.                         *)
TestTimeout(c) ==
  /\ pc[c] \in {"waiting", "expired"}
  /\ IF pc[c] = "expired" /\ last = "old"
     THEN state' = "half_open" /\ At(c, "probe")
     ELSE UNCHANGED state /\ At(c, "idle")
  /\ UNCHANGED <<count, last>>

(***************************************************************************)
(* _execute_with_circuit: the operation succeeds, fails, or raises an      *)
(* HTTPException, which is recorded as neither.                            *)
(***************************************************************************)
InCall(c) == pc[c] \in {"call", "probe"}

(* Mutant of RecordSuccess: the circuit is not closed. *)
RecordSuccessKeepsState(c) ==
  /\ InCall(c)
  /\ count' = 0 /\ last' = None
  /\ At(c, "idle")
  /\ UNCHANGED state

RecordSuccess(c) ==
  /\ InCall(c)
  /\ count' = 0 /\ last' = None
  /\ At(c, IF state = "closed" THEN "idle" ELSE "logs")
  /\ UNCHANGED state

(* Mutant of Close: a misspelt state. *)
CloseMisspelt(c) ==
  /\ pc[c] = "logs"
  /\ state' = "close"
  /\ At(c, "idle")
  /\ UNCHANGED <<count, last>>

Close(c) ==
  /\ pc[c] = "logs"
  /\ state' = "closed"
  /\ At(c, "idle")
  /\ UNCHANGED <<count, last>>

CountFailure(c) ==
  /\ InCall(c)
  /\ count' = IF count = Threshold THEN count ELSE count + 1
  /\ At(c, "fail")
  /\ UNCHANGED <<state, last>>

(* Mutant of Failed: the count is compared before the clock is read. *)
FailedOneEarly(c) ==
  /\ pc[c] = "fail"
  /\ last' = "recent"
  /\ state' = IF count >= Threshold - 1 THEN "open" ELSE state
  /\ At(c, "idle")
  /\ UNCHANGED count

Failed(c) ==
  /\ pc[c] = "fail"
  /\ last' = "recent"
  /\ state' = IF count >= Threshold THEN "open" ELSE state
  /\ At(c, "idle")
  /\ UNCHANGED count

Unrecorded(c) ==
  /\ InCall(c)
  /\ At(c, "idle")
  /\ UNCHANGED <<state, count, last>>

(* recovery_timeout, a minute, has passed since the last failure.  No       *)
(* thread spends that long inside a method of the breaker.                  *)
TimePasses ==
  /\ last = "recent"
  /\ \A c \in Callers : pc[c] \notin {"expired", "fail", "logs"}
  /\ last' = "old"
  /\ UNCHANGED <<state, count, pc>>

Init ==
  /\ state = "closed" /\ count = 0 /\ last = None
  /\ pc = [c \in Callers |-> "idle"]

Next ==
  \/ \E c \in Callers :
       \/ CanExecute(c) \/ TestTimeout(c)
       \/ RecordSuccess(c) \/ Close(c)
       \/ CountFailure(c) \/ Failed(c) \/ Unrecorded(c)
  \/ TimePasses

Spec == Init /\ [][Next]_vars

(* Threads run on, time passes, and requests keep arriving: each caller, if *)
(* idle, will call again.  No operation is assumed to succeed, or to end.   *)
FairSpec ==
  /\ Spec
  /\ WF_vars(TimePasses)
  /\ \A c \in Callers :
       WF_vars(CanExecute(c)) /\ WF_vars(TestTimeout(c) \/ Close(c) \/ Failed(c))

-----------------------------------------------------------------------------
(* Type invariant. *)
TypeOK ==
  /\ state \in {"closed", "open", "half_open"}
  /\ count \in 0 .. Threshold
  /\ last \in {None, "recent", "old"}
  /\ pc \in [Callers -> Places]

Recovering == \E c \in Callers : pc[c] = "logs"

(* A circuit that is not closed has seen Threshold failures with no success *)
(* in between (record_failure's test), whatever calls end while record_     *)
(* failure waits for the clock.  The exception is a recovery under way.     *)
OpenedByFailures ==
  state # "closed" => count = Threshold \/ Recovering

(* An open circuit has a failure time, so that can_execute will one day let *)
(* a probe through, although record_success clears the time and record_     *)
(* failure sets state and time in two statements.                           *)
OpenHasTimer == state = "open" => last # None \/ Recovering

(* No request passes a circuit that is open and has had a failure within    *)
(* recovery_timeout, also when the failure comes while can_execute waits.   *)
BlockedWhileOpen ==
  [][\A c \in Callers :
       state = "open" /\ last # "old" => ~InCall(c)' \/ InCall(c)]_vars

(* An open circuit does not stay open: however the calls under way end, a   *)
(* probe is let through in the end.                                         *)
Reprobes == state = "open" ~> state # "open"
=============================================================================
