------------------------ MODULE CircuitBreakerProofs ------------------------
(***************************************************************************)
(* For every set of threads and every threshold: an open circuit has the    *)
(* failure time its recovery depends on, it was opened by Threshold         *)
(* failures in a row, and nothing passes it before its timeout.             *)
(***************************************************************************)
EXTENDS CircuitBreaker, TLAPS

(* While a recovery is under way the failure time has just been cleared or  *)
(* set: it has not timed out.                                               *)
FreshInv == Recovering => last # "old"

(* A thread about to set the state to half_open does it for a circuit whose *)
(* failures still count.                                                    *)
ExpiredInv == \A c \in Callers : pc[c] = "expired" /\ last = "old" => count = Threshold

IInv == TypeOK /\ OpenedByFailures /\ OpenHasTimer /\ FreshInv /\ ExpiredInv

LEMMA InitIInv == Init => IInv
  BY BreakerAssumption
  DEF Init, IInv, TypeOK, Places, OpenedByFailures, OpenHasTimer, FreshInv, ExpiredInv, Recovering

(* What moving caller c does to the set of threads that log a recovery.     *)
LEMMA Moves ==
  ASSUME TypeOK, NEW c \in Callers, NEW p \in Places, At(c, p)
  PROVE  /\ pc' \in [Callers -> Places]
         /\ pc'[c] = p
         /\ \A d \in Callers : d # c => pc'[d] = pc[d]
         /\ p = "logs" => Recovering'
         /\ Recovering /\ pc[c] # "logs" => Recovering'
         /\ Recovering' /\ p # "logs" => Recovering
  <1>1. /\ pc' \in [Callers -> Places]
        /\ pc'[c] = p
        /\ \A d \in Callers : d # c => pc'[d] = pc[d]
    BY DEF TypeOK, At
  <1> QED BY <1>1 DEF Recovering

LEMMA CallerStep ==
  ASSUME IInv, NEW c \in Callers,
         \/ CanExecute(c) \/ TestTimeout(c) \/ RecordSuccess(c) \/ Close(c)
         \/ CountFailure(c) \/ Failed(c) \/ Unrecorded(c)
  PROVE  IInv'
  <1> USE BreakerAssumption DEF IInv, TypeOK, OpenedByFailures, OpenHasTimer, FreshInv, ExpiredInv
  <1>1. CASE CanExecute(c)
    <2>1. CASE UNCHANGED pc
      BY <1>1, <2>1 DEF CanExecute, Recovering
    <2>2. ASSUME NEW p \in {"call", "probe", "waiting"}, At(c, p) PROVE IInv'
      BY <1>1, <2>2, Moves DEF CanExecute, Places
    <2>3. CASE state = "open" /\ last = "old" /\ At(c, "expired")
      <3>1. count = Threshold
        BY <2>3
      <3> QED BY <1>1, <2>3, <3>1, Moves DEF CanExecute, Places
    <2> QED BY <1>1, <2>1, <2>2, <2>3 DEF CanExecute
  <1>2. CASE TestTimeout(c)
    <2>1. CASE pc[c] = "expired" /\ last = "old"
      <3>1. count = Threshold /\ At(c, "probe")
        BY <1>2, <2>1 DEF TestTimeout
      <3> QED BY <1>2, <2>1, <3>1, Moves DEF TestTimeout, Places
    <2>2. CASE ~(pc[c] = "expired" /\ last = "old")
      <3>1. At(c, "idle") /\ pc[c] # "logs"
        BY <1>2, <2>2 DEF TestTimeout
      <3> QED BY <1>2, <2>2, <3>1, Moves DEF TestTimeout, Places
    <2> QED BY <2>1, <2>2
  <1>3. CASE RecordSuccess(c)
    <2>1. CASE state = "closed"
      BY <1>3, <2>1, Moves DEF RecordSuccess, InCall, Places
    <2>2. CASE state # "closed"
      <3>1. At(c, "logs")
        BY <1>3, <2>2 DEF RecordSuccess
      <3> QED BY <1>3, <3>1, Moves DEF RecordSuccess, InCall, Places
    <2> QED BY <2>1, <2>2
  <1>4. CASE Close(c)
    BY <1>4, Moves DEF Close, Places
  <1>5. CASE CountFailure(c)
    BY <1>5, Moves DEF CountFailure, InCall, Places
  <1>6. CASE Failed(c)
    BY <1>6, Moves DEF Failed, Places
  <1>7. CASE Unrecorded(c)
    BY <1>7, Moves DEF Unrecorded, InCall, Places
  <1> QED BY <1>1, <1>2, <1>3, <1>4, <1>5, <1>6, <1>7

LEMMA IInvStep == IInv /\ [Next]_vars => IInv'
  <1> SUFFICES ASSUME IInv, [Next]_vars PROVE IInv'
    OBVIOUS
  <1>1. CASE TimePasses
    BY <1>1, BreakerAssumption
    DEF TimePasses, IInv, TypeOK, OpenedByFailures, OpenHasTimer, FreshInv, ExpiredInv, Recovering
  <1>2. CASE UNCHANGED vars
    BY <1>2
    DEF vars, IInv, TypeOK, OpenedByFailures, OpenHasTimer, FreshInv, ExpiredInv, Recovering
  <1> QED BY <1>1, <1>2, CallerStep DEF Next

(* IInv is an invariant: the step of every theorem below. *)
LEMMA Inductive == Spec => []IInv
  BY InitIInv, IInvStep, PTL DEF Spec

(* Whatever the threads interleave, the breaker is in one of its three       *)
(* states and counts no further than it looks.                               *)
THEOREM TypeCorrect == Spec => []TypeOK
  <1>1. IInv => TypeOK
    BY DEF IInv
  <1> QED BY <1>1, Inductive, PTL

(* An open circuit can always be probed again: no interleaving of a         *)
(* success with failures leaves it open without a failure time.             *)
THEOREM OpenCanRecover == Spec => []OpenHasTimer
  <1>1. IInv => OpenHasTimer
    BY DEF IInv
  <1> QED BY <1>1, Inductive, PTL

(* Only Threshold failures without a success in between open the circuit.   *)
THEOREM OpensByFailures == Spec => []OpenedByFailures
  <1>1. IInv => OpenedByFailures
    BY DEF IInv
  <1> QED BY <1>1, Inductive, PTL

(* No step lets a request pass an open circuit before its timeout.          *)
THEOREM OpenBlocks == Spec => BlockedWhileOpen
  <1> DEFINE Blocks ==
        \A c \in Callers :
          state = "open" /\ last # "old" => ~InCall(c)' \/ InCall(c)
  <1>1. ASSUME IInv, [Next]_vars PROVE [Blocks]_vars
    <2> SUFFICES ASSUME NEW c \in Callers, state = "open", last # "old", ~InCall(c)
                 PROVE  ~InCall(c)' \/ UNCHANGED vars
      BY DEF Blocks
    <2> USE DEF InCall
    <2>1. ASSUME NEW d \in Callers, NEW p \in {"idle", "waiting", "expired", "fail", "logs"},
                 At(d, p)
          PROVE  ~InCall(c)'
      BY <2>1, <1>1 DEF At, IInv, TypeOK
    <2>2. CASE UNCHANGED pc
      BY <2>2
    <2>3. ASSUME NEW d \in Callers, CanExecute(d) PROVE ~InCall(c)'
      BY <2>3, <2>1, <2>2 DEF CanExecute
    <2>4. ASSUME NEW d \in Callers, TestTimeout(d) PROVE ~InCall(c)'
      BY <2>4, <2>1 DEF TestTimeout
    <2>5. ASSUME NEW d \in Callers,
                 \/ RecordSuccess(d) \/ Close(d) \/ CountFailure(d) \/ Failed(d) \/ Unrecorded(d)
          PROVE  ~InCall(c)'
      <3>1. CASE RecordSuccess(d)
        BY <3>1, <2>1 DEF RecordSuccess
      <3> QED BY <2>5, <3>1, <2>1 DEF Close, CountFailure, Failed, Unrecorded
    <2> QED BY <1>1, <2>2, <2>3, <2>4, <2>5 DEF Next, TimePasses, vars
  <1> QED BY <1>1, Inductive, PTL DEF Spec, BlockedWhileOpen
=============================================================================
