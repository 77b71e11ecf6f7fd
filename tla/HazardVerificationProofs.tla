----------------------- MODULE HazardVerificationProofs -----------------------
(***************************************************************************)
(* For every set of users, every threshold, every number of overlapping    *)
(* transactions and every pipeline: an undisturbed hazard obeys the rule,  *)
(* and the transactions implement what HazardConsensus promises.           *)
(***************************************************************************)
EXTENDS HazardVerification, FiniteSetTheorems, TLAPS

(* A transaction that is alone is the only one in flight, ...               *)
AloneInFlight == \A u \in alone, v \in Users : tap[v].at # "idle" <=> v = u

(* ... and its counts are those of the signals it will commit.              *)
AloneCounts == \A u \in alone : tap[u].at = "counted" =>
  /\ tap[u].fixed = Count("fixed", Seen(u))
  /\ tap[u].still = Count("still", Seen(u))

(* On an undisturbed hazard a transaction in flight is alone, and the       *)
(* status it has read is still the hazard's.                                *)
ReadsCurrent == \A u \in Users : tap[u].at # "idle" =>
  /\ tap[u].signal \in Signals
  /\ disturbed \/ (u \in alone /\ tap[u].old = row.status)

Inv == TypeOK /\ AloneInFlight /\ AloneCounts /\ ReadsCurrent /\ RuleHolds

-----------------------------------------------------------------------------
(* HazardConsensus counts with its own instance of FiniteSets. *)
LEMMA SameCardinality == \A S : Promise!Cardinality(S) = Cardinality(S)
  BY DEF Cardinality, Promise!Cardinality

LEMMA CountIsNat ==
  ASSUME NEW s, NEW of PROVE Count(s, of) \in Nat
  <1>1. IsFiniteSet({u \in Users : of[u] = s})
    BY HazardAssumption, FS_Subset
  <1> QED BY <1>1, FS_CardinalityType DEF Count

LEMMA NobodyCounted ==
  ASSUME NEW s \in Signals PROVE Count(s, [u \in Users |-> None]) = 0
  <1>1. {u \in Users : [v \in Users |-> None][u] = s} = {}
    BY HazardAssumption
  <1> QED BY <1>1, FS_EmptySet DEF Count

LEMMA InitInv == Init => Inv
  <1> SUFFICES ASSUME Init PROVE Inv
    OBVIOUS
  <1>1. TypeOK /\ AloneInFlight /\ AloneCounts /\ ReadsCurrent
    BY DEF Init, TypeOK, AloneInFlight, AloneCounts, ReadsCurrent, NoTap
  <1>2. Count("fixed", signal) = 0
    BY NobodyCounted DEF Init, Signals
  <1> QED BY <1>1, <1>2, HazardAssumption DEF Inv, RuleHolds, FixedByConsensus, Init

LEMMA BeginStep ==
  ASSUME Inv, NEW u \in Users, NEW s \in Signals, ReadOld(u, s)
  PROVE  Inv'
  <1> USE DEF Inv
  <1> DEFINE t == [at |-> "read", signal |-> s, old |-> row.status,
                   fixed |-> 0, still |-> 0]
  <1>1. /\ tap[u].at = "idle"
        /\ tap' = [tap EXCEPT ![u] = t]
        /\ alone' = IF InFlight = {} THEN {u} ELSE {}
        /\ disturbed' = (disturbed \/ InFlight # {})
        /\ UNCHANGED <<signal, row, told, reopener>>
    BY DEF ReadOld, Begin, NoTap
  <1>2. TypeOK'
    BY <1>1 DEF TypeOK
  <1>3. /\ tap'[u] = t
        /\ \A v \in Users : v # u => tap'[v] = tap[v]
    BY <1>1 DEF TypeOK
  <1>4. InFlight = {} => \A v \in Users : tap[v].at = "idle"
    BY DEF InFlight
  <1>5. AloneInFlight' /\ AloneCounts'
    BY <1>1, <1>3, <1>4 DEF AloneInFlight, AloneCounts
  <1>6. ReadsCurrent'
    BY <1>1, <1>3, <1>4 DEF ReadsCurrent, TypeOK
  <1>7. RuleHolds'
    BY <1>1 DEF RuleHolds, FixedByConsensus, Count, TypeOK
  <1> QED BY <1>2, <1>5, <1>6, <1>7

LEMMA CountStep ==
  ASSUME Inv, NEW u \in Users, CountSignals(u) PROVE Inv'
  <1> USE DEF Inv
  <1> DEFINE fixed == Count("fixed", Seen(u))
             still == Count("still", Seen(u))
             t == [at |-> "counted", signal |-> tap[u].signal, old |-> tap[u].old,
                   fixed |-> fixed, still |-> still]
  <1>1. /\ tap[u].at = "read"
        /\ tap' = [tap EXCEPT ![u] = t]
        /\ UNCHANGED <<signal, row, told, reopener, alone, disturbed>>
    BY DEF CountSignals, CountIn
  <1>2. fixed \in Nat /\ still \in Nat
    BY CountIsNat
  <1> HIDE DEF fixed, still
  <1>3. TypeOK'
    BY <1>1, <1>2 DEF TypeOK
  <1>4. tap'[u] = t /\ \A v \in Users : v # u => tap'[v] = tap[v]
    BY <1>1 DEF TypeOK
  <1>5. Seen(u)' = Seen(u)
    BY <1>1, <1>4 DEF Seen
  <1>6. fixed = Count("fixed", Seen(u))' /\ still = Count("still", Seen(u))'
    BY <1>5 DEF fixed, still, Count
  <1>7. AloneInFlight'
    BY <1>1, <1>4 DEF AloneInFlight
  <1>8. AloneCounts'
    <2> SUFFICES ASSUME NEW v \in alone, tap'[v].at = "counted"
                 PROVE  /\ tap'[v].fixed = Count("fixed", Seen(v))'
                        /\ tap'[v].still = Count("still", Seen(v))'
      BY <1>1 DEF AloneCounts
    <2>1. v = u
      BY <1>1 DEF AloneInFlight, TypeOK
    <2> QED BY <2>1, <1>4, <1>6
  <1>9. ReadsCurrent' /\ RuleHolds'
    BY <1>1, <1>4 DEF ReadsCurrent, RuleHolds, FixedByConsensus, Count
  <1> QED BY <1>3, <1>7, <1>8, <1>9

(* What a transaction that is alone commits is what the rule says of the    *)
(* signals it commits.                                                      *)
LEMMA AloneCommits ==
  ASSUME Inv, NEW u \in alone, UpdateRow(u)
  PROVE  /\ row'.status = IF FixedByConsensus' THEN "fixed" ELSE "active"
         /\ disturbed' = FALSE
  <1>1. /\ tap[u].at = "counted" /\ signal' = Seen(u)
        /\ row'.status = Decide(tap[u].fixed, tap[u].still)
        /\ disturbed' = FALSE
    BY DEF UpdateRow, Inv, TypeOK
  <1>2. /\ tap[u].fixed = Count("fixed", Seen(u))
        /\ tap[u].still = Count("still", Seen(u))
    BY <1>1 DEF Inv, AloneCounts
  <1>3. Count("fixed", signal)' = tap[u].fixed /\ Count("still", signal)' = tap[u].still
    BY <1>1, <1>2 DEF Count
  <1> QED BY <1>1, <1>3 DEF Decide, FixedByConsensus

LEMMA UpdateStep ==
  ASSUME Inv, NEW u \in Users, UpdateRow(u) PROVE Inv'
  <1> USE DEF Inv
  <1>1. /\ tap[u].at = "counted" /\ tap[u].signal \in Signals
        /\ signal' = [signal EXCEPT ![u] = tap[u].signal]
        /\ tap' = [tap EXCEPT ![u] = NoTap]
        /\ alone' = alone \ {u} /\ disturbed' = (disturbed /\ u \notin alone)
        /\ UNCHANGED reopener
    BY DEF UpdateRow, ReadsCurrent, Seen
  <1>2. TypeOK'
    <2>1. row' \in [fixed : Nat, still : Nat, status : {"active", "fixed"}]
          /\ told' \in {"active", "fixed"}
      BY DEF UpdateRow, Decide, TypeOK
    <2>2. NoTap \in [at : {"idle", "read", "counted"}, signal : Signals \cup {None},
                     old : {"active", "fixed", None}, fixed : Nat, still : Nat]
      BY DEF NoTap
    <2> QED BY <1>1, <2>1, <2>2 DEF TypeOK
  <1>3. tap'[u].at = "idle" /\ \A v \in Users : v # u => tap'[v] = tap[v]
    BY <1>1 DEF TypeOK, NoTap
  <1>4. CASE u \in alone
    <2>1. alone' = {}
      BY <1>1, <1>4 DEF AloneInFlight, TypeOK
    <2>2. \A v \in Users : tap'[v].at = "idle"
      BY <1>3, <1>4 DEF AloneInFlight
    <2>3. RuleHolds'
      BY <1>4, AloneCommits DEF RuleHolds
    <2> QED BY <1>2, <2>1, <2>2, <2>3 DEF AloneInFlight, AloneCounts, ReadsCurrent
  <1>5. CASE u \notin alone
    <2>1. disturbed /\ disturbed'
      BY <1>1, <1>5 DEF ReadsCurrent, TypeOK
    <2>2. alone = {} /\ alone' = {}
      BY <1>1, <1>5 DEF AloneInFlight, TypeOK
    <2>3. ReadsCurrent'
      BY <1>3, <2>1 DEF ReadsCurrent
    <2> QED BY <1>2, <2>1, <2>2, <2>3 DEF AloneInFlight, AloneCounts, RuleHolds
  <1> QED BY <1>4, <1>5

LEMMA CountsKept ==
  ASSUME TypeOK, AloneCounts, UNCHANGED <<signal, tap, alone>> PROVE AloneCounts'
  <1> SUFFICES ASSUME NEW u \in alone, tap[u].at = "counted"
               PROVE  /\ tap[u].fixed = Count("fixed", Seen(u))'
                      /\ tap[u].still = Count("still", Seen(u))'
    BY DEF AloneCounts
  <1>1. Seen(u)' = Seen(u)
    BY DEF Seen
  <1>2. tap[u].fixed = Count("fixed", Seen(u)) /\ tap[u].still = Count("still", Seen(u))
    BY DEF AloneCounts
  <1> QED BY <1>1, <1>2 DEF Count

LEMMA ReopenStep ==
  ASSUME Inv, NEW p \in Processors, Reopen(p) PROVE Inv'
  <1> USE DEF Inv
  <1>1. TypeOK' /\ disturbed' /\ UNCHANGED <<signal, tap, alone>>
    BY DEF Reopen, TypeOK
  <1>2. AloneInFlight' /\ ReadsCurrent' /\ RuleHolds'
    BY <1>1 DEF AloneInFlight, ReadsCurrent, RuleHolds
  <1> QED BY <1>1, <1>2, CountsKept

LEMMA QuietStep ==
  ASSUME Inv, TypeOK', UNCHANGED <<signal, row, tap, alone, disturbed>> PROVE Inv'
  BY CountsKept DEF Inv, AloneInFlight, ReadsCurrent, RuleHolds, FixedByConsensus, Count

LEMMA NextInv == Inv /\ [Next]_vars => Inv'
  <1> SUFFICES ASSUME Inv, [Next]_vars PROVE Inv'
    OBVIOUS
  <1>1. CASE UNCHANGED vars
    BY <1>1, QuietStep DEF vars, Inv, TypeOK
  <1>2. ASSUME NEW p \in Processors, FetchFixed(p) PROVE Inv'
    BY <1>2, QuietStep DEF FetchFixed, Inv, TypeOK
  <1> QED BY <1>1, <1>2, BeginStep, CountStep, UpdateStep, ReopenStep DEF Next

(* Type correctness.                                                        *)
THEOREM TypeCorrect == Spec => []TypeOK
  <1>1. Inv => TypeOK
    BY DEF Inv
  <1> QED BY <1>1, InitInv, NextInv, PTL DEF Spec

(* An undisturbed hazard has the status that its users' signals call for,   *)
(* and a tap that is alone undisturbs it.                                   *)
THEOREM RuleAlways == Spec => []RuleHolds
  <1>1. Inv => RuleHolds
    BY DEF Inv
  <1> QED BY <1>1, InitInv, NextInv, PTL DEF Spec

-----------------------------------------------------------------------------
(* Every step is a tap or a blur of HazardConsensus, or changes nothing     *)
(* that it speaks of.                                                       *)
LEMMA StepRefines ==
  ASSUME Inv, [Next]_vars
  PROVE  [Promise!Next]_<<signal, row.status, told, disturbed>>
  <1>1. ASSUME NEW u \in Users, UpdateRow(u) PROVE Promise!Next
    <2>1. /\ tap[u].at = "counted" /\ tap[u].signal \in {"still", "fixed"}
          /\ Promise!Signal(u, tap[u].signal)
          /\ told' = IF tap[u].old # row'.status /\ u # Owner THEN row'.status ELSE told
          /\ row'.status \in {"active", "fixed"}
      BY <1>1 DEF UpdateRow, Decide, Inv, ReadsCurrent, Signals, Seen, Promise!Signal
    <2>2. CASE u \in alone
      <3>1. row'.status = Promise!Consensus(signal') /\ disturbed' = FALSE
        BY <1>1, <2>2, AloneCommits, SameCardinality
        DEF FixedByConsensus, Count, Promise!Consensus, Promise!Saying
      <3>2. disturbed \/ tap[u].old = row.status
        BY <2>1 DEF Inv, ReadsCurrent
      <3>3. Promise!Tap(u, tap[u].signal)
        BY <2>1, <3>1, <3>2 DEF Promise!Tap
      <3> QED BY <2>1, <3>3 DEF Promise!Next
    <2>3. CASE u \notin alone
      <3>1. disturbed' = TRUE
        BY <1>1, <2>1, <2>3 DEF UpdateRow, Inv, ReadsCurrent, TypeOK
      <3>2. Promise!Blur
        BY <2>1, <3>1 DEF Promise!Blur
      <3> QED BY <3>2 DEF Promise!Next
    <2> QED BY <2>2, <2>3
  <1>2. ASSUME NEW p \in Processors, Reopen(p) PROVE Promise!Next
    BY <1>2 DEF Reopen, Promise!Next, Promise!Blur
  <1>3. ASSUME NEW u \in Users, NEW s \in Signals, ReadOld(u, s), disturbed' # disturbed
        PROVE  Promise!Next
    <2>1. disturbed' = TRUE /\ UNCHANGED <<signal, row, told>>
      BY <1>3 DEF ReadOld, Begin, Inv, TypeOK
    <2> QED BY <2>1 DEF Inv, TypeOK, Promise!Next, Promise!Blur
  <1>4. CASE UNCHANGED <<signal, row, told, disturbed>>
    BY <1>4
  <1> QED BY <1>1, <1>2, <1>3, <1>4
       DEF Next, vars, ReadOld, Begin, CountSignals, CountIn, FetchFixed

(* The transactions do what the community is promised, however they overlap *)
(* with each other and with the pipeline.                                   *)
THEOREM TapsImplement == Spec => Implements
  <1>1. Init => Promise!Init
    BY DEF Init, Promise!Init
  <1> QED BY <1>1, InitInv, NextInv, StepRefines, PTL
       DEF Spec, Implements, Promise!Spec
=============================================================================
