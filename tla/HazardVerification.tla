-------------------------- MODULE HazardVerification --------------------------
(***************************************************************************)
(* "Still here" and "Fixed" taps on one hazard: the transactions of         *)
(* mark_hazard_signal (add_notifications.sql, its newest definition) at     *)
(* PostgreSQL's default isolation, READ COMMITTED, and the reset that the   *)
(* pipeline makes when it detects a fixed pothole again (worker.py).        *)
(*                                                                          *)
(* A statement sees what was committed when it started and the transaction's *)
(* own writes.  So a transaction has three steps: the read of the old       *)
(* status; the upsert and the count; the update, whose row lock lasts to    *)
(* the commit, with the notifications.                                      *)
(***************************************************************************)
EXTENDS Naturals, FiniteSets

CONSTANTS
  Users, Owner,   \* the owner of the post may or may not be one of Users
  Processors,     \* pipeline threads that may detect the pothole again
  FixAt,          \* how many "fixed" signals it takes (3)
  MaxOverlap,     \* bound on transactions in flight
  None

Signals == {"still", "fixed"}

ASSUME HazardAssumption ==
  /\ IsFiniteSet(Users)
  /\ FixAt \in Nat \ {0}
  /\ None \notin Signals

VARIABLES
  signal,    \* hazard_verifications: one row per user, or None
  row,       \* the hazard's fixed_count, still_count and activity_status
  told,      \* the status in the owner's last flip notification
  tap,       \* the transaction of each user
  reopener,  \* processors that have read the hazard as fixed
  alone,     \* history: the user whose transaction no other has overlapped
  disturbed  \* history: taps have overlapped or the pipeline has reopened the
             \* hazard, and no tap has been alone since

vars == <<signal, row, told, tap, reopener, alone, disturbed>>

NoTap == [at |-> "idle", signal |-> None, old |-> None, fixed |-> 0, still |-> 0]

InFlight == {u \in Users : tap[u].at # "idle"}

Count(s, of) == Cardinality({u \in Users : of[u] = s})

(* The signals that a statement of u's transaction sees after its upsert. *)
Seen(u) == [signal EXCEPT ![u] = tap[u].signal]

(* Mutants of Decide: the majority test is missing; the status is one that *)
(* the CHECK constraint does not know.                                     *)
DecideNoMajority(fixed, still) == IF fixed >= FixAt THEN "fixed" ELSE "active"

DecideResolved(fixed, still) == IF fixed >= FixAt /\ fixed > still THEN "resolved" ELSE "active"

Decide(fixed, still) == IF fixed >= FixAt /\ fixed > still THEN "fixed" ELSE "active"

(***************************************************************************)
(* mark_hazard_signal.                                                     *)
(***************************************************************************)
Begin(u, s, old) ==
  /\ tap[u] = NoTap
  /\ Cardinality(InFlight) < MaxOverlap
  /\ tap' = [tap EXCEPT ![u] =
       [at |-> "read", signal |-> s, old |-> old, fixed |-> 0, still |-> 0]]
  /\ alone' = IF InFlight = {} THEN {u} ELSE {}
  /\ disturbed' = (disturbed \/ InFlight # {})
  /\ UNCHANGED <<signal, row, told, reopener>>

(* Mutant of ReadOld: v_old_status keeps its default. *)
ReadOldDefault(u, s) == Begin(u, s, "active")

ReadOld(u, s) == Begin(u, s, row.status)

(* The counts over the signals that "of" shows. *)
CountIn(u, of) ==
  /\ tap[u].at = "read"
  /\ tap' = [tap EXCEPT ![u] =
       [at |-> "counted", signal |-> @.signal, old |-> @.old,
        fixed |-> Count("fixed", of), still |-> Count("still", of)]]
  /\ UNCHANGED <<signal, row, told, reopener, alone, disturbed>>

(* Mutant of CountSignals: the count comes before the upsert. *)
CountOthers(u) == CountIn(u, signal)

CountSignals(u) == CountIn(u, Seen(u))

(* UPDATE with the counts of the earlier statement, notify_owner, COMMIT. *)
UpdateRow(u) ==
  LET t == tap[u]
      new == Decide(t.fixed, t.still) IN
  /\ t.at = "counted"
  /\ signal' = Seen(u)
  /\ row' = [fixed |-> t.fixed, still |-> t.still, status |-> new]
  /\ told' = IF t.old # new /\ u # Owner THEN new ELSE told
  /\ tap' = [tap EXCEPT ![u] = NoTap]
  /\ alone' = alone \ {u}
  /\ disturbed' = (disturbed /\ u \notin alone)
  /\ UNCHANGED reopener

(***************************************************************************)
(* _sync_potholes: a fixed pothole with three new hits is active again,    *)
(* with no counts.  The users' signals stay.                               *)
(***************************************************************************)
FetchFixed(p) ==
  /\ p \notin reopener
  /\ row.status = "fixed"
  /\ reopener' = reopener \cup {p}
  /\ UNCHANGED <<signal, row, told, tap, alone, disturbed>>

Reopen(p) ==
  /\ p \in reopener
  /\ row' = [fixed |-> 0, still |-> 0, status |-> "active"]
  /\ reopener' = reopener \ {p}
  /\ disturbed' = TRUE
  /\ UNCHANGED <<signal, told, tap, alone>>

Init ==
  /\ signal = [u \in Users |-> None]
  /\ row = [fixed |-> 0, still |-> 0, status |-> "active"]
  /\ told = "active"
  /\ tap = [u \in Users |-> NoTap]
  /\ reopener = {} /\ alone = {} /\ disturbed = FALSE

Next ==
  \/ \E u \in Users :
       (\E s \in Signals : ReadOld(u, s)) \/ CountSignals(u) \/ UpdateRow(u)
  \/ \E p \in Processors : FetchFixed(p) \/ Reopen(p)

Spec == Init /\ [][Next]_vars

-----------------------------------------------------------------------------
(* Type invariant. *)
TypeOK ==
  /\ signal \in [Users -> Signals \cup {None}]
  /\ row \in [fixed : Nat, still : Nat, status : {"active", "fixed"}]
  /\ told \in {"active", "fixed"}
  /\ tap \in [Users -> [at : {"idle", "read", "counted"}, signal : Signals \cup {None},
                        old : {"active", "fixed", None}, fixed : Nat, still : Nat]]
  /\ alone \subseteq Users /\ disturbed \in BOOLEAN
  /\ reopener \subseteq Processors

FixedByConsensus ==
  Count("fixed", signal) >= FixAt /\ Count("fixed", signal) > Count("still", signal)

(* The rule of add_fixed_verification.sql, for the signals that the users   *)
(* have given and that get_hazard_verification shows with the status: it    *)
(* holds unless taps have overlapped or the pipeline has reopened the       *)
(* hazard, and the next tap that is alone restores it, whatever mixture of  *)
(* stale counts and resets it finds.                                        *)
RuleHolds == ~disturbed => (row.status = "fixed" <=> FixedByConsensus)

(* The transactions are what the community is promised: each undisturbed    *)
(* tap is one step of HazardConsensus, with the notification of its owner;  *)
(* and a disturbance may blur the status but never a user's signal.         *)
Promise == INSTANCE HazardConsensus WITH status <- row.status, blurred <- disturbed

Implements == Promise!Spec
=============================================================================
