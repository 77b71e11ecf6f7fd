----------------------------- MODULE PotholeSync -----------------------------
(***************************************************************************)
(* _sync_potholes (worker.py): the clusters of a ride are merged, one after *)
(* the other and without a transaction, into verified_potholes.  A cluster  *)
(* near a known pothole is added to it by reading the row and writing the   *)
(* sums back, any other is inserted.  Pool threads of one worker, and the   *)
(* worker processes, do this at the same time; a sync that fails is run     *)
(* again from the start when its ride is processed again, and meanwhile     *)
(* users vote a pothole fixed (HazardVerification).                         *)
(*                                                                          *)
(* A place is a point of a line, and the unique index of                    *)
(* dedupe_exact_gps_potholes.sql leaves at most one row at each.            *)
(***************************************************************************)
EXTENDS Severity, Sequences, FiniteSets

CONSTANTS
  Places, Radius,       \* MERGE_RADIUS_METERS
  Processors, Ride,     \* Ride[p]: the ride (of one user) that p has processed
  Clusters, MaxClusters,\* what a ride may have found, and bound on how many
  ReopenHits,           \* 3: hits that make a fixed pothole active again
  MaxTries              \* bound on the times a ride is processed

Rides == {Ride[p] : p \in Processors}

ClusterRecords ==
  [at : Places \cup {None}, hits : Nat \ {0}, area : Nat, frame : Severities,
   confidence : Nat]

RowRecords == [hits : Nat, sev : Severities, users : SUBSET Rides, fixed : BOOLEAN]

ASSUME SyncAssumption ==
  /\ Places \subseteq Nat /\ Radius \in Nat
  /\ MaxClusters \in Nat /\ ReopenHits \in Nat
  /\ Clusters \subseteq ClusterRecords

CopyRecords == [at : Places, row : RowRecords, own : BOOLEAN]

ASSUME NoneAssumption == None \notin Places /\ None \notin RowRecords /\ None \notin CopyRecords

VARIABLES
  found,     \* the clusters of each ride, constant
  rows,      \* verified_potholes: the row at each place, or None
  proc,      \* where each processor is: next cluster, matched copy of a row
  existing,  \* the copies that a processor keeps of the rows it inserted
  applied,   \* history: how often each cluster was merged or inserted
  overlapped,\* history: whether two syncs have been in progress at once
  stale      \* history: potholes voted fixed while a sync held a copy of them

vars == <<found, rows, proc, existing, applied, overlapped, stale>>

Distance(a, b) == IF a < b THEN b - a ELSE a - b

Proc(at, next, match, tries) ==
  [at |-> at, next |-> next, match |-> match, tries |-> tries]

Cluster(p) == found[Ride[p]][proc[p].next]

Goto(p, at, match) == proc' = [proc EXCEPT ![p] = Proc(at, @.next, match, @.tries)]

Syncing == {p \in Processors : proc[p].at \in {"fetch", "write"}}

(***************************************************************************)
(* _fetch_nearby_potholes and _find_matching_pothole: the closest of the   *)
(* rows fetched and of the processor's own copies; at equal distances an   *)
(* own copy, which comes later in the list.                                *)
(***************************************************************************)
Copies(p) ==
  {[at |-> x, row |-> rows[x], own |-> FALSE] : x \in {y \in Places : rows[y] # None}}
  \cup {[at |-> x, row |-> existing[p][x], own |-> TRUE] : x \in DOMAIN existing[p]}

(* Mutant of Matches: the radius is compared with <. *)
MatchesInside(p, c) ==
  {m \in Copies(p) :
     /\ Distance(m.at, c.at) < Radius
     /\ \A n \in Copies(p) : Distance(m.at, c.at) <= Distance(n.at, c.at)}

Matches(p, c) ==
  {m \in Copies(p) :
     /\ Distance(m.at, c.at) <= Radius
     /\ \A n \in Copies(p) :
          /\ Distance(m.at, c.at) <= Distance(n.at, c.at)
          /\ n.own /\ Distance(m.at, c.at) = Distance(n.at, c.at) => m.own}

(***************************************************************************)
(* _sync_potholes.                                                         *)
(***************************************************************************)
(* The ride is processed, for the first time or again after a failure. *)
Start(p) ==
  /\ proc[p].at \in {"idle", "failed"} /\ proc[p].tries < MaxTries
  /\ proc' = [proc EXCEPT ![p] =
       Proc(IF found[Ride[p]] = <<>> THEN "done" ELSE "fetch", 1, None, @.tries + 1)]
  /\ existing' = [existing EXCEPT ![p] = <<>>]
  /\ overlapped' = (overlapped \/ Syncing # {})
  /\ UNCHANGED <<found, rows, applied, stale>>

Advance(p) ==
  proc' = [proc EXCEPT ![p] =
    Proc(IF @.next = Len(found[Ride[p]]) THEN "done" ELSE "fetch", @.next + 1, None, @.tries)]

(* Coordinates out of range are skipped. *)
Skip(p) ==
  /\ proc[p].at = "fetch" /\ Cluster(p).at = None
  /\ Advance(p)
  /\ UNCHANGED <<found, rows, existing, applied, overlapped, stale>>

Fetch(p) ==
  /\ proc[p].at = "fetch" /\ Cluster(p).at # None
  /\ \/ \E m \in Matches(p, Cluster(p)) : Goto(p, "write", m)
     \/ Matches(p, Cluster(p)) = {} /\ Goto(p, "write", None)
  /\ UNCHANGED <<found, rows, existing, applied, overlapped, stale>>

(* A call raises: the exception ends the sync, and the ride fails. *)
Fail(p) ==
  /\ proc[p].at \in {"fetch", "write"}
  /\ Goto(p, "failed", None)
  /\ UNCHANGED <<found, rows, existing, applied, overlapped, stale>>

(* The row is written; the call may raise all the same. *)
Apply(p) ==
  /\ applied' = [applied EXCEPT ![<<Ride[p], proc[p].next>>] = @ + 1]
  /\ Advance(p) \/ Goto(p, "failed", None)
  /\ UNCHANGED <<found, overlapped, stale>>

(* The severity of a cluster. *)
FinalSeverity(c) == Fuse(AreaSeverity(c.area), c.frame, c.confidence)

Row(hits, sev, users, fixed) ==
  [hits |-> hits, sev |-> sev, users |-> users, fixed |-> fixed]

Merge(row, hits, sev, user) == Row(row.hits + hits, sev, row.users \cup {user}, row.fixed)

WithStatus(row, fixed) == Row(row.hits, row.sev, row.users, fixed)

(* Mutants of Merged: severities are added; the last severity stays; hits   *)
(* are counted twice.                                                       *)
MergedAdds(row, c, user) == Merge(row, c.hits, row.sev + FinalSeverity(c), user)
MergedLatest(row, c, user) == Merge(row, c.hits, FinalSeverity(c), user)
MergedTwice(row, c, user) ==
  Merge(row, 2 * c.hits, Escalate(row.sev, FinalSeverity(c)), user)

(* The user is added by _merge_user_detections. *)
Merged(row, c, user) == Merge(row, c.hits, Escalate(row.sev, FinalSeverity(c)), user)

(* Mutant of Reopens: none reopens a pothole. *)
ReopensNever(row, c) == FALSE

(* Enough hits make a pothole active again that the copy shows as fixed. *)
Reopens(row, c) == row.fixed /\ c.hits >= ReopenHits

(* The row is updated from the copy, and so is the copy; activity_status is *)
(* left alone unless the pothole is reopened.                               *)
Update(p) ==
  LET m == proc[p].match
      new == Merged(m.row, Cluster(p), Ride[p])
      fixed == rows[m.at].fixed /\ ~Reopens(m.row, Cluster(p)) IN
  /\ proc[p].at = "write" /\ m # None
  /\ rows' = [rows EXCEPT ![m.at] = WithStatus(new, fixed)]
  /\ existing' = IF m.own THEN [existing EXCEPT ![p][m.at] = new] ELSE existing
  /\ Apply(p)

New(p) ==
  Row(Cluster(p).hits, FinalSeverity(Cluster(p)), {Ride[p]}, FALSE)

Insert(p) ==
  LET x == Cluster(p).at IN
  /\ proc[p].at = "write" /\ proc[p].match = None
  /\ rows[x] = None
  /\ rows' = [rows EXCEPT ![x] = New(p)]
  /\ existing' = [existing EXCEPT ![p] =
       [y \in DOMAIN @ \cup {x} |-> IF y = x THEN New(p) ELSE @[y]]]
  /\ Apply(p)

(* The unique index refuses a second row at the place: the sync fails. *)
InsertRefused(p) ==
  /\ proc[p].at = "write" /\ proc[p].match = None
  /\ rows[Cluster(p).at] # None
  /\ Goto(p, "failed", None)
  /\ UNCHANGED <<found, rows, existing, applied, overlapped, stale>>

Held(x) ==
  {p \in Syncing : \/ proc[p].match # None /\ proc[p].match.at = x
                   \/ x \in DOMAIN existing[p]}

(* Users vote a pothole fixed. *)
Fix(x) ==
  /\ rows[x] # None /\ ~rows[x].fixed
  /\ rows' = [rows EXCEPT ![x] = WithStatus(@, TRUE)]
  /\ stale' = IF Held(x) # {} THEN stale \cup {x} ELSE stale
  /\ UNCHANGED <<found, proc, existing, applied, overlapped>>

Init ==
  /\ found \in [Rides -> UNION {[1 .. n -> Clusters] : n \in 0 .. MaxClusters}]
  /\ rows = [x \in Places |-> None]
  /\ proc = [p \in Processors |-> Proc("idle", 1, None, 0)]
  /\ existing = [p \in Processors |-> <<>>]
  /\ applied = [a \in Rides \X (1 .. MaxClusters) |-> 0]
  /\ overlapped = FALSE
  /\ stale = {}

Next ==
  \/ \E p \in Processors :
       Start(p) \/ Skip(p) \/ Fetch(p) \/ Fail(p) \/ Update(p) \/ Insert(p) \/ InsertRefused(p)
  \/ \E x \in Places : Fix(x)

Spec == Init /\ [][Next]_vars

-----------------------------------------------------------------------------
Known == {x \in Places : rows[x] # None}

(* Type invariant. *)
TypeOK ==
  /\ rows \in [Places -> RowRecords \cup {None}]
  /\ \A p \in Processors :
       /\ proc[p].at \in {"idle", "fetch", "write", "done", "failed"}
       /\ proc[p].next \in 1 .. MaxClusters + 1
       /\ DOMAIN existing[p] \subseteq Known
  /\ applied \in [Rides \X (1 .. MaxClusters) -> Nat]

(* The sum of the values of f, counted unit by unit.                        *)
Units(f) == UNION {{x} \X (1 .. f[x]) : x \in DOMAIN f}
Total(f) == Cardinality(Units(f))

(* The hits of the rows, and those of the clusters as often as they were    *)
(* merged or inserted.                                                      *)
Shown == [x \in Known |-> rows[x].hits]
Counted ==
  [a \in {b \in DOMAIN applied : applied[b] # 0} |-> applied[a] * found[a[1]][a[2]].hits]

(* While syncs have not overlapped, the potholes show exactly the hits of   *)
(* the clusters that the rides found: none is lost, and none counts twice   *)
(* but those of a ride that is processed again, whose clusters count again  *)
(* as far as its failed syncs had come.                                     *)
HitsConserved == ~overlapped => Total(Shown) = Total(Counted)

(* While syncs have not overlapped, no two rows are so near to each other   *)
(* that one would match the other, however often syncs fail and are         *)
(* repeated: clusters are "merged with existing potholes or inserted as     *)
(* new" (README.md:109).                                                    *)
Separated ==
  ~overlapped => \A x, y \in Known : x # y => Distance(x, y) > Radius

KnowsMore(new, old) ==
  /\ new # None
  /\ new.hits >= old.hits /\ new.sev >= old.sev
  /\ old.users \subseteq new.users

(* While syncs have not overlapped, they only add to what is known of a     *)
(* pothole: hits, the worst severity and the users who have met it.  (Of    *)
(* two overlapping merges the second write loses the first.)                *)
SeriallyGrows ==
  [][overlapped \/ \A x \in Known : KnowsMore(rows'[x], rows[x])]_vars

(* A pothole voted fixed that a ride then meets with enough hits is active  *)
(* again once the cluster is merged, even when syncs overlap: unless it was *)
(* voted fixed while a sync held a copy that did not show it.               *)
MetIsActive ==
  [][\A a \in DOMAIN applied, x \in Known \ stale :
       /\ applied'[a] > applied[a] /\ found[a[1]][a[2]].hits >= ReopenHits
       /\ rows'[x] # rows[x]
       => ~rows'[x].fixed]_vars
=============================================================================
