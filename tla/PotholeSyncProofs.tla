-------------------------- MODULE PotholeSyncProofs --------------------------
(***************************************************************************)
(* Proofs about Severity and PotholeSync, for every set of places, clusters *)
(* and processors and every number of retries: what fuse_severity makes of  *)
(* its inputs, the type invariant, and that syncs which do not overlap keep *)
(* the potholes apart and only add to them.                                 *)
(***************************************************************************)
EXTENDS PotholeSync, FiniteSetTheorems, SequenceTheorems, WellFoundedInduction, TLAPS

(* fuse_severity: the IPM severity stands whatever the frame says, unless   *)
(* the two are at opposite ends, which makes a Moderate; and a confidence   *)
(* below its caps only lowers it, to Moderate and to Minor.                 *)
THEOREM FuseIsIpm ==
  ASSUME NEW ipm \in Severities, NEW frame \in Severities, NEW confidence \in Nat \ {None}
  PROVE  LET blended == IF ipm + frame = 2 THEN 1 ELSE ipm IN
         Fuse(ipm, frame, confidence) =
           IF confidence < 25 THEN 0
           ELSE IF confidence < 50 /\ blended = 2 THEN 1 ELSE blended
  BY DEF Fuse, Quantized, Severities

(* fuse_severity is monotone: more of a physical area, of the frame or of   *)
(* confidence never makes a pothole less severe.                            *)
THEOREM FuseMonotone ==
  ASSUME NEW i1 \in Severities, NEW i2 \in Severities, i1 <= i2,
         NEW f1 \in Severities, NEW f2 \in Severities, f1 <= f2,
         NEW c1 \in Nat \ {None}, NEW c2 \in Nat \ {None}, c1 <= c2
  PROVE  Fuse(i1, f1, c1) <= Fuse(i2, f2, c2)
  BY DEF Fuse, Quantized, Severities

(* frame_area_pct_to_severity is monotone: a box that fills as much of the  *)
(* frame or more, seen from as far or farther, is never less severe, if     *)
(* both distances are over 0.1 m and so both shares are normalized; and at  *)
(* one distance whatever it is, an unknown one too.  (A share that is not   *)
(* normalized, of 0.1 m or unknown, is greater than the same at 0.2 m.)     *)
THEOREM FrameMonotone ==
  ASSUME NEW s1 \in Nat, NEW s2 \in Nat, s1 <= s2,
         NEW d1 \in Nat \cup {None}, NEW d2 \in Nat \cup {None},
         d1 = d2 \/ (None \notin {d1, d2} /\ 1 < d1 /\ d1 <= d2)
  PROVE  FrameSeverity(s1, d1) <= FrameSeverity(s2, d2)
  <1>1. /\ FrameShare(s1, d1) <= FrameShare(s2, d2)
        /\ FrameShare(s1, d1) \in Int /\ FrameShare(s2, d2) \in Int
    <2>1. CASE d1 # None /\ d1 > 1
      <3>1. d1 \in Nat /\ d2 \in Nat /\ d1 <= d2 /\ d2 # None /\ d2 > 1
        BY <2>1
      <3>2. \A m, n, k, l \in Nat : m <= n /\ k <= l =>
              m * k <= n * l /\ m * k \in Nat /\ n * l \in Nat
        <4> TAKE m, n, k, l \in Nat
        <4> HAVE m <= n /\ k <= l
        <4>1. m * k <= n * k /\ m * k \in Nat
          OBVIOUS
        <4>2. n * k <= n * l /\ n * l \in Nat
          OBVIOUS
        <4>3. n * k \in Nat
          OBVIOUS
        <4> QED BY <4>1, <4>2, <4>3
      <3> DEFINE a == s1 * d1
      <3> DEFINE b == s2 * d2
      <3>3. a <= b /\ a \in Nat /\ b \in Nat
        BY <3>1, <3>2
      <3> HIDE DEF a, b
      <3> DEFINE x == a * d1
      <3> DEFINE y == b * d2
      <3>4. x <= y /\ x \in Nat /\ y \in Nat
        BY <3>1, <3>2, <3>3
      <3> HIDE DEF x, y
      <3>5. /\ (x + 5000) \div 10000 <= (y + 5000) \div 10000
            /\ (x + 5000) \div 10000 \in Int /\ (y + 5000) \div 10000 \in Int
        BY <3>4
      <3> QED BY <2>1, <3>1, <3>5 DEF FrameShare, x, y, a, b
    <2>2. CASE ~(d1 # None /\ d1 > 1)
      BY <2>2 DEF FrameShare
    <2> QED BY <2>1, <2>2
  <1> QED BY <1>1 DEF FrameSeverity

(* The severity of a cluster is one of the three. *)
LEMMA FinalType ==
  ASSUME NEW c \in ClusterRecords
  PROVE  FinalSeverity(c) \in Severities
  BY DEF ClusterRecords, FinalSeverity, Fuse, AreaSeverity, Quantized, Severities

-----------------------------------------------------------------------------
(* What a processor works on. *)
ProcInv ==
  /\ found \in [Rides -> UNION {[1 .. n -> Clusters] : n \in 0 .. MaxClusters}]
  /\ DOMAIN proc = Processors /\ DOMAIN existing = Processors
  /\ \A p \in Processors :
       /\ proc[p].tries \in Int
       /\ p \in Syncing => proc[p].next \in 1 .. Len(found[Ride[p]])
       /\ proc[p].at = "write" => Cluster(p).at # None
       /\ proc[p].at = "write" /\ proc[p].match # None =>
            /\ proc[p].match.at \in Known
            /\ proc[p].match.row \in RowRecords
            /\ proc[p].match.own \in BOOLEAN
            /\ proc[p].match.own <=> proc[p].match.at \in DOMAIN existing[p]
       /\ \A x \in DOMAIN existing[p] : existing[p][x] \in RowRecords

(* But for the status, the copy of a row is the row. *)
Same(copy, row) == copy.hits = row.hits /\ copy.sev = row.sev /\ copy.users = row.users

(* While syncs have not overlapped, the only one in progress has true       *)
(* copies, and no row is near to a cluster that has no match.               *)
SoloInv ==
  ~overlapped =>
    /\ \A p, q \in Syncing : p = q
    /\ \A p \in Syncing :
         /\ \A x \in DOMAIN existing[p] : Same(existing[p][x], rows[x])
         /\ proc[p].at = "write" =>
              IF proc[p].match # None
              THEN Same(proc[p].match.row, rows[proc[p].match.at])
              ELSE \A x \in Known : Distance(x, Cluster(p).at) > Radius

Inv == TypeOK /\ ProcInv /\ SoloInv /\ Separated

LEMMA ProcFields ==
  ASSUME NEW at, NEW next, NEW match, NEW tries
  PROVE  /\ Proc(at, next, match, tries).at = at
         /\ Proc(at, next, match, tries).next = next
         /\ Proc(at, next, match, tries).match = match
         /\ Proc(at, next, match, tries).tries = tries
  BY DEF Proc

LEMMA RowType ==
  ASSUME NEW hits \in Nat, NEW sev \in Severities, NEW users \in SUBSET Rides,
         NEW fixed \in BOOLEAN
  PROVE  /\ Row(hits, sev, users, fixed) \in RowRecords
         /\ Row(hits, sev, users, fixed).hits = hits
         /\ Row(hits, sev, users, fixed).sev = sev
         /\ Row(hits, sev, users, fixed).users = users
         /\ Row(hits, sev, users, fixed).fixed = fixed
  BY DEF Row, RowRecords

(* A row has the fields of a row. *)
LEMMA RowTyped ==
  ASSUME NEW row \in RowRecords
  PROVE  /\ row.hits \in Nat /\ row.sev \in Severities /\ row.users \subseteq Rides
         /\ row.fixed \in BOOLEAN
  BY DEF RowRecords

(* A status is all that WithStatus changes. *)
LEMMA StatusType ==
  ASSUME NEW row \in RowRecords, NEW fixed \in BOOLEAN
  PROVE  /\ WithStatus(row, fixed) \in RowRecords
         /\ WithStatus(row, fixed).hits = row.hits
         /\ WithStatus(row, fixed).sev = row.sev
         /\ WithStatus(row, fixed).users = row.users
         /\ WithStatus(row, fixed).fixed = fixed
  BY RowTyped, RowType DEF WithStatus

(* What a ride found are clusters, MaxClusters at most. *)
LEMMA FoundType ==
  ASSUME ProcInv, NEW p \in Processors
  PROVE  /\ Len(found[Ride[p]]) \in 0 .. MaxClusters
         /\ \A n \in 1 .. Len(found[Ride[p]]) : found[Ride[p]][n] \in ClusterRecords
         /\ found[Ride[p]] # <<>> => Len(found[Ride[p]]) >= 1
  <1>1. PICK n \in 0 .. MaxClusters : found[Ride[p]] \in [1 .. n -> Clusters]
    <2> DEFINE U == UNION {[1 .. n -> Clusters] : n \in 0 .. MaxClusters}
    <2>1. Ride[p] \in Rides /\ found \in [Rides -> U]
      BY DEF ProcInv, Rides
    <2> HIDE DEF U
    <2>2. found[Ride[p]] \in U
      BY <2>1
    <2> QED BY <2>2 DEF U
  <1>2. n \in Nat /\ found[Ride[p]] \in Seq(Clusters) /\ DOMAIN found[Ride[p]] = 1 .. n
    BY <1>1, SeqDef, SyncAssumption
  <1>3. Len(found[Ride[p]]) = n
    BY <1>2, LenProperties
  <1>4. found[Ride[p]] # <<>> => n # 0
    BY <1>2, <1>3, EmptySeq
  <1> QED BY <1>1, <1>2, <1>3, <1>4, SyncAssumption

(* The cluster a processor is at. *)
LEMMA ClusterType ==
  ASSUME ProcInv, NEW p \in Syncing
  PROVE  Cluster(p) \in ClusterRecords
  BY FoundType DEF ProcInv, Cluster, Syncing

LEMMA InitInv == Init => Inv
  <1> SUFFICES ASSUME Init PROVE Inv
    OBVIOUS
  <1>1. \A p \in Processors : proc[p].at = "idle" /\ proc[p].next = 1 /\ proc[p].tries = 0
    BY ProcFields DEF Init
  <1>2. Syncing = {} /\ Known = {}
    BY <1>1 DEF Syncing, Init, Known
  <1>3. TypeOK
    BY <1>1, SyncAssumption DEF Init, TypeOK
  <1>4. ProcInv
    BY <1>1, <1>2 DEF Init, ProcInv
  <1> QED BY <1>2, <1>3, <1>4 DEF Inv, SoloInv, Separated, Syncing

-----------------------------------------------------------------------------
(* A copy that a processor may choose is of a known row: the row itself, or *)
(* what the processor keeps of it.                                          *)
LEMMA CopyOf ==
  ASSUME TypeOK, ProcInv, NEW p \in Processors, NEW match \in Copies(p)
  PROVE  /\ match.at \in Known /\ match.row \in RowRecords /\ match.own \in BOOLEAN
         /\ match.own => /\ match.at \in DOMAIN existing[p]
                         /\ match.row = existing[p][match.at]
         /\ ~match.own => match.row = rows[match.at]
  <1>1. CASE match \in {[at |-> x, row |-> rows[x], own |-> FALSE] :
                          x \in {y \in Places : rows[y] # None}}
    <2>1. PICK x \in Known : match = [at |-> x, row |-> rows[x], own |-> FALSE]
      BY <1>1 DEF Known
    <2>2. rows[x] \in RowRecords
      BY DEF Known, TypeOK
    <2> QED BY <2>1, <2>2
  <1>2. CASE match \in {[at |-> x, row |-> existing[p][x], own |-> TRUE] :
                          x \in DOMAIN existing[p]}
    <2>1. PICK x \in DOMAIN existing[p] :
            match = [at |-> x, row |-> existing[p][x], own |-> TRUE]
      BY <1>2
    <2>2. x \in Known /\ existing[p][x] \in RowRecords
      BY DEF TypeOK, ProcInv
    <2> QED BY <2>1, <2>2
  <1> QED BY <1>1, <1>2 DEF Copies

(* Steps that write no row. *)
LEMMA QuietInv ==
  ASSUME Inv, NEW p \in Processors, NEW at \in {"fetch", "write", "done", "failed"},
         NEW next \in 1 .. MaxClusters + 1, NEW match, NEW tries \in Int,
         proc' = [proc EXCEPT ![p] = Proc(at, next, match, tries)],
         existing' = existing \/ existing' = [existing EXCEPT ![p] = <<>>],
         UNCHANGED <<found, rows, applied>>,
         at \in {"fetch", "write"} => next \in 1 .. Len(found[Ride[p]]),
         at = "write" =>
           /\ next = proc[p].next /\ p \in Syncing /\ Cluster(p).at # None
           /\ existing' = existing
           /\ match # None =>
                match \in Copies(p) /\ (match.at \in DOMAIN existing[p] => match.own)
           /\ match = None => \A x \in Known : Distance(x, Cluster(p).at) > Radius,
         p \notin Syncing /\ at = "fetch" => existing' = [existing EXCEPT ![p] = <<>>],
         ~overlapped' =>
           ~overlapped /\ (at \in {"fetch", "write"} => p \in Syncing \/ Syncing = {})
  PROVE  Inv'
  <1> USE DEF Inv
  <1>1. /\ proc'[p].at = at /\ proc'[p].next = next
        /\ proc'[p].match = match /\ proc'[p].tries = tries
        /\ DOMAIN proc' = Processors
        /\ \A q \in Processors : q # p => proc'[q] = proc[q]
    BY ProcFields DEF ProcInv
  <1>2. /\ DOMAIN existing' = Processors
        /\ \A q \in Processors :
             /\ q # p \/ at = "write" => existing'[q] = existing[q]
             /\ \A x \in DOMAIN existing'[q] :
                  x \in DOMAIN existing[q] /\ existing'[q][x] = existing[q][x]
    BY DEF ProcInv
  <1>3. Known' = Known
    BY DEF Known
  <1>4. \A q \in Processors : proc'[q].next = proc[q].next => Cluster(q)' = Cluster(q)
    BY DEF Cluster
  <1>5. TypeOK'
    BY <1>1, <1>2, <1>3 DEF TypeOK
  <1>6. /\ p \in Syncing' <=> at \in {"fetch", "write"}
        /\ \A q \in Processors : q # p => (q \in Syncing' <=> q \in Syncing)
    BY <1>1 DEF Syncing
  <1>7. at = "write" /\ match # None =>
          /\ match.at \in Known /\ match.row \in RowRecords /\ match.own \in BOOLEAN
          /\ match.own <=> match.at \in DOMAIN existing[p]
          /\ match.own => match.row = existing[p][match.at]
          /\ ~match.own => match.row = rows[match.at]
    BY CopyOf
  <1>8. ProcInv'
    <2>1. found' \in [Rides -> UNION {[1 .. n -> Clusters] : n \in 0 .. MaxClusters}]
      BY DEF ProcInv
    <2>2. ASSUME NEW q \in Processors
          PROVE  /\ proc'[q].tries \in Int
                 /\ q \in Syncing' => proc'[q].next \in 1 .. Len(found'[Ride[q]])
                 /\ proc'[q].at = "write" => Cluster(q)'.at # None
                 /\ proc'[q].at = "write" /\ proc'[q].match # None =>
                      /\ proc'[q].match.at \in Known'
                      /\ proc'[q].match.row \in RowRecords
                      /\ proc'[q].match.own \in BOOLEAN
                      /\ proc'[q].match.own <=> proc'[q].match.at \in DOMAIN existing'[q]
                 /\ \A x \in DOMAIN existing'[q] : existing'[q][x] \in RowRecords
      <3>1. CASE q = p
        BY <1>1, <1>2, <1>3, <1>4, <1>6, <1>7, <3>1 DEF ProcInv
      <3>2. CASE q # p
        BY <1>1, <1>2, <1>3, <1>4, <1>6, <3>2 DEF ProcInv
      <3> QED BY <3>1, <3>2
    <2> QED BY <1>1, <1>2, <2>1, <2>2 DEF ProcInv
  <1>9. SoloInv'
    <2> SUFFICES ASSUME ~overlapped'
                 PROVE  /\ \A q, s \in Syncing' : q = s
                        /\ \A q \in Syncing' :
                             /\ \A x \in DOMAIN existing'[q] : Same(existing'[q][x], rows'[x])
                             /\ proc'[q].at = "write" =>
                                  IF proc'[q].match # None
                                  THEN Same(proc'[q].match.row, rows'[proc'[q].match.at])
                                  ELSE \A x \in Known' : Distance(x, Cluster(q)'.at) > Radius
      BY DEF SoloInv, Same, Distance
    <2>1. /\ ~overlapped
          /\ p \in Syncing' => p \in Syncing \/ Syncing = {}
      BY <1>6
    <2>2. \A q, s \in Syncing' : q = s
      BY <1>6, <2>1 DEF SoloInv, Syncing
    <2>3. ASSUME NEW q \in Syncing'
          PROVE  /\ \A x \in DOMAIN existing'[q] : Same(existing'[q][x], rows'[x])
                 /\ proc'[q].at = "write" =>
                      IF proc'[q].match # None
                      THEN Same(proc'[q].match.row, rows'[proc'[q].match.at])
                      ELSE \A x \in Known' : Distance(x, Cluster(q)'.at) > Radius
      <3>0. q \in Processors
        BY DEF Syncing
      <3>1. CASE q \in Syncing /\ q = p
        BY <1>1, <1>2, <1>3, <1>4, <1>7, <2>1, <3>0, <3>1 DEF SoloInv, Same
      <3>2. CASE q # p
        BY <1>1, <1>2, <1>3, <1>4, <1>6, <2>1, <3>0, <3>2 DEF SoloInv
      <3>3. CASE q \notin Syncing /\ q = p
        <4>1. at = "fetch" /\ existing'[p] = <<>>
          BY <1>2, <1>6, <3>3 DEF ProcInv
        <4>2. DOMAIN existing'[p] = {}
          BY <4>1
        <4> QED BY <1>1, <3>3, <4>1, <4>2
      <3> QED BY <3>1, <3>2, <3>3
    <2> QED BY <2>2, <2>3
  <1>10. Separated'
    BY <1>3 DEF Separated
  <1> QED BY <1>5, <1>8, <1>9, <1>10

-----------------------------------------------------------------------------
(* Steps that write a row. *)
LEMMA WriteInv ==
  ASSUME Inv, NEW p \in Processors, proc[p].at = "write",
         NEW x \in Places, NEW new \in RowRecords, rows' = [rows EXCEPT ![x] = new],
         NEW at \in {"fetch", "done", "failed"}, NEW next \in 1 .. MaxClusters + 1,
         proc' = [proc EXCEPT ![p] = Proc(at, next, None, proc[p].tries)],
         at = "fetch" => next \in 1 .. Len(found[Ride[p]]),
         DOMAIN existing' = Processors,
         \A q \in Processors : q # p => existing'[q] = existing[q],
         DOMAIN existing'[p] \subseteq DOMAIN existing[p] \cup {x},
         \A y \in DOMAIN existing'[p] :
           existing'[p][y] \in RowRecords /\ (overlapped \/ Same(existing'[p][y], rows'[y])),
         applied' = [applied EXCEPT ![<<Ride[p], proc[p].next>>] = @ + 1],
         UNCHANGED <<found, overlapped>>,
         Separated'
  PROVE  Inv'
  <1> USE DEF Inv
  <1>1. /\ proc'[p].at = at /\ proc'[p].next = next /\ proc'[p].tries = proc[p].tries
        /\ DOMAIN proc' = Processors
        /\ \A q \in Processors : q # p => proc'[q] = proc[q]
    BY ProcFields DEF ProcInv
  <1>2. Known' = Known \cup {x}
    BY NoneAssumption DEF Known, TypeOK
  <1>3. \A q \in Processors : q # p => Cluster(q)' = Cluster(q)
    BY <1>1 DEF Cluster
  <1>4. /\ p \in Syncing /\ (p \in Syncing' <=> at = "fetch")
        /\ \A q \in Processors : q # p => (q \in Syncing' <=> q \in Syncing)
    BY <1>1 DEF Syncing
  <1>5. TypeOK'
    <2>1. rows' \in [Places -> RowRecords \cup {None}]
      BY DEF TypeOK
    <2>2. proc[p].next \in 1 .. MaxClusters
      <3>1. Len(found[Ride[p]]) \in 0 .. MaxClusters
        BY FoundType
      <3>2. proc[p].next \in 1 .. Len(found[Ride[p]])
        BY <1>4 DEF ProcInv
      <3> QED BY <3>1, <3>2, SyncAssumption
    <2>3. applied' \in [Rides \X (1 .. MaxClusters) -> Nat]
      BY <2>2 DEF TypeOK, Rides
    <2> QED BY <1>1, <1>2, <2>1, <2>3 DEF TypeOK
  <1>6. ProcInv'
    <2>1. found' \in [Rides -> UNION {[1 .. n -> Clusters] : n \in 0 .. MaxClusters}]
      BY DEF ProcInv
    <2>2. ASSUME NEW q \in Processors
          PROVE  /\ proc'[q].tries \in Int
                 /\ q \in Syncing' => proc'[q].next \in 1 .. Len(found'[Ride[q]])
                 /\ proc'[q].at = "write" => Cluster(q)'.at # None
                 /\ proc'[q].at = "write" /\ proc'[q].match # None =>
                      /\ proc'[q].match.at \in Known'
                      /\ proc'[q].match.row \in RowRecords
                      /\ proc'[q].match.own \in BOOLEAN
                      /\ proc'[q].match.own <=> proc'[q].match.at \in DOMAIN existing'[q]
                 /\ \A y \in DOMAIN existing'[q] : existing'[q][y] \in RowRecords
      <3>1. CASE q = p
        BY <1>1, <1>4, <3>1 DEF ProcInv
      <3>2. CASE q # p
        BY <1>1, <1>2, <1>3, <1>4, <3>2 DEF ProcInv
      <3> QED BY <3>1, <3>2
    <2> QED BY <1>1, <2>1, <2>2 DEF ProcInv
  <1>7. SoloInv'
    <2>1. ~overlapped => Syncing' \subseteq {p}
      BY <1>4 DEF SoloInv, Syncing
    <2>2. p \in Syncing' => proc'[p].at # "write"
      BY <1>1
    <2>3. overlapped' = overlapped
      OBVIOUS
    <2>4. ~overlapped => \A y \in DOMAIN existing'[p] : Same(existing'[p][y], rows'[y])
      OBVIOUS
    <2>5. ~overlapped => \A q \in Syncing' : q = p
      BY <2>1
    <2> QED BY <2>2, <2>3, <2>4, <2>5 DEF SoloInv
  <1> QED BY <1>5, <1>6, <1>7

(* A merge never knows less. *)
LEMMA MergedType ==
  ASSUME NEW row \in RowRecords, NEW c \in ClusterRecords, NEW user \in Rides
  PROVE  /\ Merged(row, c, user) \in RowRecords
         /\ Merged(row, c, user).hits = row.hits + c.hits
         /\ Merged(row, c, user).sev >= row.sev
         /\ Merged(row, c, user).users = row.users \cup {user}
         /\ Merged(row, c, user).fixed = row.fixed
  <1>1. c.hits \in Nat /\ FinalSeverity(c) \in Severities
    BY FinalType DEF ClusterRecords
  <1>2. /\ Escalate(row.sev, FinalSeverity(c)) \in Severities
        /\ Escalate(row.sev, FinalSeverity(c)) >= row.sev
    BY <1>1, RowTyped DEF Escalate, Severities
  <1> QED BY <1>1, <1>2, RowTyped, RowType DEF Merged, Merge

(* Where a processor goes after a write. *)
LEMMA ApplyNext ==
  ASSUME Inv, NEW p \in Syncing, Apply(p)
  PROVE  \E at \in {"fetch", "done", "failed"}, next \in 1 .. MaxClusters + 1 :
           /\ proc' = [proc EXCEPT ![p] = Proc(at, next, None, proc[p].tries)]
           /\ at = "fetch" => next \in 1 .. Len(found[Ride[p]])
  <1>1. /\ p \in Processors /\ DOMAIN proc = Processors
        /\ proc[p].next \in 1 .. Len(found[Ride[p]])
        /\ Len(found[Ride[p]]) \in 0 .. MaxClusters
    BY FoundType DEF Syncing, Inv, ProcInv
  <1>2. CASE Advance(p)
    <2> DEFINE at == IF proc[p].next = Len(found[Ride[p]]) THEN "done" ELSE "fetch"
    <2>1. proc' = [proc EXCEPT ![p] = Proc(at, proc[p].next + 1, None, proc[p].tries)]
      BY <1>1, <1>2 DEF Advance
    <2>2. /\ proc[p].next + 1 \in 1 .. MaxClusters + 1 /\ at \in {"fetch", "done", "failed"}
          /\ at = "fetch" => proc[p].next + 1 \in 1 .. Len(found[Ride[p]])
      BY <1>1, SyncAssumption
    <2> QED BY <2>1, <2>2
  <1>3. CASE Goto(p, "failed", None)
    <2>1. proc' = [proc EXCEPT ![p] = Proc("failed", proc[p].next, None, proc[p].tries)]
      BY <1>1, <1>3 DEF Goto
    <2>2. proc[p].next \in 1 .. MaxClusters + 1
      BY <1>1, SyncAssumption
    <2> QED BY <2>1, <2>2
  <1> QED BY <1>2, <1>3 DEF Apply

-----------------------------------------------------------------------------
LEMMA StartInv == ASSUME Inv, NEW p \in Processors, Start(p) PROVE Inv'
  <1> DEFINE at == IF found[Ride[p]] = <<>> THEN "done" ELSE "fetch"
  <1>1. /\ p \notin Syncing /\ proc[p].tries + 1 \in Int /\ DOMAIN proc = Processors
        /\ 1 \in 1 .. MaxClusters + 1
        /\ at = "fetch" => 1 \in 1 .. Len(found[Ride[p]])
    <2>1. Len(found[Ride[p]]) \in Nat /\ (at = "fetch" => Len(found[Ride[p]]) >= 1)
      BY FoundType DEF Inv
    <2>2. p \notin Syncing /\ proc[p].tries + 1 \in Int /\ DOMAIN proc = Processors
      BY DEF Start, Syncing, Inv, ProcInv
    <2> QED BY <2>1, <2>2, SyncAssumption
  <1>2. proc' = [proc EXCEPT ![p] = Proc(at, 1, None, proc[p].tries + 1)]
    BY <1>1 DEF Start
  <1>3. ~overlapped' => ~overlapped /\ Syncing = {}
    BY DEF Start
  <1>4. existing' = [existing EXCEPT ![p] = <<>>] /\ UNCHANGED <<found, rows, applied>>
    BY DEF Start
  <1>5. at \in {"fetch", "write", "done", "failed"} /\ at # "write"
    OBVIOUS
  <1> HIDE DEF at
  <1> QED BY <1>1, <1>2, <1>3, <1>4, <1>5, QuietInv

LEMMA SkipInv == ASSUME Inv, NEW p \in Processors, Skip(p) PROVE Inv'
  <1> DEFINE at == IF proc[p].next = Len(found[Ride[p]]) THEN "done" ELSE "fetch"
  <1> DEFINE next == proc[p].next + 1
  <1>1. /\ p \in Syncing /\ proc[p].tries \in Int /\ DOMAIN proc = Processors
        /\ proc[p].next \in 1 .. Len(found[Ride[p]])
    BY DEF Skip, Syncing, Inv, ProcInv
  <1>2. /\ next \in 1 .. MaxClusters + 1
        /\ at = "fetch" => next \in 1 .. Len(found[Ride[p]])
    <2>1. Len(found[Ride[p]]) \in 0 .. MaxClusters
      BY FoundType DEF Inv
    <2> QED BY <1>1, <2>1, SyncAssumption
  <1>3. proc' = [proc EXCEPT ![p] = Proc(at, next, None, proc[p].tries)]
    BY <1>1 DEF Skip, Advance
  <1>4. UNCHANGED <<found, rows, existing, applied, overlapped>>
    BY DEF Skip
  <1>5. at \in {"fetch", "write", "done", "failed"} /\ at # "write"
    OBVIOUS
  <1> HIDE DEF at, next
  <1> QED BY <1>1, <1>2, <1>3, <1>4, <1>5, QuietInv

(* A sync that fails without a write. *)
LEMMA FailInv ==
  ASSUME Inv, NEW p \in Syncing, Goto(p, "failed", None),
         UNCHANGED <<found, rows, existing, applied, overlapped>>
  PROVE  Inv'
  <1>1. /\ p \in Processors /\ proc[p].tries \in Int /\ DOMAIN proc = Processors
        /\ proc[p].next \in 1 .. Len(found[Ride[p]])
    BY DEF Syncing, Inv, ProcInv
  <1>2. proc[p].next \in 1 .. MaxClusters + 1
    <2>1. Len(found[Ride[p]]) \in 0 .. MaxClusters
      BY <1>1, FoundType DEF Inv
    <2> QED BY <1>1, <2>1, SyncAssumption
  <1>3. proc' = [proc EXCEPT ![p] = Proc("failed", proc[p].next, None, proc[p].tries)]
    BY <1>1 DEF Goto
  <1> QED BY <1>1, <1>2, <1>3, QuietInv

(* A set of numbers has a least one: the intervals up to them are ordered  *)
(* by inclusion.                                                           *)
LEMMA LeastExists ==
  ASSUME NEW T \in SUBSET Nat, T # {}
  PROVE  \E x \in T : \A y \in T : x <= y
  <1>1. PICK t \in T : TRUE
    OBVIOUS
  <1> DEFINE S == 0 .. t
  <1> DEFINE Segments == {0 .. x : x \in T \cap S}
  <1>2. IsFiniteSet(S)
    BY FS_Interval
  <1>3. Segments \subseteq SUBSET S /\ Segments # {}
    BY <1>1
  <1>4. IsWellFoundedOn(StrictSubsetOrdering(S), SUBSET S)
    BY <1>2, FS_FiniteSubsetsOfFinite, FS_StrictSubsetOrderingWellFounded
  <1>5. PICK U \in Segments : \A V \in Segments : <<V, U>> \notin StrictSubsetOrdering(S)
    BY <1>3, <1>4, WFMin
  <1>6. PICK x \in T \cap S : U = 0 .. x
    BY <1>5
  <1>7. ASSUME NEW y \in T, y < x PROVE FALSE
    <2>1. 0 .. y \in Segments /\ 0 .. y \subseteq 0 .. x /\ x \in 0 .. x /\ x \notin 0 .. y
      BY <1>7
    <2>2. <<0 .. y, U>> \in StrictSubsetOrdering(S)
      BY <1>3, <1>6, <2>1 DEF StrictSubsetOrdering
    <2> QED BY <1>5, <2>1, <2>2
  <1> QED BY <1>6, <1>7

(* What a processor chooses a match from. *)
LEMMA CopiesType ==
  ASSUME Inv, NEW p \in Processors
  PROVE  Copies(p) \subseteq CopyRecords
  <1>1. \A at \in Places, row \in RowRecords, own \in BOOLEAN :
          [at |-> at, row |-> row, own |-> own] \in CopyRecords
    BY DEF CopyRecords
  <1>2. ASSUME NEW x \in Known
        PROVE  [at |-> x, row |-> rows[x], own |-> FALSE] \in CopyRecords
    <2>1. rows[x] \in RowRecords /\ x \in Places
      BY DEF Known, TypeOK, Inv
    <2> QED BY <1>1, <2>1
  <1>3. ASSUME NEW x \in DOMAIN existing[p]
        PROVE  [at |-> x, row |-> existing[p][x], own |-> TRUE] \in CopyRecords
    <2>1. existing[p][x] \in RowRecords /\ x \in Places
      BY DEF ProcInv, TypeOK, Known, Inv
    <2> QED BY <1>1, <2>1
  <1> QED BY <1>2, <1>3 DEF Copies, Known

(* The closest copy matches if any does. *)
LEMMA NoMatchIsFar ==
  ASSUME Inv, NEW p \in Processors, NEW c, c.at \in Places, Matches(p, c) = {},
         NEW x \in Known
  PROVE  Distance(x, c.at) > Radius
  <1> DEFINE Far(m) == Distance(m.at, c.at)
  <1> DEFINE T == {Far(m) : m \in Copies(p)}
  <1>1. \A m \in Copies(p) : m.at \in Nat /\ m.own \in BOOLEAN
    BY CopiesType, SyncAssumption DEF CopyRecords
  <1>2. \A m \in Copies(p) : Far(m) \in Nat
    <2> SUFFICES ASSUME NEW m \in Copies(p) PROVE Distance(m.at, c.at) \in Nat
      OBVIOUS
    <2>1. m.at \in Nat /\ c.at \in Nat
      BY <1>1, SyncAssumption
    <2> QED BY <2>1 DEF Distance
  <1>3. PICK k \in Copies(p) : k.at = x
    <2>1. [at |-> x, row |-> rows[x], own |-> FALSE] \in Copies(p)
      BY DEF Copies, Known
    <2> QED BY <2>1
  <1> HIDE DEF Far
  <1>4. PICK d \in T : \A e \in T : d <= e
    <2>1. T \in SUBSET Nat /\ T # {}
      BY <1>2, <1>3
    <2> HIDE DEF T
    <2> QED BY <2>1, LeastExists
  <1>5. PICK m \in Copies(p) :
          /\ \A n \in Copies(p) : Far(m) <= Far(n)
          /\ \A n \in Copies(p) : n.own /\ Far(m) = Far(n) => m.own
    <2>1. PICK m \in Copies(p) : \A n \in Copies(p) : Far(m) <= Far(n)
      BY <1>4
    <2>2. CASE \E n \in Copies(p) : n.own /\ Far(m) = Far(n)
      BY <2>1, <2>2
    <2>3. CASE ~\E n \in Copies(p) : n.own /\ Far(m) = Far(n)
      BY <2>1, <2>3
    <2> QED BY <2>2, <2>3
  <1>6. ~(Far(m) <= Radius)
    <2>1. m \notin Matches(p, c)
      OBVIOUS
    <2> QED BY <1>5, <2>1 DEF Matches, Far
  <1>7. Far(m) <= Far(k) /\ Far(m) \in Nat /\ Far(k) \in Nat
    BY <1>2, <1>3, <1>5
  <1>8. Far(k) > Radius
    BY <1>6, <1>7, SyncAssumption
  <1> QED BY <1>3, <1>8 DEF Far

LEMMA FetchInv == ASSUME Inv, NEW p \in Processors, Fetch(p) PROVE Inv'
  <1>1. /\ p \in Syncing /\ proc[p].tries \in Int /\ DOMAIN proc = Processors
        /\ proc[p].next \in 1 .. Len(found[Ride[p]])
    BY DEF Fetch, Syncing, Inv, ProcInv
  <1>2. proc[p].next \in 1 .. MaxClusters + 1
    <2>1. Len(found[Ride[p]]) \in 0 .. MaxClusters
      BY FoundType DEF Inv
    <2> QED BY <1>1, <2>1, SyncAssumption
  <1>3. Cluster(p).at \in Places
    BY <1>1, ClusterType DEF Fetch, ClusterRecords, Inv
  <1>4. None \notin Copies(p)
    BY CopiesType, NoneAssumption
  <1>5. PICK match :
          /\ proc' = [proc EXCEPT ![p] = Proc("write", proc[p].next, match, proc[p].tries)]
          /\ match \in Matches(p, Cluster(p)) \/ (match = None /\ Matches(p, Cluster(p)) = {})
    BY <1>1 DEF Fetch, Goto
  <1>6. match # None =>
          match \in Copies(p) /\ (match.at \in DOMAIN existing[p] => match.own)
    <2> SUFFICES ASSUME match \in Matches(p, Cluster(p))
                 PROVE  match \in Copies(p) /\ (match.at \in DOMAIN existing[p] => match.own)
      BY <1>5
    <2>1. match \in Copies(p)
      BY DEF Matches
    <2>2. ASSUME match.at \in DOMAIN existing[p] PROVE match.own
      <3>1. PICK n \in Copies(p) : n.at = match.at /\ n.own
        <4>1. [at |-> match.at, row |-> existing[p][match.at], own |-> TRUE] \in Copies(p)
          BY <2>2 DEF Copies
        <4> QED BY <4>1
      <3>2. Distance(match.at, Cluster(p).at) = Distance(n.at, Cluster(p).at)
        BY <3>1
      <3> QED BY <3>1, <3>2 DEF Matches
    <2> QED BY <2>1, <2>2
  <1>7. match = None => Matches(p, Cluster(p)) = {}
    BY <1>4, <1>5 DEF Matches
  <1>8. Matches(p, Cluster(p)) = {} => \A x \in Known : Distance(x, Cluster(p).at) > Radius
    BY <1>3, NoMatchIsFar
  <1>9. Cluster(p).at # None /\ UNCHANGED <<found, rows, existing, applied, overlapped>>
    BY DEF Fetch
  <1> QED BY <1>1, <1>2, <1>5, <1>6, <1>7, <1>8, <1>9, QuietInv

LEMMA UpdateInv == ASSUME Inv, NEW p \in Processors, Update(p) PROVE Inv'
  <1> DEFINE m == proc[p].match
  <1> DEFINE new == Merged(m.row, Cluster(p), Ride[p])
  <1> DEFINE fixed == rows[m.at].fixed /\ ~Reopens(m.row, Cluster(p))
  <1> DEFINE written == WithStatus(new, fixed)
  <1>1. p \in Syncing /\ proc[p].at = "write" /\ m # None /\ Apply(p)
    BY DEF Update, Syncing
  <1>2. /\ m.at \in Known /\ m.at \in Places /\ m.row \in RowRecords /\ m.own \in BOOLEAN
        /\ m.own <=> m.at \in DOMAIN existing[p]
    BY <1>1 DEF Inv, ProcInv, Known
  <1>3. rows[m.at] \in RowRecords
    BY <1>2 DEF Inv, TypeOK, Known
  <1>4. new \in RowRecords
    <2>1. Cluster(p) \in ClusterRecords /\ Ride[p] \in Rides
      BY <1>1, ClusterType DEF Inv, Rides
    <2> QED BY <1>2, <2>1, MergedType
  <1>5. written \in RowRecords /\ Same(new, written)
    <2>1. fixed \in BOOLEAN
      OBVIOUS
    <2> HIDE DEF new, fixed
    <2>2. new.hits \in Nat /\ new.sev \in Severities /\ new.users \in SUBSET Rides
      BY <1>4, RowTyped
    <2> QED BY <2>1, <2>2, RowType DEF WithStatus, Same
  <1>6. /\ rows' = [rows EXCEPT ![m.at] = written]
        /\ existing' = IF m.own THEN [existing EXCEPT ![p][m.at] = new] ELSE existing
    BY DEF Update
  <1> HIDE DEF m, new, fixed, written
  <1>7. rows' \in [Places -> RowRecords \cup {None}] /\ Known' = Known
        /\ rows'[m.at] = written /\ \A y \in Places : y # m.at => rows'[y] = rows[y]
    BY <1>2, <1>3, <1>5, <1>6, NoneAssumption DEF Inv, TypeOK, Known
  <1>8. /\ DOMAIN existing = Processors /\ p \in Processors
        /\ DOMAIN existing[p] \subseteq Places
        /\ \A y \in DOMAIN existing[p] : existing[p][y] \in RowRecords
    BY DEF Inv, ProcInv, TypeOK, Known
  <1>9. /\ DOMAIN existing' = Processors
        /\ \A q \in Processors : q # p => existing'[q] = existing[q]
        /\ DOMAIN existing'[p] = DOMAIN existing[p]
        /\ \A y \in DOMAIN existing[p] :
             existing'[p][y] = IF y = m.at THEN new ELSE existing[p][y]
    <2>1. CASE m.own
      BY <1>2, <1>6, <1>8, <2>1
    <2>2. CASE ~m.own
      BY <1>2, <1>6, <1>8, <2>2
    <2> QED BY <1>2, <2>1, <2>2
  <1>10. \A y \in DOMAIN existing'[p] :
           existing'[p][y] \in RowRecords /\ (overlapped \/ Same(existing'[p][y], rows'[y]))
    <2>1. TAKE y \in DOMAIN existing'[p]
    <2>2. overlapped \/ Same(existing[p][y], rows[y])
      BY <1>1, <1>9 DEF Inv, SoloInv
    <2>3. CASE y = m.at
      BY <1>4, <1>5, <1>7, <1>9, <2>3
    <2>4. CASE y # m.at
      <3>1. y \in DOMAIN existing[p]
        BY <1>9
      <3>2. existing'[p][y] = existing[p][y] /\ rows'[y] = rows[y]
        BY <1>7, <1>8, <1>9, <2>4, <3>1
      <3> QED BY <1>8, <2>2, <3>1, <3>2
    <2> QED BY <2>3, <2>4
  <1>11. Separated' /\ UNCHANGED <<found, overlapped>>
         /\ applied' = [applied EXCEPT ![<<Ride[p], proc[p].next>>] = @ + 1]
    BY <1>1, <1>7 DEF Inv, Separated, Apply
  <1>12. PICK at \in {"fetch", "done", "failed"}, next \in 1 .. MaxClusters + 1 :
           /\ proc' = [proc EXCEPT ![p] = Proc(at, next, None, proc[p].tries)]
           /\ at = "fetch" => next \in 1 .. Len(found[Ride[p]])
    BY <1>1, ApplyNext
  <1> QED BY <1>1, <1>2, <1>5, <1>6, <1>9, <1>10, <1>11, <1>12, WriteInv

LEMMA InsertInv == ASSUME Inv, NEW p \in Processors, Insert(p) PROVE Inv'
  <1> DEFINE place == Cluster(p).at
  <1> DEFINE row == New(p)
  <1>1. p \in Syncing /\ proc[p].at = "write" /\ proc[p].match = None /\ Apply(p)
    BY DEF Insert, Syncing
  <1>2. Cluster(p) \in ClusterRecords /\ Ride[p] \in Rides
    BY <1>1, ClusterType DEF Inv, Rides
  <1>3. place \in Places
    BY <1>1, <1>2 DEF ClusterRecords, Inv, ProcInv
  <1>4. row \in RowRecords
    <2>1. Cluster(p).hits \in Nat /\ FinalSeverity(Cluster(p)) \in Severities
      BY <1>2, FinalType DEF ClusterRecords
    <2> QED BY <1>2, <2>1, RowType DEF New
  <1>5. /\ rows[place] = None /\ rows' = [rows EXCEPT ![place] = row]
        /\ existing' = [existing EXCEPT ![p] =
             [y \in DOMAIN existing[p] \cup {place} |-> IF y = place THEN row ELSE existing[p][y]]]
    BY DEF Insert, Inv, ProcInv
  <1> HIDE DEF place, row
  <1>6. rows'[place] = row /\ Known' = Known \cup {place}
        /\ \A y \in Places : y # place => rows'[y] = rows[y]
    BY <1>3, <1>4, <1>5, NoneAssumption DEF Inv, TypeOK, Known
  <1>7. /\ DOMAIN existing = Processors
        /\ DOMAIN existing[p] \subseteq Places
        /\ \A y \in DOMAIN existing[p] : existing[p][y] \in RowRecords
    BY DEF Inv, ProcInv, TypeOK, Known
  <1>8. /\ DOMAIN existing' = Processors
        /\ \A q \in Processors : q # p => existing'[q] = existing[q]
        /\ DOMAIN existing'[p] = DOMAIN existing[p] \cup {place}
        /\ \A y \in DOMAIN existing'[p] :
             existing'[p][y] = IF y = place THEN row ELSE existing[p][y]
    BY <1>5, <1>7
  <1>9. \A y \in DOMAIN existing'[p] :
          existing'[p][y] \in RowRecords /\ (overlapped \/ Same(existing'[p][y], rows'[y]))
    <2>1. TAKE y \in DOMAIN existing'[p]
    <2>2. CASE y = place
      BY <1>4, <1>6, <1>8, <2>2 DEF Same
    <2>3. CASE y # place
      <3>1. y \in DOMAIN existing[p] /\ existing'[p][y] = existing[p][y]
        BY <1>8, <2>3
      <3>2. overlapped \/ Same(existing[p][y], rows[y])
        BY <1>1, <3>1 DEF Inv, SoloInv
      <3> QED BY <1>6, <1>7, <2>3, <3>1, <3>2
    <2> QED BY <2>2, <2>3
  <1>10. Separated'
    <2> SUFFICES ASSUME ~overlapped, NEW a \in Known \cup {place}, NEW b \in Known \cup {place}, a # b
                 PROVE  Distance(a, b) > Radius
      BY <1>1, <1>6 DEF Separated, Apply
    <2>1. \A y \in Known : Distance(y, place) > Radius
      BY <1>1 DEF Inv, SoloInv, place
    <2>2. \A y \in Known : Distance(place, y) > Radius
      <3>1. \A y \in Known : y \in Nat /\ place \in Nat
        BY <1>3, SyncAssumption DEF Known
      <3> QED BY <2>1, <3>1, SyncAssumption DEF Distance
    <2>3. \A y, z \in Known : y # z => Distance(y, z) > Radius
      BY DEF Inv, Separated
    <2> QED BY <2>1, <2>2, <2>3
  <1>11. UNCHANGED <<found, overlapped>>
         /\ applied' = [applied EXCEPT ![<<Ride[p], proc[p].next>>] = @ + 1]
    BY <1>1 DEF Apply
  <1>12. PICK at \in {"fetch", "done", "failed"}, next \in 1 .. MaxClusters + 1 :
           /\ proc' = [proc EXCEPT ![p] = Proc(at, next, None, proc[p].tries)]
           /\ at = "fetch" => next \in 1 .. Len(found[Ride[p]])
    BY <1>1, ApplyNext
  <1>13. DOMAIN existing'[p] \subseteq DOMAIN existing[p] \cup {place}
    BY <1>8
  <1>14. proc[p].at = "write" /\ rows' = [rows EXCEPT ![place] = row]
         /\ DOMAIN existing' = Processors
         /\ \A q \in Processors : q # p => existing'[q] = existing[q]
    BY <1>1, <1>5, <1>8
  <1>15. PICK x \in Places, new \in RowRecords : x = place /\ new = row
    BY <1>3, <1>4
  <1> QED BY <1>9, <1>10, <1>11, <1>12, <1>13, <1>14, <1>15, WriteInv

(* A vote changes only the status. *)
LEMMA FixRows ==
  ASSUME Inv, NEW x \in Places, Fix(x)
  PROVE  /\ rows' \in [Places -> RowRecords \cup {None}] /\ Known' = Known
         /\ \A y \in Known : Same(rows[y], rows'[y])
  <1> DEFINE written == WithStatus(rows[x], TRUE)
  <1>1. rows[x] \in RowRecords
    BY DEF Fix, Inv, TypeOK
  <1>2. written \in RowRecords /\ Same(rows[x], written)
    <2>1. \A fixed \in BOOLEAN :
            WithStatus(rows[x], fixed) \in RowRecords /\ Same(rows[x], WithStatus(rows[x], fixed))
      BY <1>1, StatusType DEF Same
    <2>2. TRUE \in BOOLEAN
      OBVIOUS
    <2> QED BY <2>1, <2>2, Zenon
  <1>3. rows' = [rows EXCEPT ![x] = written]
    BY DEF Fix, Inv, TypeOK
  <1> HIDE DEF written
  <1> QED BY <1>1, <1>2, <1>3, NoneAssumption DEF Inv, TypeOK, Known, Same

LEMMA FixInv == ASSUME Inv, NEW x \in Places, Fix(x) PROVE Inv'
  <1>1. UNCHANGED <<found, proc, existing, applied, overlapped>>
    BY DEF Fix
  <1>2. /\ rows' \in [Places -> RowRecords \cup {None}] /\ Known' = Known
        /\ \A y \in Known : Same(rows[y], rows'[y])
    BY FixRows
  <1>3. Syncing' = Syncing /\ \A p \in Processors : Cluster(p)' = Cluster(p)
    BY <1>1 DEF Syncing, Cluster
  <1>4. TypeOK'
    BY <1>1, <1>2 DEF Inv, TypeOK
  <1>5. ProcInv'
    BY <1>1, <1>2, <1>3 DEF Inv, ProcInv
  <1>6. SoloInv'
    <2>1. \A p \in Syncing : p \in Processors /\ DOMAIN existing[p] \subseteq Known
      BY DEF Syncing, Inv, TypeOK
    <2>2. \A p \in Syncing :
            proc[p].at = "write" /\ proc[p].match # None => proc[p].match.at \in Known
      BY <2>1 DEF Inv, ProcInv
    <2> QED BY <1>1, <1>2, <1>3, <2>1, <2>2 DEF Inv, SoloInv, Same
  <1>7. Separated'
    BY <1>1, <1>2 DEF Inv, Separated
  <1> QED BY <1>4, <1>5, <1>6, <1>7 DEF Inv

LEMMA NextInv == ASSUME Inv, [Next]_vars PROVE Inv'
  <1>1. ASSUME NEW p \in Processors, Start(p) PROVE Inv'
    BY <1>1, StartInv
  <1>2. ASSUME NEW p \in Processors, Skip(p) PROVE Inv'
    BY <1>2, SkipInv
  <1>3. ASSUME NEW p \in Processors, Fetch(p) PROVE Inv'
    BY <1>3, FetchInv
  <1>4. ASSUME NEW p \in Processors, Fail(p) PROVE Inv'
    <2>1. p \in Syncing /\ Goto(p, "failed", None)
          /\ UNCHANGED <<found, rows, existing, applied, overlapped>>
      BY <1>4 DEF Fail, Syncing
    <2> QED BY <2>1, FailInv
  <1>5. ASSUME NEW p \in Processors, Update(p) PROVE Inv'
    BY <1>5, UpdateInv
  <1>6. ASSUME NEW p \in Processors, Insert(p) PROVE Inv'
    BY <1>6, InsertInv
  <1>7. ASSUME NEW p \in Processors, InsertRefused(p) PROVE Inv'
    <2>1. p \in Syncing /\ Goto(p, "failed", None)
          /\ UNCHANGED <<found, rows, existing, applied, overlapped>>
      BY <1>7 DEF InsertRefused, Syncing
    <2> QED BY <2>1, FailInv
  <1>8. ASSUME NEW x \in Places, Fix(x) PROVE Inv'
    BY <1>8, FixInv
  <1>9. CASE UNCHANGED vars
    <2>1. UNCHANGED <<found, rows, proc, existing, applied, overlapped, stale>>
      BY <1>9 DEF vars
    <2>2. Known' = Known /\ Syncing' = Syncing /\ \A p : Cluster(p)' = Cluster(p)
      BY <2>1 DEF Known, Syncing, Cluster
    <2>3. TypeOK'
      BY <2>1, <2>2 DEF Inv, TypeOK
    <2>4. ProcInv'
      BY <2>1, <2>2 DEF Inv, ProcInv
    <2>5. SoloInv'
      BY <2>1, <2>2 DEF Inv, SoloInv, Same
    <2>6. Separated'
      BY <2>1, <2>2 DEF Inv, Separated
    <2> QED BY <2>3, <2>4, <2>5, <2>6 DEF Inv
  <1> QED BY <1>1, <1>2, <1>3, <1>4, <1>5, <1>6, <1>7, <1>8, <1>9 DEF Next

LEMMA Always == Spec => []Inv
  BY InitInv, NextInv, PTL DEF Spec

(* Every row, every copy and every position of a processor has its type.    *)
THEOREM TypeCorrect == Spec => []TypeOK
  <1>1. Inv => TypeOK
    BY DEF Inv
  <1> QED BY Always, <1>1, PTL

(* Syncs that do not overlap leave no two potholes within the merge radius, *)
(* however often they fail and are repeated: fetched rows and the copies of *)
(* inserted ones are all that a new pothole must be kept apart from.        *)
THEOREM SeparatedAlways == Spec => []Separated
  <1>1. Inv => Separated
    BY DEF Inv
  <1> QED BY Always, <1>1, PTL

(* Syncs that do not overlap only add to what is known of a pothole.        *)
THEOREM SeriallyGrowsAlways == Spec => SeriallyGrows
  <1> DEFINE Grows == overlapped \/ \A x \in Known : KnowsMore(rows'[x], rows[x])
  <1>1. ASSUME Inv, [Next]_vars PROVE Grows
    <2> SUFFICES ASSUME ~overlapped, NEW x \in Known PROVE KnowsMore(rows'[x], rows[x])
      OBVIOUS
    <2> USE <1>1
    <2>1. x \in Places /\ rows[x] \in RowRecords
      BY DEF Inv, TypeOK, Known
    <2>2. CASE rows'[x] = rows[x]
      BY <2>1, <2>2, RowTyped, NoneAssumption DEF KnowsMore, Severities
    <2>3. CASE \E y \in Places : Fix(y)
      <3>1. Same(rows[x], rows'[x]) /\ rows'[x] # None
        BY <2>3, FixRows DEF Known
      <3> QED BY <2>1, <3>1, RowTyped DEF Same, KnowsMore, Severities
    <2>4. ASSUME NEW p \in Processors, Update(p) PROVE KnowsMore(rows'[x], rows[x])
      <3> DEFINE m == proc[p].match
      <3> DEFINE new == Merged(m.row, Cluster(p), Ride[p])
      <3> DEFINE fixed == rows[m.at].fixed /\ ~Reopens(m.row, Cluster(p))
      <3>1. p \in Syncing /\ m # None /\ proc[p].at = "write"
        BY <2>4 DEF Update, Syncing
      <3>2. /\ m.row \in RowRecords /\ Cluster(p) \in ClusterRecords /\ Ride[p] \in Rides
            /\ m.at \in Known /\ Same(m.row, rows[m.at])
        BY <3>1, ClusterType DEF Inv, ProcInv, SoloInv, Rides
      <3>3. new \in RowRecords /\ new.hits = m.row.hits + Cluster(p).hits
            /\ new.sev >= m.row.sev /\ new.users = m.row.users \cup {Ride[p]}
        BY <3>2, MergedType
      <3>4. rows' = [rows EXCEPT ![m.at] = WithStatus(new, fixed)]
        BY <2>4 DEF Update
      <3>5. CASE x # m.at
        BY <2>2, <3>4, <3>5
      <3>6. CASE x = m.at
        <4>1. rows'[x] = WithStatus(new, fixed)
          BY <2>1, <3>4, <3>6 DEF Inv, TypeOK
        <4>2. fixed \in BOOLEAN
          OBVIOUS
        <4> HIDE DEF new, fixed, m
        <4>3. new.hits \in Nat /\ new.sev \in Severities /\ new.users \in SUBSET Rides
          BY <3>3, RowTyped
        <4>4. /\ rows'[x] \in RowRecords /\ rows'[x].hits = new.hits
              /\ rows'[x].sev = new.sev /\ rows'[x].users = new.users
          BY <4>1, <4>2, <4>3, RowType DEF WithStatus
        <4>5. Cluster(p).hits \in Nat
          BY <3>2 DEF ClusterRecords
        <4> QED BY <2>1, <3>2, <3>3, <3>6, <4>4, <4>5, RowTyped, NoneAssumption
                DEF KnowsMore, Same, Severities
      <3> QED BY <3>5, <3>6
    <2>5. ASSUME NEW p \in Processors, Insert(p) PROVE rows'[x] = rows[x]
      BY <2>1, <2>5 DEF Insert, Known
    <2>6. ASSUME NEW p \in Processors,
                 Start(p) \/ Skip(p) \/ Fetch(p) \/ Fail(p) \/ InsertRefused(p)
          PROVE  rows'[x] = rows[x]
      BY <2>6 DEF Start, Skip, Fetch, Fail, InsertRefused
    <2>7. CASE UNCHANGED vars
      BY <2>2, <2>7 DEF vars
    <2> QED BY <1>1, <2>2, <2>3, <2>4, <2>5, <2>6, <2>7 DEF Next
  <1> QED BY Always, <1>1, PTL DEF Spec, SeriallyGrows

-----------------------------------------------------------------------------
(* What f's sum gains when it takes k more at x, where x may be new to it.  *)
LEMMA TotalGrows ==
  ASSUME NEW f, NEW g, NEW x, NEW k \in Nat,
         DOMAIN g = DOMAIN f \cup {x},
         \A y \in DOMAIN f : f[y] \in Nat,
         \A y \in DOMAIN f : y # x => g[y] = f[y],
         x \in DOMAIN f => g[x] = f[x] + k,
         x \notin DOMAIN f => g[x] = k,
         IsFiniteSet(Units(f))
  PROVE  IsFiniteSet(Units(g)) /\ Total(g) = Total(f) + k
  <1> DEFINE n == IF x \in DOMAIN f THEN f[x] ELSE 0
  <1> DEFINE More == {x} \X (n + 1 .. n + k)
  <1>1. n \in Nat /\ g[x] = n + k
    OBVIOUS
  <1> HIDE DEF n
  <1>2. IsFiniteSet(More) /\ Cardinality(More) = k
    <2> DEFINE S == n + 1 .. n + k
    <2>1. IsFiniteSet(S) /\ Cardinality(S) = k
      BY <1>1, FS_Interval
    <2>2. IsFiniteSet({x}) /\ Cardinality({x}) = 1
      BY FS_Singleton
    <2> HIDE DEF S
    <2>3. IsFiniteSet({x} \X S) /\ Cardinality({x} \X S) = 1 * k
      BY <2>1, <2>2, FS_Product
    <2> QED BY <2>3 DEF S
  <1>3. \A u : u \in Units(f) <=> \E y \in DOMAIN f : u \in {y} \X (1 .. f[y])
    BY DEF Units
  <1>4. \A u : u \in Units(g) <=> \E y \in DOMAIN g : u \in {y} \X (1 .. g[y])
    BY DEF Units
  <1>5. \A u : u \in {x} \X (1 .. g[x]) <=> u \in {x} \X (1 .. n) \/ u \in More
    <2>1. 1 .. g[x] = (1 .. n) \cup (n + 1 .. n + k)
      BY <1>1
    <2> QED BY <2>1
  <1>6. Units(g) = Units(f) \cup More
    <2>1. ASSUME NEW u, u \in Units(g) PROVE u \in Units(f) \cup More
      <3>1. PICK y \in DOMAIN g : u \in {y} \X (1 .. g[y])
        BY <1>4, <2>1
      <3>2. CASE y # x
        BY <1>3, <3>1, <3>2
      <3>3. CASE y = x
        <4>1. u \in {x} \X (1 .. n) \/ u \in More
          BY <1>5, <3>1, <3>3
        <4>2. x \notin DOMAIN f => n = 0
          BY DEF n
        <4>3. x \in DOMAIN f => n = f[x]
          BY DEF n
        <4>4. n = 0 => u \notin {x} \X (1 .. n)
          OBVIOUS
        <4> HIDE DEF More
        <4> QED BY <4>1, <4>2, <4>3, <4>4, <1>3
      <3> QED BY <3>2, <3>3
    <2>2. ASSUME NEW u, u \in Units(f) PROVE u \in Units(g)
      <3>1. PICK y \in DOMAIN f : u \in {y} \X (1 .. f[y])
        BY <1>3, <2>2
      <3>2. CASE y # x
        BY <1>4, <3>1, <3>2
      <3>3. CASE y = x
        <4>1. u \in {x} \X (1 .. n)
          BY <3>1, <3>3 DEF n
        <4>2. u \in {x} \X (1 .. g[x])
          BY <4>1, <1>5
        <4> QED BY <4>2, <1>4
      <3> QED BY <3>2, <3>3
    <2>3. ASSUME NEW u, u \in More PROVE u \in Units(g)
      BY <1>4, <1>5, <2>3
    <2> HIDE DEF More
    <2> QED BY <2>1, <2>2, <2>3
  <1>7. Units(f) \cap More = {}
    <2> SUFFICES ASSUME NEW y \in DOMAIN f, NEW u \in {y} \X (1 .. f[y]), u \in More
                 PROVE  FALSE
      BY <1>3
    <2>1. u[1] = y /\ u[2] \in 1 .. f[y] /\ u[1] = x /\ u[2] \in n + 1 .. n + k
      OBVIOUS
    <2>2. n = f[y]
      BY <2>1 DEF n
    <2> QED BY <1>1, <2>1, <2>2
  <1> HIDE DEF More
  <1>8. IsFiniteSet(Units(g))
        /\ Cardinality(Units(g)) = Cardinality(Units(f)) + Cardinality(More) - Cardinality({})
    BY <1>2, <1>6, <1>7, FS_Union
  <1>9. Cardinality({}) = 0 /\ Cardinality(Units(f)) \in Nat
    BY FS_EmptySet, FS_CardinalityType
  <1> QED BY <1>2, <1>8, <1>9 DEF Total

(* What has been applied is a cluster that its ride found.                  *)
AppliedInv ==
  \A a \in DOMAIN applied : applied[a] # 0 => found[a[1]][a[2]] \in ClusterRecords

(* The sums are those of finite sets, and equal.                            *)
HitsInv ==
  ~overlapped =>
    /\ IsFiniteSet(Units(Shown)) /\ IsFiniteSet(Units(Counted))
    /\ Total(Shown) = Total(Counted)

LEMMA HitsInitially == Init => HitsInv
  <1> SUFFICES ASSUME Init PROVE HitsInv
    OBVIOUS
  <1>1. DOMAIN Shown = {} /\ DOMAIN Counted = {}
    BY DEF Init, Shown, Known, Counted
  <1>2. Units(Shown) = {} /\ Units(Counted) = {}
    BY <1>1 DEF Units
  <1> QED BY <1>2, FS_EmptySet DEF HitsInv, Total

(* A write counts its cluster once more.                                    *)
LEMMA CountedGrows ==
  ASSUME Inv, AppliedInv, NEW p \in Syncing, Apply(p), IsFiniteSet(Units(Counted))
  PROVE  /\ IsFiniteSet(Units(Counted'))
         /\ Total(Counted') = Total(Counted) + Cluster(p).hits
  <1> DEFINE a == <<Ride[p], proc[p].next>>
  <1> DEFINE h == found[a[1]][a[2]].hits
  <1>1. /\ applied \in [Rides \X (1 .. MaxClusters) -> Nat]
        /\ a \in Rides \X (1 .. MaxClusters)
    <2>1. /\ p \in Processors /\ proc[p].next \in 1 .. Len(found[Ride[p]])
          /\ Len(found[Ride[p]]) \in 0 .. MaxClusters
      BY FoundType DEF Syncing, Inv, ProcInv
    <2> QED BY <2>1, SyncAssumption DEF Inv, TypeOK, Rides
  <1>2. h = Cluster(p).hits /\ h \in Nat
    BY ClusterType DEF Cluster, ClusterRecords, Inv
  <1>3. /\ applied' = [applied EXCEPT ![a] = applied[a] + 1] /\ found' = found
    BY <1>1 DEF Apply
  <1> HIDE DEF a
  <1>4. /\ applied'[a] = applied[a] + 1 /\ DOMAIN applied' = DOMAIN applied
        /\ \A b \in DOMAIN applied : b # a => applied'[b] = applied[b]
    BY <1>1, <1>3
  <1>5. DOMAIN Counted = {b \in DOMAIN applied : applied[b] # 0}
        /\ \A b \in DOMAIN Counted : Counted[b] = applied[b] * found[b[1]][b[2]].hits
    BY DEF Counted
  <1>6. DOMAIN Counted' = {b \in DOMAIN applied' : applied'[b] # 0}
        /\ \A b \in DOMAIN Counted' : Counted'[b] = applied'[b] * found[b[1]][b[2]].hits
    BY <1>3 DEF Counted
  <1>7. DOMAIN Counted' = DOMAIN Counted \cup {a}
    BY <1>1, <1>4, <1>5, <1>6
  <1>8. \A b \in DOMAIN Counted : b # a => Counted'[b] = Counted[b]
    BY <1>4, <1>5, <1>6
  <1>9. Counted'[a] = (applied[a] + 1) * h
    BY <1>1, <1>4, <1>6, <1>7
  <1>10. applied[a] \in Nat /\ (applied[a] + 1) * h = applied[a] * h + h /\ 1 * h = h
    <2>1. applied[a] \in Nat
      BY <1>1
    <2> HIDE DEF h
    <2> QED BY <2>1, <1>2
  <1>11. a \in DOMAIN Counted => Counted'[a] = Counted[a] + h
    BY <1>5, <1>9, <1>10
  <1>12. a \notin DOMAIN Counted => Counted'[a] = h
    <2>1. a \notin DOMAIN Counted => applied[a] = 0
      BY <1>1, <1>5
    <2> QED BY <2>1, <1>2, <1>9, <1>10
  <1>13. \A b \in DOMAIN Counted : Counted[b] \in Nat
    <2> SUFFICES ASSUME NEW b \in DOMAIN Counted PROVE Counted[b] \in Nat
      OBVIOUS
    <2>1. applied[b] \in Nat /\ found[b[1]][b[2]].hits \in Nat
      BY <1>1, <1>5 DEF AppliedInv, ClusterRecords
    <2> QED BY <2>1, <1>5
  <1> HIDE DEF h
  <1> QED BY <1>2, <1>7, <1>8, <1>11, <1>12, <1>13, TotalGrows

LEMMA AppliedStep ==
  ASSUME Inv, AppliedInv, [Next]_vars
  PROVE  AppliedInv'
  <1>1. ASSUME NEW p \in Syncing, Apply(p) PROVE AppliedInv'
    <2>1. found[Ride[p]][proc[p].next] \in ClusterRecords
      BY ClusterType DEF Cluster, Inv
    <2> QED BY <1>1, <2>1 DEF Apply, AppliedInv
  <1>2. ASSUME NEW p \in Processors, Update(p) \/ Insert(p) PROVE AppliedInv'
    BY <1>2, <1>1 DEF Update, Insert, Syncing
  <1>3. CASE UNCHANGED <<found, applied>>
    BY <1>3 DEF AppliedInv
  <1>4. ASSUME NEW p \in Processors,
               Start(p) \/ Skip(p) \/ Fetch(p) \/ Fail(p) \/ InsertRefused(p)
        PROVE  UNCHANGED <<found, applied>>
    BY <1>4 DEF Start, Skip, Fetch, Fail, InsertRefused
  <1>5. ASSUME NEW x \in Places, Fix(x) PROVE UNCHANGED <<found, applied>>
    BY <1>5 DEF Fix
  <1> QED BY <1>2, <1>3, <1>4, <1>5 DEF Next, vars

(* The row that a cluster is merged into shows its hits more, as long as    *)
(* the copy it is merged with is true.                                      *)
LEMMA UpdateHits ==
  ASSUME Inv, ~overlapped, NEW p \in Processors, Update(p), IsFiniteSet(Units(Shown))
  PROVE  /\ IsFiniteSet(Units(Shown'))
         /\ Total(Shown') = Total(Shown) + Cluster(p).hits
  <1> DEFINE m == proc[p].match
  <1> DEFINE new == Merged(m.row, Cluster(p), Ride[p])
  <1> DEFINE fixed == rows[m.at].fixed /\ ~Reopens(m.row, Cluster(p))
  <1> DEFINE h == Cluster(p).hits
  <1>1. p \in Syncing /\ m # None /\ proc[p].at = "write"
    BY DEF Update, Syncing
  <1>2. /\ m.row \in RowRecords /\ Cluster(p) \in ClusterRecords /\ Ride[p] \in Rides
        /\ m.at \in Known /\ Same(m.row, rows[m.at])
    BY <1>1, ClusterType DEF Inv, ProcInv, SoloInv, Rides
  <1>3. new \in RowRecords /\ new.hits = m.row.hits + h
    BY <1>2, MergedType
  <1>4. rows' = [rows EXCEPT ![m.at] = WithStatus(new, fixed)]
    BY DEF Update
  <1>5. fixed \in BOOLEAN
    OBVIOUS
  <1> HIDE DEF new, fixed, m
  <1>6. WithStatus(new, fixed) \in RowRecords /\ WithStatus(new, fixed).hits = new.hits
    <2>1. new.hits \in Nat /\ new.sev \in Severities /\ new.users \in SUBSET Rides
      BY <1>3, RowTyped
    <2> QED BY <1>5, <2>1, RowType DEF WithStatus
  <1>7. /\ rows'[m.at] = WithStatus(new, fixed) /\ Known' = Known
        /\ \A y \in Known : y # m.at => rows'[y] = rows[y]
    BY <1>2, <1>4, <1>6, NoneAssumption DEF Inv, TypeOK, Known
  <1>8. rows'[m.at].hits = rows[m.at].hits + h
    BY <1>2, <1>3, <1>6, <1>7 DEF Same
  <1>9. h \in Nat /\ \A y \in Known : rows[y].hits \in Nat
    <2>1. \A y \in Known : rows[y] \in RowRecords
      BY DEF Known, Inv, TypeOK
    <2> QED BY <1>2, <2>1, RowTyped DEF ClusterRecords
  <1>10. /\ DOMAIN Shown = Known /\ \A y \in Known : Shown[y] = rows[y].hits
         /\ DOMAIN Shown' = Known /\ \A y \in Known : Shown'[y] = rows'[y].hits
    BY <1>7 DEF Shown
  <1> HIDE DEF h
  <1>11. /\ DOMAIN Shown' = DOMAIN Shown \cup {m.at}
         /\ \A y \in DOMAIN Shown : Shown[y] \in Nat
         /\ \A y \in DOMAIN Shown : y # m.at => Shown'[y] = Shown[y]
         /\ m.at \in DOMAIN Shown /\ Shown'[m.at] = Shown[m.at] + h
    BY <1>2, <1>7, <1>8, <1>9, <1>10
  <1>12. IsFiniteSet(Units(Shown')) /\ Total(Shown') = Total(Shown) + h
    BY <1>9, <1>11, TotalGrows
  <1> QED BY <1>12 DEF h

LEMMA InsertHits ==
  ASSUME Inv, NEW p \in Processors, Insert(p), IsFiniteSet(Units(Shown))
  PROVE  /\ IsFiniteSet(Units(Shown'))
         /\ Total(Shown') = Total(Shown) + Cluster(p).hits
  <1> DEFINE x == Cluster(p).at
  <1> DEFINE h == Cluster(p).hits
  <1>1. p \in Syncing /\ proc[p].at = "write"
    BY DEF Insert, Syncing
  <1>2. Cluster(p) \in ClusterRecords /\ Ride[p] \in Rides
    BY <1>1, ClusterType DEF Inv, Rides
  <1>3. x \in Places /\ h \in Nat /\ FinalSeverity(Cluster(p)) \in Severities
    BY <1>1, <1>2, FinalType DEF ClusterRecords, Inv, ProcInv
  <1>4. New(p) \in RowRecords /\ New(p).hits = h
    <2>1. {Ride[p]} \in SUBSET Rides /\ FALSE \in BOOLEAN
      BY <1>2
    <2>2. New(p) = Row(h, FinalSeverity(Cluster(p)), {Ride[p]}, FALSE)
      BY DEF New
    <2> HIDE DEF x, h
    <2>3. \A fixed \in BOOLEAN :
            /\ Row(h, FinalSeverity(Cluster(p)), {Ride[p]}, fixed) \in RowRecords
            /\ Row(h, FinalSeverity(Cluster(p)), {Ride[p]}, fixed).hits = h
      BY <1>3, <2>1, RowType
    <2> QED BY <2>1, <2>2, <2>3, Zenon
  <1>5. rows[x] = None /\ rows' = [rows EXCEPT ![x] = New(p)]
    BY DEF Insert
  <1> HIDE DEF x, h
  <1>6. /\ rows'[x] = New(p) /\ x \notin Known /\ Known' = Known \cup {x}
        /\ \A y \in Known : y # x => rows'[y] = rows[y]
    BY <1>3, <1>4, <1>5, NoneAssumption DEF Inv, TypeOK, Known
  <1>7. \A y \in Known : rows[y].hits \in Nat
    <2>1. \A y \in Known : rows[y] \in RowRecords
      BY DEF Known, Inv, TypeOK
    <2> QED BY <2>1, RowTyped
  <1>8. /\ DOMAIN Shown = Known /\ \A y \in Known : Shown[y] = rows[y].hits
        /\ DOMAIN Shown' = Known' /\ \A y \in Known' : Shown'[y] = rows'[y].hits
    BY DEF Shown
  <1>9. /\ DOMAIN Shown' = DOMAIN Shown \cup {x}
        /\ \A y \in DOMAIN Shown : Shown[y] \in Nat
        /\ \A y \in DOMAIN Shown : y # x => Shown'[y] = Shown[y]
        /\ x \in DOMAIN Shown => Shown'[x] = Shown[x] + h
        /\ Shown'[x] = h
    BY <1>4, <1>6, <1>7, <1>8
  <1>10. IsFiniteSet(Units(Shown')) /\ Total(Shown') = Total(Shown) + h
    BY <1>3, <1>9, TotalGrows
  <1> QED BY <1>10 DEF h

LEMMA HitsStep ==
  ASSUME Inv, AppliedInv, HitsInv, [Next]_vars
  PROVE  HitsInv'
  <1> SUFFICES ASSUME ~overlapped'
               PROVE  /\ IsFiniteSet(Units(Shown')) /\ IsFiniteSet(Units(Counted'))
                      /\ Total(Shown') = Total(Counted')
    BY DEF HitsInv, Units, Total
  <1>1. ~overlapped
    BY DEF Next, Start, Skip, Fetch, Fail, Update, Insert, InsertRefused, Apply, Fix, vars
  <1>2. /\ IsFiniteSet(Units(Shown)) /\ IsFiniteSet(Units(Counted))
        /\ Total(Shown) = Total(Counted)
    BY <1>1 DEF HitsInv
  <1>3. ASSUME NEW p \in Processors, Update(p) \/ Insert(p)
        PROVE  /\ IsFiniteSet(Units(Shown')) /\ IsFiniteSet(Units(Counted'))
               /\ Total(Shown') = Total(Counted')
    <2>1. p \in Syncing /\ Apply(p)
      BY <1>3 DEF Update, Insert, Syncing
    <2> QED BY <1>1, <1>2, <1>3, <2>1, CountedGrows, UpdateHits, InsertHits
  <1>4. CASE Shown' = Shown /\ Counted' = Counted
    BY <1>2, <1>4
  <1>5. CASE UNCHANGED <<rows, found, applied>>
    BY <1>4, <1>5 DEF Shown, Known, Counted
  <1>6. ASSUME NEW p \in Processors,
               Start(p) \/ Skip(p) \/ Fetch(p) \/ Fail(p) \/ InsertRefused(p)
        PROVE  UNCHANGED <<rows, found, applied>>
    BY <1>6 DEF Start, Skip, Fetch, Fail, InsertRefused
  <1>7. ASSUME NEW x \in Places, Fix(x) PROVE Shown' = Shown /\ Counted' = Counted
    <2>1. Known' = Known /\ \A y \in Known : rows'[y].hits = rows[y].hits
      BY <1>7, FixRows DEF Same
    <2>2. UNCHANGED <<found, applied>>
      BY <1>7 DEF Fix
    <2> QED BY <2>1, <2>2 DEF Shown, Counted
  <1> QED BY <1>3, <1>4, <1>5, <1>6, <1>7 DEF Next, vars

(* Syncs that do not overlap lose no hit and count none twice, but those of *)
(* a ride that is processed again: the rows show exactly what was applied.  *)
THEOREM HitsConservedAlways == Spec => []HitsConserved
  <1>1. Init => AppliedInv
    BY DEF Init, AppliedInv
  <1>2. Inv /\ AppliedInv /\ HitsInv /\ [Next]_vars => AppliedInv' /\ HitsInv'
    BY AppliedStep, HitsStep
  <1>3. HitsInv => HitsConserved
    BY DEF HitsInv, HitsConserved
  <1> QED BY HitsInitially, Always, <1>1, <1>2, <1>3, PTL DEF Spec

-----------------------------------------------------------------------------
(* The copies of a sync in progress show that a row is fixed, unless the    *)
(* vote came while the sync held the copy.                                  *)
CopiesTrue(p) ==
  /\ \A x \in DOMAIN existing[p] \ stale : rows[x].fixed => existing[p][x].fixed
  /\ proc[p].at = "write" /\ proc[p].match # None /\ proc[p].match.at \notin stale =>
       (rows[proc[p].match.at].fixed => proc[p].match.row.fixed)

CopiesInv == \A p \in Syncing : CopiesTrue(p)

(* A step of others keeps the copies of q true, if what it does to the rows *)
(* that q holds is to reopen them.                                          *)
LEMMA CopiesKept ==
  ASSUME Inv, NEW q \in Syncing, CopiesTrue(q),
         proc'[q] = proc[q], existing'[q] = existing[q], stale \subseteq stale',
         \A x \in Known \ stale' : q \in Held(x) /\ rows'[x].fixed => rows[x].fixed
  PROVE  CopiesTrue(q)'
  <1>1. q \in Processors
    BY DEF Syncing
  <1>2. \A x \in DOMAIN existing[q] : x \in Known /\ q \in Held(x)
    BY <1>1 DEF Inv, TypeOK, Held
  <1>3. proc[q].at = "write" /\ proc[q].match # None =>
          proc[q].match.at \in Known /\ q \in Held(proc[q].match.at)
    BY <1>1 DEF Inv, ProcInv, Held
  <1> QED BY <1>2, <1>3 DEF CopiesTrue

(* What a merge does to the status of rows and copies. *)
LEMMA UpdateStatus ==
  ASSUME Inv, NEW p \in Processors, Update(p)
  PROVE  /\ p \in Syncing /\ proc[p].at = "write" /\ proc[p].match # None
         /\ proc[p].match.at \in Known
         /\ \A y \in Known : y # proc[p].match.at => rows'[y] = rows[y]
         /\ rows'[proc[p].match.at].fixed =
              (rows[proc[p].match.at].fixed /\ ~Reopens(proc[p].match.row, Cluster(p)))
         /\ \A q \in Processors : q # p => existing'[q] = existing[q]
         /\ \A y \in DOMAIN existing'[p] :
              /\ y \in DOMAIN existing[p]
              /\ y = proc[p].match.at => existing'[p][y].fixed = proc[p].match.row.fixed
              /\ y # proc[p].match.at => existing'[p][y] = existing[p][y]
  <1> DEFINE m == proc[p].match
  <1> DEFINE new == Merged(m.row, Cluster(p), Ride[p])
  <1> DEFINE fixed == rows[m.at].fixed /\ ~Reopens(m.row, Cluster(p))
  <1>1. p \in Syncing /\ proc[p].at = "write" /\ m # None
    BY DEF Update, Syncing
  <1>2. /\ m.at \in Known /\ m.row \in RowRecords /\ m.own \in BOOLEAN
        /\ m.own <=> m.at \in DOMAIN existing[p]
        /\ DOMAIN existing = Processors
    BY <1>1 DEF Inv, ProcInv
  <1>3. new \in RowRecords /\ new.fixed = m.row.fixed
    <2>1. Cluster(p) \in ClusterRecords /\ Ride[p] \in Rides
      BY <1>1, ClusterType DEF Inv, Rides
    <2> QED BY <1>2, <2>1, MergedType
  <1>4. /\ rows' = [rows EXCEPT ![m.at] = WithStatus(new, fixed)]
        /\ existing' = IF m.own THEN [existing EXCEPT ![p][m.at] = new] ELSE existing
        /\ fixed \in BOOLEAN
    BY DEF Update
  <1> HIDE DEF m, new, fixed
  <1>5. WithStatus(new, fixed) \in RowRecords /\ WithStatus(new, fixed).fixed = fixed
    BY <1>3, <1>4, StatusType
  <1>6. rows'[m.at] = WithStatus(new, fixed)
        /\ \A y \in Known : y # m.at => rows'[y] = rows[y]
    BY <1>2, <1>4 DEF Inv, TypeOK, Known
  <1>7. /\ \A q \in Processors : q # p => existing'[q] = existing[q]
        /\ \A y \in DOMAIN existing'[p] :
             /\ y \in DOMAIN existing[p]
             /\ y = m.at => existing'[p][y] = new
             /\ y # m.at => existing'[p][y] = existing[p][y]
    <2>1. CASE m.own
      BY <1>2, <1>4, <2>1
    <2>2. CASE ~m.own
      BY <1>2, <1>4, <2>2
    <2> QED BY <1>2, <2>1, <2>2
  <1>8. rows'[m.at].fixed = fixed
    BY <1>5, <1>6
  <1> QED BY <1>1, <1>2, <1>3, <1>6, <1>7, <1>8 DEF m, fixed

LEMMA UpdateCopies ==
  ASSUME Inv, CopiesInv, NEW p \in Processors, Update(p)
  PROVE  CopiesInv'
  <1> DEFINE x == proc[p].match.at
  <1>1. /\ p \in Syncing /\ proc[p].at = "write" /\ proc[p].match # None /\ x \in Known
        /\ \A y \in Known : y # x => rows'[y] = rows[y]
        /\ rows'[x].fixed => rows[x].fixed
        /\ \A y \in DOMAIN existing'[p] :
             /\ y \in DOMAIN existing[p]
             /\ y = x => existing'[p][y].fixed = proc[p].match.row.fixed
             /\ y # x => existing'[p][y] = existing[p][y]
    BY UpdateStatus
  <1>2. PICK at, next :
          /\ at \in {"fetch", "done", "failed"}
          /\ proc' = [proc EXCEPT ![p] = Proc(at, next, None, proc[p].tries)]
    BY <1>1, ApplyNext DEF Update
  <1>3. proc'[p].at # "write" /\ \A q \in Processors : q # p => proc'[q] = proc[q]
    BY <1>2, ProcFields DEF Inv, ProcInv
  <1>4. stale' = stale
    BY DEF Update, Apply
  <1>5. CopiesTrue(p)
    BY <1>1 DEF CopiesInv
  <1>6. CopiesTrue(p)'
    <2> SUFFICES ASSUME NEW y \in DOMAIN existing'[p] \ stale, rows'[y].fixed
                 PROVE  existing'[p][y].fixed
      BY <1>3, <1>4 DEF CopiesTrue
    <2>1. y \in DOMAIN existing[p] /\ y \in Known
      BY <1>1 DEF Inv, TypeOK
    <2>2. rows[y].fixed
      BY <1>1, <2>1
    <2>3. CASE y = x
      <3>1. proc[p].match.row.fixed
        BY <1>1, <1>5, <2>2, <2>3 DEF CopiesTrue
      <3>2. existing'[p][y].fixed = proc[p].match.row.fixed
        BY <1>1, <2>3
      <3> QED BY <3>1, <3>2
    <2>4. CASE y # x
      <3>1. existing[p][y].fixed
        BY <1>5, <2>1, <2>2 DEF CopiesTrue
      <3>2. existing'[p][y] = existing[p][y]
        BY <1>1, <2>4
      <3> QED BY <3>1, <3>2
    <2> QED BY <2>3, <2>4
  <1>7. ASSUME NEW q \in Syncing', q # p PROVE CopiesTrue(q)'
    <2>1. q \in Syncing /\ q \in Processors /\ proc'[q] = proc[q]
      BY <1>3, <1>7 DEF Syncing
    <2>2. existing'[q] = existing[q]
      BY <1>7, <2>1, UpdateStatus
    <2>3. CopiesTrue(q)
      BY <2>1 DEF CopiesInv
    <2>4. \A y \in Known : rows'[y].fixed => rows[y].fixed
      BY <1>1
    <2> QED BY <1>4, <2>1, <2>2, <2>3, <2>4, CopiesKept
  <1> QED BY <1>6, <1>7 DEF CopiesInv

LEMMA InsertCopies ==
  ASSUME Inv, CopiesInv, NEW p \in Processors, Insert(p)
  PROVE  CopiesInv'
  <1> DEFINE x == Cluster(p).at
  <1>1. p \in Syncing /\ Apply(p) /\ DOMAIN proc = Processors /\ DOMAIN existing = Processors
    BY DEF Insert, Syncing, Inv, ProcInv
  <1>2. x \notin Known /\ rows' = [rows EXCEPT ![x] = New(p)]
        /\ existing' = [existing EXCEPT ![p] =
             [y \in DOMAIN existing[p] \cup {x} |-> IF y = x THEN New(p) ELSE existing[p][y]]]
    BY <1>1 DEF Insert, Known
  <1> HIDE DEF x
  <1>3. /\ \A y \in Known : rows'[y] = rows[y]
        /\ \A q \in Processors : q # p => existing'[q] = existing[q]
        /\ \A y \in DOMAIN existing'[p] :
             IF y = x THEN existing'[p][y] = New(p)
             ELSE y \in DOMAIN existing[p] /\ existing'[p][y] = existing[p][y]
    BY <1>1, <1>2 DEF Inv, TypeOK, Known
  <1>4. PICK at, next :
          /\ at \in {"fetch", "done", "failed"}
          /\ proc' = [proc EXCEPT ![p] = Proc(at, next, None, proc[p].tries)]
    BY <1>1, ApplyNext
  <1>5. proc'[p].at # "write" /\ \A q \in Processors : q # p => proc'[q] = proc[q]
    BY <1>1, <1>4, ProcFields
  <1>6. stale' = stale
    BY <1>1 DEF Apply
  <1>7. CopiesTrue(p)'
    <2> SUFFICES ASSUME NEW y \in DOMAIN existing'[p] \ stale, rows'[y].fixed
                 PROVE  existing'[p][y].fixed
      BY <1>5, <1>6 DEF CopiesTrue
    <2>1. CASE y = x
      <3>1. existing'[p][y] = New(p)
        BY <1>3, <2>1
      <3>2. x \in Places
        BY <1>1, ClusterType DEF Insert, Inv, ProcInv, ClusterRecords, x
      <3>3. rows'[y] = New(p)
        BY <1>2, <2>1, <3>2 DEF Inv, TypeOK
      <3> QED BY <3>1, <3>3
    <2>2. CASE y # x
      <3>1. y \in DOMAIN existing[p] /\ existing'[p][y] = existing[p][y]
        BY <1>3, <2>2
      <3>2. rows'[y] = rows[y]
        BY <1>3, <3>1 DEF Inv, TypeOK
      <3>3. CopiesTrue(p)
        BY <1>1 DEF CopiesInv
      <3> QED BY <3>1, <3>2, <3>3 DEF CopiesTrue
    <2> QED BY <2>1, <2>2
  <1>8. ASSUME NEW q \in Syncing', q # p PROVE CopiesTrue(q)'
    <2>1. q \in Syncing /\ q \in Processors /\ proc'[q] = proc[q] /\ existing'[q] = existing[q]
      BY <1>3, <1>5, <1>8 DEF Syncing
    <2>2. CopiesTrue(q)
      BY <2>1 DEF CopiesInv
    <2> QED BY <1>3, <1>6, <2>1, <2>2, CopiesKept
  <1> QED BY <1>7, <1>8 DEF CopiesInv

(* A copy is true when it is chosen. *)
LEMMA FetchCopies ==
  ASSUME Inv, CopiesInv, NEW p \in Processors, Fetch(p)
  PROVE  CopiesInv'
  <1>1. p \in Syncing /\ DOMAIN proc = Processors /\ UNCHANGED <<rows, existing, stale>>
    BY DEF Fetch, Syncing, Inv, ProcInv
  <1>2. PICK match :
          /\ proc' = [proc EXCEPT ![p] = Proc("write", proc[p].next, match, proc[p].tries)]
          /\ match \in Copies(p) \/ match = None
    BY <1>1 DEF Fetch, Goto, Matches
  <1>3. proc'[p].match = match /\ \A q \in Processors : q # p => proc'[q] = proc[q]
    BY <1>1, <1>2, ProcFields
  <1>4. CopiesTrue(p)
    BY <1>1 DEF CopiesInv
  <1>5. ASSUME match # None, match.at \notin stale, rows[match.at].fixed PROVE match.row.fixed
    <2>1. /\ match.own => match.at \in DOMAIN existing[p] /\ match.row = existing[p][match.at]
          /\ ~match.own => match.row = rows[match.at]
      BY <1>2, <1>5, CopyOf DEF Inv
    <2>2. CASE match.own
      BY <1>4, <1>5, <2>1, <2>2 DEF CopiesTrue
    <2>3. CASE ~match.own
      BY <1>5, <2>1, <2>3
    <2> QED BY <2>2, <2>3
  <1>6. CopiesTrue(p)'
    BY <1>1, <1>3, <1>4, <1>5 DEF CopiesTrue
  <1>7. ASSUME NEW q \in Syncing', q # p PROVE CopiesTrue(q)'
    <2>1. q \in Syncing /\ proc'[q] = proc[q] /\ existing'[q] = existing[q]
      BY <1>1, <1>3, <1>7 DEF Syncing
    <2>2. CopiesTrue(q)
      BY <2>1 DEF CopiesInv
    <2> QED BY <1>1, <2>1, <2>2, CopiesKept
  <1> QED BY <1>6, <1>7 DEF CopiesInv

LEMMA CopiesStep == ASSUME Inv, CopiesInv, [Next]_vars PROVE CopiesInv'
  <1>1. ASSUME NEW p \in Processors, NEW at \in {"fetch", "done", "failed"}, NEW next, NEW tries,
               proc' = [proc EXCEPT ![p] = Proc(at, next, None, tries)],
               \/ p \in Syncing /\ existing' = existing
               \/ existing' = [existing EXCEPT ![p] = <<>>],
               UNCHANGED <<rows, stale>>
        PROVE  CopiesInv'
    <2>1. /\ DOMAIN proc = Processors /\ DOMAIN existing = Processors
          /\ proc'[p].at # "write"
          /\ \A q \in Processors : q # p => proc'[q] = proc[q] /\ existing'[q] = existing[q]
      BY <1>1, ProcFields DEF Inv, ProcInv
    <2>2. CopiesTrue(p)'
      <3>1. CASE existing'[p] = <<>>
        <4>1. DOMAIN existing'[p] = {}
          BY <3>1
        <4> QED BY <2>1, <4>1 DEF CopiesTrue
      <3>2. CASE p \in Syncing /\ existing' = existing
        BY <1>1, <2>1, <3>2 DEF CopiesInv, CopiesTrue
      <3> QED BY <1>1, <2>1, <3>1, <3>2
    <2>3. ASSUME NEW q \in Syncing', q # p PROVE CopiesTrue(q)'
      <3>1. q \in Syncing /\ proc'[q] = proc[q] /\ existing'[q] = existing[q]
        BY <2>1, <2>3 DEF Syncing
      <3>2. CopiesTrue(q)
        BY <3>1 DEF CopiesInv
      <3> QED BY <1>1, <3>1, <3>2, CopiesKept
    <2> QED BY <2>2, <2>3 DEF CopiesInv
  <1>2. ASSUME NEW p \in Processors, Start(p) PROVE CopiesInv'
    <2>1. PICK at \in {"fetch", "done"} :
            proc' = [proc EXCEPT ![p] = Proc(at, 1, None, proc[p].tries + 1)]
      BY <1>2 DEF Start, Inv, ProcInv
    <2>2. existing' = [existing EXCEPT ![p] = <<>>] /\ UNCHANGED <<rows, stale>>
      BY <1>2 DEF Start
    <2> QED BY <1>1, <2>1, <2>2
  <1>3. ASSUME NEW p \in Processors, Skip(p) PROVE CopiesInv'
    <2>1. PICK at \in {"fetch", "done"} :
            proc' = [proc EXCEPT ![p] = Proc(at, proc[p].next + 1, None, proc[p].tries)]
      BY <1>3 DEF Skip, Advance, Inv, ProcInv
    <2>2. p \in Syncing /\ UNCHANGED <<existing, rows, stale>>
      BY <1>3 DEF Skip, Syncing
    <2> QED BY <1>1, <2>1, <2>2
  <1>4. ASSUME NEW p \in Processors, Fail(p) \/ InsertRefused(p) PROVE CopiesInv'
    <2>1. proc' = [proc EXCEPT ![p] = Proc("failed", proc[p].next, None, proc[p].tries)]
      BY <1>4 DEF Fail, InsertRefused, Goto, Inv, ProcInv
    <2>2. p \in Syncing /\ UNCHANGED <<existing, rows, stale>>
      BY <1>4 DEF Fail, InsertRefused, Syncing
    <2> QED BY <1>1, <2>1, <2>2
  <1>5. ASSUME NEW x \in Places, Fix(x) PROVE CopiesInv'
    <2>1. UNCHANGED <<proc, existing>> /\ Syncing' = Syncing /\ stale \subseteq stale'
      BY <1>5 DEF Fix, Syncing
    <2>2. ASSUME NEW q \in Syncing, NEW y \in Known \ stale', q \in Held(y)
          PROVE  rows'[y] = rows[y]
      <3>1. y # x
        BY <1>5, <2>2 DEF Fix
      <3> QED BY <1>5, <3>1 DEF Fix, Inv, TypeOK, Known
    <2>3. ASSUME NEW q \in Syncing' PROVE CopiesTrue(q)'
      <3>1. q \in Syncing /\ CopiesTrue(q)
        BY <2>1 DEF CopiesInv
      <3> QED BY <2>1, <2>2, <3>1, CopiesKept
    <2> QED BY <2>3 DEF CopiesInv
  <1>6. CASE UNCHANGED vars
    BY <1>6 DEF vars, CopiesInv, CopiesTrue, Syncing
  <1> QED BY <1>2, <1>3, <1>4, <1>5, <1>6, FetchCopies, UpdateCopies, InsertCopies DEF Next

(* A pothole voted fixed that a ride then meets with enough hits is active  *)
(* again once the cluster is merged, even when syncs overlap: the copy that *)
(* the merge reads shows the vote, so that the merge reopens it.            *)
THEOREM MetIsActiveAlways == Spec => MetIsActive
  <1>1. ASSUME Inv, CopiesInv, [Next]_vars, NEW a \in DOMAIN applied, NEW x \in Known \ stale,
               applied'[a] > applied[a], found[a[1]][a[2]].hits >= ReopenHits,
               rows'[x] # rows[x]
        PROVE  ~rows'[x].fixed
    <2>0. applied'[a] # applied[a]
      <3>1. applied[a] \in Nat
        BY <1>1 DEF Inv, TypeOK
      <3> QED BY <1>1, <3>1
    <2>1. ASSUME NEW p \in Processors, Update(p) PROVE ~rows'[x].fixed
      <3>1. a = <<Ride[p], proc[p].next>>
        BY <2>0, <2>1 DEF Update, Apply
      <3>2. /\ p \in Syncing /\ proc[p].at = "write" /\ proc[p].match # None
            /\ x = proc[p].match.at
            /\ rows'[x].fixed =
                 (rows[x].fixed /\ ~Reopens(proc[p].match.row, Cluster(p)))
        BY <1>1, <2>1, UpdateStatus
      <3>3. Cluster(p).hits >= ReopenHits
        BY <1>1, <3>1 DEF Cluster
      <3>4. rows[x].fixed => proc[p].match.row.fixed
        BY <1>1, <3>2 DEF CopiesInv, CopiesTrue
      <3> QED BY <3>2, <3>3, <3>4 DEF Reopens
    <2>2. ASSUME NEW p \in Processors, Insert(p) PROVE FALSE
      BY <1>1, <2>2 DEF Insert, Inv, TypeOK, Known
    <2> QED BY <1>1, <2>0, <2>1, <2>2
          DEF Next, Start, Skip, Fetch, Fail, InsertRefused, Fix, vars
  <1>2. Inv /\ CopiesInv /\ [Next]_vars =>
          [\A a \in DOMAIN applied, x \in Known \ stale :
             /\ applied'[a] > applied[a] /\ found[a[1]][a[2]].hits >= ReopenHits
             /\ rows'[x] # rows[x]
             => ~rows'[x].fixed]_vars
    BY <1>1
  <1>3. Init => CopiesInv
    BY ProcFields DEF Init, CopiesInv, Syncing
  <1>4. Inv /\ CopiesInv /\ [Next]_vars => CopiesInv'
    BY CopiesStep
  <1> QED BY Always, <1>2, <1>3, <1>4, PTL DEF Spec, MetIsActive
=============================================================================
